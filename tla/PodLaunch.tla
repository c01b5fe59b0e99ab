----------------------------- MODULE PodLaunch ------------------------------
(***************************************************************************)
(* The node agent (runNodeAgent): the ordinary pods one after the other,   *)
(* then the bridged pods all at once, a goroutine for each.  A pod is the  *)
(* goroutine that launches it on the host (`host'), the container process  *)
(* (`ctr'), the goroutine of hostSideVethPing (`ping') and the cgroup      *)
(* directory (`cgroup'); between host and container run three pipes: fd 3  *)
(* releases the container once it is in its cgroup, fd 5 tells it that its *)
(* link exists, fd 4 tells the host that it listens.  The bridged pods of  *)
(* a tenant run under the kernel's MAC (`mac'), which the agent switches   *)
(* to enforcing before it starts them and back when they are done.         *)
(***************************************************************************)
EXTENDS Integers, FiniteSets

CONSTANTS
    Ordinary,  \* the pods of the manifests that are not bridged
    Veth,      \* those of them that have a network, on a veth pair
    Bridged,   \* the bridged ones and the demo pods
    Bridge,    \* per bridged pod: the bridge its link is a port of
    Tenant,    \* per pod: its astermac tenant, 0 for none
    Faults,    \* "io": cgroup, pipe, exec, veth and bridge calls may fail;
               \* "mac": the astermac prctls may fail;
               \* "stuck": a killed container may not be reaped in time
    MaxFailures  \* bound: how many calls whose error is passed over may fail

Pods == Ordinary \cup Bridged

ASSUME PodsAssumption ==
    /\ Veth \subseteq Ordinary
    /\ Ordinary \cap Bridged = {}
    /\ Bridged # {}
    /\ Tenant \in [Pods -> Nat]
    /\ Faults \subseteq {"io", "mac", "stuck"}
    /\ MaxFailures \in Nat

VARIABLES
    agent,   \* where runNodeAgent is
    host,    \* per pod: where runPod or runBridgedPod is
    ctr,     \* per pod: the container process
    pipe,    \* per pod: the bytes written to fd 3, fd 5 and fd 4
    ping,    \* per pod: hostSideVethPing
    cgroup,  \* per pod: its directory under /sys/fs/cgroup exists
    mac,     \* the kernel's mode, the one the early boot left (a history), and
             \* the table of address labels
    open,    \* the pods whose cross-tenant connect was let through
    failed   \* history: the calls <<pod, name>> that failed

vars == <<agent, host, ctr, pipe, ping, cgroup, mac, open, failed>>

-----------------------------------------------------------------------------
(* Values.                                                                 *)

\* "returned": runNodeAgent came back without having started a bridged pod.
AgentStates == {"load", "ordinary", "bridges", "labels", "launch", "wait", "clear", "done",
                "returned"}
HostStates == {"idle", "cgroup", "start", "place", "release", "veth", "signal",
               "wait", "grace", "remove", "done", "skipped"}

\* runContainer by the call it is in; "dying" has been sent SIGKILL.
CodeStates == {"label", "net", "addr", "tests", "bind", "ready", "recv", "probe"}
CtrStates == {"none", "sync", "dying", "exited", "reaped"} \cup CodeStates

Ctr == [st : CtrStates, cg : BOOLEAN, tenant : Nat, bound : BOOLEAN]
Pipe == [sync : BOOLEAN, created : BOOLEAN, ready : BOOLEAN]
Modes == {"permissive", "enforcing"}
Mac == [mode : Modes, boot : Modes, label : [Pods -> Nat]]
Calls == {"label", "mode", "tenant", "procs", "veth", "reap", "unlabel", "restore"}

TypeOK ==
    /\ agent \in AgentStates
    /\ host \in [Pods -> HostStates]
    /\ ctr \in [Pods -> Ctr]
    /\ pipe \in [Pods -> Pipe]
    /\ ping \in [Pods -> {"none", "reading", "sent", "gone"}]
    /\ cgroup \in [Pods -> BOOLEAN]
    /\ mac \in Mac
    /\ open \subseteq Bridged
    /\ failed \subseteq Pods \X Calls

\* spec.Network # nil: the pod has the pipes of fd 4 and fd 5.
Networked == Veth \cup Bridged

Alive(p) == ctr[p].st \in CodeStates \cup {"sync"}

\* The tenant pods whose address applyTenantLabels labels.
Labelled == {p \in Bridged : Tenant[p] # 0}

-----------------------------------------------------------------------------
(* Helpers.                                                                *)

Goto(p, l) == host' = [host EXCEPT ![p] = l]
Step(p, l) == ctr' = [ctr EXCEPT ![p].st = l]
Failed(p, c) == <<p, c>> \in failed
MayFail(f) == f \in Faults /\ Cardinality(failed) < MaxFailures
Fail(p, c) == failed' = failed \cup {<<p, c>>}

\* The process is gone, and with it its cgroup membership and its label.
Reaped(p) == ctr' = [ctr EXCEPT ![p] = [st |-> "reaped", cg |-> FALSE, tenant |-> 0, bound |-> @.bound]]

\* The MAC probes of the early boot leave the kernel permissive, or enforcing if
\* the last one failed half-way.
Init ==
    /\ agent = "load"
    /\ host = [p \in Pods |-> "idle"]
    /\ ctr = [p \in Pods |-> [st |-> "none", cg |-> FALSE, tenant |-> 0, bound |-> FALSE]]
    /\ pipe = [p \in Pods |-> [sync |-> FALSE, created |-> FALSE, ready |-> FALSE]]
    /\ ping = [p \in Pods |-> "none"]
    /\ cgroup = [p \in Pods |-> FALSE]
    /\ \E m \in Modes : mac = [mode |-> m, boot |-> m, label |-> [p \in Pods |-> 0]]
    /\ open = {}
    /\ failed = {}

-----------------------------------------------------------------------------
(* runNodeAgent and runBridgedPods.                                        *)

\* loadPodManifests: without a manifest that can be read and parsed the agent
\* returns at once.
LoadManifests ==
    /\ agent = "load"
    /\ agent' \in {"ordinary", "returned"}
    /\ UNCHANGED <<host, ctr, pipe, ping, cgroup, mac, open, failed>>

\* runPod is called for the next manifest when the last call has returned.
RunPod(p) ==
    /\ agent = "ordinary" /\ host[p] = "idle"
    /\ \A q \in Ordinary : host[q] \in {"idle", "done"}
    /\ Goto(p, "cgroup")
    /\ UNCHANGED <<agent, ctr, pipe, ping, cgroup, mac, open, failed>>

OrdinaryDone ==
    /\ agent = "ordinary"
    /\ \A p \in Ordinary : host[p] = "done"
    /\ agent' = "bridges"
    /\ UNCHANGED <<host, ctr, pipe, ping, cgroup, mac, open, failed>>

\* The loop over the bridges.  A pod whose bridge could not be made is skipped at
\* launch, though its address is labelled like the others.  Without a netlink
\* socket runBridgedPods returns.
CreateBridges ==
    /\ agent = "bridges"
    /\ \/ /\ \E lost \in SUBSET {Bridge[p] : p \in Bridged} :
                /\ lost # {} => "io" \in Faults
                /\ host' = [p \in Pods |-> IF p \in Bridged /\ Bridge[p] \in lost
                                            THEN "skipped" ELSE host[p]]
          /\ agent' = "labels"
       \/ "io" \in Faults /\ agent' = "returned" /\ UNCHANGED host
    /\ UNCHANGED <<ctr, pipe, ping, cgroup, mac, open, failed>>

\* The loop of applyTenantLabels: a call that fails is passed over.
LabelIP(p) ==
    /\ agent = "labels" /\ p \in Labelled
    /\ mac.label[p] = 0 /\ ~Failed(p, "label")
    /\ \/ /\ mac' = [mac EXCEPT !.label[p] = Tenant[p]]
          /\ UNCHANGED failed
       \/ /\ MayFail("mac")
          /\ Fail(p, "label")
          /\ UNCHANGED mac
    /\ UNCHANGED <<agent, host, ctr, pipe, ping, cgroup, open>>

\* A variant for mutation: enforcing goes on before the labels are in place.
SetEnforcingEarly ==
    /\ agent = "labels"
    /\ mac' = [mac EXCEPT !.mode = "enforcing"]
    /\ agent' = "launch"
    /\ UNCHANGED <<host, ctr, pipe, ping, cgroup, open, failed>>

\* The end of applyTenantLabels: enforcing if any pod was labelled.
SetEnforcing ==
    /\ agent = "labels"
    /\ \A p \in Labelled : mac.label[p] # 0 \/ Failed(p, "label")
    /\ \/ /\ mac' = [mac EXCEPT !.mode =
                 IF \E p \in Labelled : mac.label[p] # 0 THEN "enforcing" ELSE @]
          /\ UNCHANGED failed
       \/ /\ MayFail("mac")
          /\ \E p \in Labelled : mac.label[p] # 0 /\ Fail(p, "mode")
          /\ UNCHANGED mac
    /\ agent' = "launch"
    /\ UNCHANGED <<host, ctr, pipe, ping, cgroup, open>>

\* wg.Add and the go statement for every pod that has its bridge.
Launch ==
    /\ agent = "launch"
    /\ host' = [p \in Pods |-> IF p \in Bridged /\ host[p] = "idle" THEN "cgroup" ELSE host[p]]
    /\ agent' = "wait"
    /\ UNCHANGED <<ctr, pipe, ping, cgroup, mac, open, failed>>

\* wg.Wait returns.
WaitGroupDone ==
    /\ agent = "wait"
    /\ \A p \in Bridged : host[p] \in {"done", "skipped"}
    /\ agent' = "clear"
    /\ UNCHANGED <<host, ctr, pipe, ping, cgroup, mac, open, failed>>

\* cleanupTenantLabels takes the labels back one by one; an error is not looked at.
UnlabelIP(p) ==
    /\ agent = "clear" /\ p \in Labelled
    /\ mac.label[p] # 0 /\ ~Failed(p, "unlabel")
    /\ \/ mac' = [mac EXCEPT !.label[p] = 0] /\ UNCHANGED failed
       \/ MayFail("mac") /\ Fail(p, "unlabel") /\ UNCHANGED mac
    /\ UNCHANGED <<agent, host, ctr, pipe, ping, cgroup, open>>

\* A variant for mutation: the mode is restored only when all labels are gone.
SetPermissiveIfClear ==
    /\ agent = "clear"
    /\ \A p \in Labelled : mac.label[p] = 0 \/ Failed(p, "unlabel")
    /\ mac' = [mac EXCEPT !.mode = IF \A p \in Labelled : mac.label[p] = 0 THEN "permissive" ELSE @]
    /\ agent' = "done"
    /\ UNCHANGED <<host, ctr, pipe, ping, cgroup, open, failed>>

\* It restores the permissive default, and does not look at that error either.
SetPermissive ==
    /\ agent = "clear"
    /\ \A p \in Labelled : mac.label[p] = 0 \/ Failed(p, "unlabel")
    /\ \/ mac' = [mac EXCEPT !.mode = "permissive"] /\ UNCHANGED failed
       \/ MayFail("mac") /\ (\E p \in Bridged : Fail(p, "restore")) /\ UNCHANGED mac
    /\ agent' = "done"
    /\ UNCHANGED <<host, ctr, pipe, ping, cgroup, open>>

-----------------------------------------------------------------------------
(* A pod on the host: startPodContainer, the network, waitPod.             *)

\* os.Mkdir (an existing directory is fine) and the limits, whose errors are
\* ignored.
MakeCgroup(p) ==
    /\ host[p] = "cgroup"
    /\ \/ cgroup' = [cgroup EXCEPT ![p] = TRUE] /\ Goto(p, "start")
       \/ "io" \in Faults /\ Goto(p, "done") /\ UNCHANGED cgroup
    /\ UNCHANGED <<agent, ctr, pipe, ping, mac, open, failed>>

\* A variant for mutation: fd 3 is written before the container is placed.
StartReleased(p) ==
    /\ host[p] = "start"
    /\ Step(p, "sync") /\ Goto(p, "place")
    /\ pipe' = [pipe EXCEPT ![p].sync = TRUE]
    /\ UNCHANGED <<agent, ping, cgroup, mac, open, failed>>

\* A variant for mutation: an early return forgets the cgroup.
StartNoRemove(p) ==
    /\ host[p] = "start"
    /\ \/ Step(p, "sync") /\ Goto(p, "place")
       \/ "io" \in Faults /\ Goto(p, "done") /\ UNCHANGED ctr
    /\ UNCHANGED <<agent, pipe, ping, cgroup, mac, open, failed>>

\* The pipes and cmd.Start; on an error the cgroup is removed.
StartContainer(p) ==
    /\ host[p] = "start"
    /\ \/ Step(p, "sync") /\ Goto(p, "place") /\ UNCHANGED cgroup
       \/ /\ "io" \in Faults
          /\ cgroup' = [cgroup EXCEPT ![p] = FALSE]
          /\ Goto(p, "done")
          /\ UNCHANGED ctr
    /\ UNCHANGED <<agent, pipe, ping, mac, open, failed>>

\* The write to cgroup.procs; an error is only printed.
Place(p) ==
    /\ host[p] = "place"
    /\ \/ ctr' = [ctr EXCEPT ![p].cg = TRUE] /\ UNCHANGED failed
       \/ MayFail("io") /\ Fail(p, "procs") /\ UNCHANGED ctr
    /\ Goto(p, "release")
    /\ UNCHANGED <<agent, pipe, ping, cgroup, mac, open>>

\* The byte on fd 3.
Release(p) ==
    /\ host[p] = "release"
    /\ pipe' = [pipe EXCEPT ![p].sync = TRUE]
    /\ Goto(p, IF p \in Networked THEN "veth" ELSE "wait")
    /\ UNCHANGED <<agent, ctr, ping, cgroup, mac, open, failed>>

\* hostSetupVeth or hostSetupVethOnBridge; an error is only printed.
SetupVeth(p) ==
    /\ host[p] = "veth"
    /\ \/ UNCHANGED failed
       \/ MayFail("io") /\ Fail(p, "veth")
    /\ Goto(p, "signal")
    /\ UNCHANGED <<agent, ctr, pipe, ping, cgroup, mac, open>>

\* A variant for mutation: no byte is sent when the link was not made.
SignalVethCreatedIfOk(p) ==
    /\ host[p] = "signal"
    /\ pipe' = [pipe EXCEPT ![p].created = ~Failed(p, "veth")]
    /\ ping' = [ping EXCEPT ![p] = "reading"]
    /\ Goto(p, "wait")
    /\ UNCHANGED <<agent, ctr, cgroup, mac, open, failed>>

\* The byte on fd 5, sent whether the link was made or not, and the goroutine.
SignalVethCreated(p) ==
    /\ host[p] = "signal"
    /\ pipe' = [pipe EXCEPT ![p].created = TRUE]
    /\ ping' = [ping EXCEPT ![p] = "reading"]
    /\ Goto(p, "wait")
    /\ UNCHANGED <<agent, ctr, cgroup, mac, open, failed>>

\* cmd.Wait returns, in the wait or in the grace period after the kill.
Reap(p) ==
    /\ host[p] \in {"wait", "grace"} /\ ctr[p].st = "exited"
    /\ Reaped(p)
    /\ Goto(p, "remove")
    /\ UNCHANGED <<agent, pipe, ping, cgroup, mac, open, failed>>

\* A variant for mutation: the watchdog gives up without the kill.
WatchdogNoKill(p) ==
    /\ host[p] = "wait"
    /\ Goto(p, "remove")
    /\ UNCHANGED <<agent, ctr, pipe, ping, cgroup, mac, open, failed>>

\* The watchdog fires; the kill of a process that has exited does nothing.
Watchdog(p) ==
    /\ host[p] = "wait"
    /\ IF Alive(p) THEN Step(p, "dying") ELSE UNCHANGED ctr
    /\ Goto(p, "grace")
    /\ UNCHANGED <<agent, pipe, ping, cgroup, mac, open, failed>>

\* A variant for mutation: the wait after the kill has no bound.
GraceForever(p) ==
    /\ host[p] = "grace"
    /\ UNCHANGED vars

\* 2 s more and the container has not been reaped.
GraceOver(p) ==
    /\ "stuck" \in Faults
    /\ host[p] = "grace"
    /\ Fail(p, "reap")
    /\ Goto(p, "remove")
    /\ UNCHANGED <<agent, ctr, pipe, ping, cgroup, mac, open>>

\* The deferred os.Remove: the kernel refuses while the cgroup has a process.
RemoveCgroup(p) ==
    /\ host[p] = "remove"
    /\ cgroup' = [cgroup EXCEPT ![p] = @ /\ ctr[p].cg /\ ctr[p].st \notin {"exited", "reaped"}]
    /\ Goto(p, "done")
    /\ UNCHANGED <<agent, ctr, pipe, ping, mac, open, failed>>

\* hostSideVethPing: the byte on fd 4, then the datagram ...
PingSends(p) ==
    /\ ping[p] = "reading" /\ pipe[p].ready
    /\ ping' = [ping EXCEPT ![p] = "sent"]
    /\ UNCHANGED <<agent, host, ctr, pipe, cgroup, mac, open, failed>>

\* ... or the end of file when the container's end is closed.
PingGone(p) ==
    /\ ping[p] = "reading" /\ ~pipe[p].ready
    /\ ctr[p].st \in {"exited", "reaped"}
    /\ ping' = [ping EXCEPT ![p] = "gone"]
    /\ UNCHANGED <<agent, host, ctr, pipe, cgroup, mac, open, failed>>

-----------------------------------------------------------------------------
(* The container: runContainer and containerVethTest.                      *)

ReadSync(p) ==
    /\ ctr[p].st = "sync" /\ pipe[p].sync
    /\ Step(p, "label")
    /\ UNCHANGED <<agent, host, pipe, ping, cgroup, mac, open, failed>>

\* After the label an ordinary pod runs its workload, a networked one waits.
AfterLabel(p) == IF p \in Networked THEN "net" ELSE "probe"

\* containerSetTenant: an error is only printed.
SetTenant(p) ==
    /\ ctr[p].st = "label"
    /\ \/ /\ ctr' = [ctr EXCEPT ![p].st = AfterLabel(p), ![p].tenant = Tenant[p]]
          /\ UNCHANGED failed
       \/ /\ MayFail("mac") /\ Tenant[p] # 0
          /\ Step(p, AfterLabel(p))
          /\ Fail(p, "tenant")
    /\ UNCHANGED <<agent, host, pipe, ping, cgroup, mac, open>>

ReadVethCreated(p) ==
    /\ ctr[p].st = "net" /\ pipe[p].created
    /\ Step(p, "addr")
    /\ UNCHANGED <<agent, host, pipe, ping, cgroup, mac, open, failed>>

\* containerVethTest ends without a netlink socket, eth0 or its address.
\* hostSetupVeth may fail with the pair already made, and eth0 is there then.
AssignAddress(p) ==
    /\ ctr[p].st = "addr"
    /\ \/ (Failed(p, "veth") => p \in Veth) /\ Step(p, "tests")
       \/ "io" \in Faults /\ Step(p, "probe")
    /\ UNCHANGED <<agent, host, pipe, ping, cgroup, mac, open, failed>>

\* The default route and the connectivity tests (the module BridgedTests), which
\* print what they find and go on.
VethTests(p) ==
    /\ ctr[p].st = "tests"
    /\ Step(p, "bind")
    /\ UNCHANGED <<agent, host, pipe, ping, cgroup, mac, open, failed>>

\* A variant for mutation: readiness is signalled before the socket is bound.
BindAfterReady(p) ==
    /\ ctr[p].st = "bind"
    /\ Step(p, "ready")
    /\ UNCHANGED <<agent, host, pipe, ping, cgroup, mac, open, failed>>

\* A socket that cannot be bound: no byte on fd 4, the probes go on.
Bind(p) ==
    /\ ctr[p].st = "bind"
    /\ \/ ctr' = [ctr EXCEPT ![p].st = "ready", ![p].bound = TRUE]
       \/ "io" \in Faults /\ Step(p, "probe")
    /\ UNCHANGED <<agent, host, pipe, ping, cgroup, mac, open, failed>>

\* The byte on fd 4.
SignalReady(p) ==
    /\ ctr[p].st = "ready"
    /\ pipe' = [pipe EXCEPT ![p].ready = TRUE]
    /\ Step(p, "recv")
    /\ UNCHANGED <<agent, host, ping, cgroup, mac, open, failed>>

\* The host's datagram or the 5 s deadline.
Receive(p) ==
    /\ ctr[p].st = "recv"
    /\ Step(p, "probe")
    /\ UNCHANGED <<agent, host, pipe, ping, cgroup, mac, open, failed>>

\* The kernel's rule: in enforcing mode a labelled process may not connect to
\* an address labelled with another tenant.
Denied(p, q) ==
    /\ mac.mode = "enforcing"
    /\ ctr[p].tenant # 0 /\ mac.label[q] # 0
    /\ ctr[p].tenant # mac.label[q]

\* tenantConnectProbe to the address of a pod of another tenant; the container
\* then exits.
ConnectAndExit(p, q) ==
    /\ ctr[p].st = "probe"
    /\ p \in Labelled /\ q \in Labelled /\ Tenant[p] # Tenant[q]
    /\ open' = IF Denied(p, q) THEN open ELSE open \cup {p}
    /\ Step(p, "exited")
    /\ UNCHANGED <<agent, host, pipe, ping, cgroup, mac, failed>>

\* The container exits, is killed for its memory limit, or dies of SIGKILL.
Exit(p) ==
    /\ ctr[p].st \in CodeStates \cup {"dying"}
    /\ Step(p, "exited")
    /\ UNCHANGED <<agent, host, pipe, ping, cgroup, mac, open, failed>>

\* The goroutine of waitPod goes on after the grace period.
LateReap(p) ==
    /\ host[p] = "done" /\ ctr[p].st = "exited"
    /\ Reaped(p)
    /\ UNCHANGED <<agent, host, pipe, ping, cgroup, mac, open, failed>>

-----------------------------------------------------------------------------
(* The specification.                                                      *)

Agent ==
    \/ LoadManifests
    \/ \E p \in Ordinary : RunPod(p)
    \/ OrdinaryDone \/ CreateBridges
    \/ \E p \in Bridged : LabelIP(p) \/ UnlabelIP(p)
    \/ SetEnforcing \/ Launch \/ WaitGroupDone \/ SetPermissive

Host(p) ==
    \/ MakeCgroup(p) \/ StartContainer(p) \/ Place(p) \/ Release(p)
    \/ SetupVeth(p) \/ SignalVethCreated(p)
    \/ Reap(p) \/ Watchdog(p) \/ GraceOver(p) \/ RemoveCgroup(p)

Ping(p) == PingSends(p) \/ PingGone(p)

Container(p) ==
    \/ ReadSync(p) \/ SetTenant(p) \/ ReadVethCreated(p) \/ AssignAddress(p)
    \/ VethTests(p) \/ Bind(p) \/ SignalReady(p) \/ Receive(p)
    \/ \E q \in Pods \ {p} : ConnectAndExit(p, q)
    \/ Exit(p)

Next ==
    \/ Agent
    \/ \E p \in Pods : Host(p) \/ Ping(p) \/ Container(p) \/ LateReap(p)

Spec == Init /\ [][Next]_vars

\* The goroutines of the node agent are scheduled and its timers fire.  Nothing
\* is assumed of a container, not even that it dies when it is killed.
FairSpec ==
    /\ Spec
    /\ WF_vars(Agent)
    /\ \A p \in Pods : WF_vars(Host(p)) /\ WF_vars(Ping(p))

-----------------------------------------------------------------------------
(* Properties.                                                             *)

\* startPodContainer moves the container into its cgroup before it runs any of
\* its own code: code outside the cgroup means the write itself failed.
PlacedBeforeCode ==
    \A p \in Pods : ctr[p].st \in CodeStates =>
        ctr[p].cg \/ Failed(p, "procs")

\* applyTenantLabels runs up front so that a pod's cross-tenant connect can
\* never race ahead of its peer's label: one that gets through means that one
\* of the three prctls failed.
TenantsIsolated ==
    \A p \in open :
        \/ Failed(p, "tenant")
        \/ \E q \in Labelled : Failed(q, "label") \/ Failed(q, "mode")

\* runNodeAgent has come back, or is past the wait for the pods.
PodsOver == agent \in {"clear", "done", "returned"}

\* waitPod kills what outlives its watchdog: when the labels are taken back no
\* container of the node runs its own code any more.
NoPodOutlivesAgent == PodsOver => \A p \in Pods : ~Alive(p)

\* cleanupTenantLabels leaves the node in its k8s-safe state: the kernel is
\* permissive and has no label, but for the prctls of the clean-up that failed
\* themselves, whatever calls failed before.  An agent that had no manifest or no
\* netlink socket has no pod to clean up after: it leaves the mode as the early boot
\* left it.
MacRestored ==
    /\ agent = "done" =>
          /\ mac.mode = "permissive" \/ \E p \in Bridged : Failed(p, "restore")
          /\ \A p \in Labelled : mac.label[p] = 0 \/ Failed(p, "unlabel")
    /\ agent = "returned" => mac.mode = mac.boot /\ \A p \in Pods : mac.label[p] = 0

\* waitPod removes the pod's cgroup: one that is left behind belongs to a
\* container that was not reaped in time.
CgroupsRemoved ==
    \A p \in Pods : host[p] = "done" /\ cgroup[p] => Failed(p, "reap")

\* hostSideVethPing sends its datagram only to a container that has bound its
\* socket.
PingAfterBind ==
    \A p \in Pods : ping[p] = "sent" => ctr[p].bound

\* A container whose launch is over is never left waiting for a byte: from the
\* wait on, both pipes it reads have been written.
ReleasedWhileWaiting ==
    \A p \in Pods : host[p] \in {"wait", "grace", "remove", "done"} =>
        \/ ctr[p].st = "none"
        \/ pipe[p].sync /\ (p \in Networked => pipe[p].created)

\* The pipes of a pod keep host and container in step, in both directions
\* (signalVethCreated, hostSideVethPing, containerVethTest).
PipesInStep == PingAfterBind /\ ReleasedWhileWaiting

\* What the pods leave behind when waitPod and cleanupTenantLabels are done with
\* them: no process, no cgroup and no MAC state, in a well-formed state.
NothingLeft == TypeOK /\ NoPodOutlivesAgent /\ MacRestored /\ CgroupsRemoved

\* No pod wedges the node: whatever the containers do, all pods complete.
AgentCompletes == <>(agent \in {"done", "returned"})
=============================================================================
