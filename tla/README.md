# A verification project for asterkube

`asterkube-init` is PID 1 of a Kubernetes node on the Asterinas kernel. One static Go binary plays
many parts: it boots the machine, brings up containerd and a kubelet, joins a cluster, runs static
pods by itself, keeps a DHCP lease, and, called as `runc`, is the OCI runtime that containerd's shim
drives. This directory holds TLA+ models of those parts, the TLC runs that check them on small
instances, and TLAPS proofs of the most important results. All paths below are under
`src/cmd/asterkube-init/`.

## 1. Inventory

| Part | State | Operations | Interacts with |
|---|---|---|---|
| OCI runtime (`ociruntime_linux.go`) | state directory, `exec.fifo`, `state.json`, cgroup, the init's pid | create, start, state, kill, delete; the container init | the shim (caller and subreaper), the kernel's pid table; invocations are separate processes |
| `runc exec` (`runc_exec_linux.go`) | namespaces of its threads, the pty, the copy of `resolv.conf` | read record, join namespaces, mirror, fork, hand the terminal over | the container's init, other execs, the shim |
| PID 1 (`main.go`, `persist_linux.go`) | `liveProcs`, `clusterJoined`, signal channel | phases, keepAlive, nodeIsLive, serveForever, gracefulShutdown | the daemons, the power button |
| Runtime phases (`containerd_linux.go`, `zeroc_containerd_linux.go`, `cri_linux.go`, `kubelet_linux.go`, `kubelet_apiserver_linux.go`) | the daemons they start, the containerd socket, the kubelet's log | start, poll, register or kill | PID 1 calls them in order |
| Cluster join (`join_bundle_linux.go`, `boot_args_join_linux.go`) | containerd and kubelet of the join, eth0, resolver | prepare, start, watch, keep or kill | runtime phases (same socket), DHCP (same eth0 and resolver) |
| Node agent (`node.go`) | per pod: container, cgroup, pipes on fd 3, 4, 5 | runPod, runBridgedPods, startPodContainer, waitPod; runContainer | a goroutine per bridged pod, the container processes |
| Tenant adapter (`tenant_adapter_linux.go`) | MAC mode and labels of the kernel | apply, clean up, set the tenant | node agent |
| DHCP client (`dhcp_linux.go`) | lease, timers, eth0, `/etc/resolv.conf` | first lease, renew, rebind, re-acquire | runs as a goroutine beside the boot phases |
| Netlink client (`netlink_linux.go`) | per socket: sequence number, unread datagrams | create links, assign addresses and routes, look up links and routes | DHCP client, agent, pods' goroutines, containers; the kernel's link tables |
| Mounts (`mount_linux.go`, `fstab_linux.go`, `mount_applet_linux.go`) | the mount table, the applet's links | default mounts, fstab, `mount` and `umount` for the kubelet | first step of PID 1; everything else needs `/proc` and the cgroups |
| Kernel probes (`probe_linux.go`, `*_probe_linux.go`) | delegated controllers, MAC mode and labels, probe cgroups, children | one probe after the other, each re-executes this binary | what they leave behind is what the node agent finds |
| Pod tests (`node.go`, `service_linux.go`, `masq_linux.go`) | per pod: the test it is in, its sockets and time limits | pings, datagrams, Service, kube-proxy and masquerade clients and servers | the pods with one another, the agent's watchdog |
| CNI files, CA bundle, netfilter probes, scripts | none that outlives a call | see `PROJECT.json` | not modelled |

What is hard here, and hardly reachable by a test, is listed in `PROJECT.json` under `hazards`, each
at its line: the fifo rendezvous of two processes, an invocation killed between two system calls, a
record read while it is rewritten, a pid that is reused, `setns` on a thread the goroutine may leave,
daemons that die or are left behind on an error path, a socket file that outlives its daemon, pipes
between host and container, a global MAC mode with concurrent pods, and timers against lost or late
messages.

For each part, what makes it correct:

* runtime: no user code outside its cgroup, records that name every process, delete leaves nothing,
  start neither hangs nor succeeds on an init that was not released;
* exec: the process is where the container is, and a failed exec leaves none;
* PID 1: every daemon is kept or stopped, boot and shutdown end;
* pods: placement before code, isolation of tenants, no pod wedges or outlives the agent;
* DHCP: only fresh grants, one lost message is harmless, no conflict with the static configuration;
* netlink: an answer is taken for the request it belongs to, what is reported was done, calls return;
* mounts: a mount is the one that fstab or the kubelet asked for;
* probes: a verdict is true of the kernel, and nothing a probe leaves behind spoils a later part;
* pod tests: retries absorb the skew between the pods, and the tests fit the watchdog.

## 2. Modules

`OciRuntime.tla` models create, start, kill and delete, and the container init, one action per system
call that another process can observe. `disk` is the state directory with the fifo's identity, the
record (absent, torn or whole) and the cgroup directory; `proc` the pid table; `call` the program
counters and local variables of the invocations; `caller` what the shim knows. A fifo is an inode:
an init holds the inode it opened by `O_PATH`, so a fifo that was removed and made again is another
one. `os.WriteFile` is two steps (`WriteTrunc`, `WriteBody`). `readState` fails on a torn record.
`pidAlive` is true of zombies. The shim is external: it serialises create, start and delete of a
container, kills whenever it likes, deletes without `--force` only what it has reaped.

`OciLifecycle.tla` is the abstract specification: a container is absent, creating, created,
released, running or stopped, with a start that is pending or done. `OciRuntime` is shown to
implement it (`ImplementsLifecycle`, with `PhaseOf` and `StartOf` as refinement mapping).

`OciExec.tla` models `cmdExec` with the threads of the Go process, next to a container that may end,
be reaped, be deleted and lose its pid to another process. `ns` says whose namespaces each thread is
in; `Migrate` is the scheduler. `missed` is a history of what the code passes over without looking:
a failed `setns`, a failed write of `resolv.conf`, a change of thread. `conf` says which `resolv.conf` there
are: one mounted in the container, one of the image in the rootfs, one of the node. `MirrorRead` takes the
container's and falls back to the node's when the former is missing or empty, which is also how a file looks
that another exec has truncated and not written yet.

`NodeBoot.tla` models `runAsInit` from the container-runtime phases on. `pc` is the call PID 1 is in,
`proc` the six daemons by the function that starts them, `sock` the containerd that made the one
socket file, `acpi` the signal path of the power button. `failed` is a history of daemons whose setup
returned on an error after they had been started. Containerd and the kubelets are external: they
serve once they hold the lock of their root directory, register the node once the runtime answers,
and die at any time.

`PodLaunch.tla` models the node agent: `host` is the goroutine (or call) that launches a pod, `ctr`
the container process, `pipe` the bytes on fd 3, 5 and 4, `ping` the goroutine of
`hostSideVethPing`, `cgroup` the directories, `mac` the kernel's mode and labels. `failed` is a history
of the calls whose errors the code prints or drops, those of the clean-up's own prctls among them. An agent
without a manifest, or without a netlink socket, returns early (`agent = "returned"`) and leaves the MAC mode
that the early boot left (`mac.boot`). Pods share bridges, so one bridge that is not made skips several.

`Dhcp.tla` models the client, its timers as ticks, a network that loses, delays and reorders
messages, servers that grant, forget and give addresses away, and the three boot phases that touch
eth0 or the resolver while the renewal goroutine runs. T1 and T2 are those of `dhcpRenewLoop`: the half and
7/8 of the lease, of an hour where the server left the lease time out, or what `ASTERKUBE_DHCP_RENEW_SEC` makes of
them. The clock runs while the client waits for an answer (`WaitTicks`, `OfferTicks`), on the lease's account.

`Netlink.tla` models the rtnetlink client under all its callers. A socket is a counter and a queue of
datagrams; a request is handled by the kernel (external) while it is sent; one round of a receive
loop is `Receive`. Lookups return at the first match and leave the rest of the dump unread, so a later
call on the same socket reads it first. `kern` holds links, addresses and routes per namespace, `pc`
the call each caller is in, with the caller's next call in `AfterSuccess` and `AfterFailure`. A `dhcpFirst`
that fails before its route starts no renewal (`"failed"`); `applyLeaseDelta` goes on to the route after an address
that could not be added.

Early boot is composed of six modules over one kernel. `World.tla` has the order of `runAsInit`, the one
feature of the kernel that may be wrong, and the history of failed calls. `Mounts.tla` has the default
mounts, `/etc/fstab` with its option words, and the `mount` and `umount` applets, with a flag before or after
the option list and the words that become mount data. `TimedRun.tla` has the two
helpers that run a command under a time limit, with the race of the timer, the start and the exit;
the data race on the output is a choice of what is seen of it. `KernelProbes.tla` has `probeKernel`, with
the cgroup tree. `SecurityProbes.tla` has the seven probes that judge by what their children show, as
steps and verdicts; the sandbox is a child that ends when its stdin is closed, which PID 1 does before it
waits for it. `MacProbes.tla` has the three MAC mains as scripts over the kernel's mode and labels.
`EarlyBoot.tla` puts them in order. The applets are run by the kubelet much later; as nothing in between
touches what they use, they are looked at in a branch of the boot (`KubeletCalls`).

`BridgedTests.tla` models what the bridged pods do inside their containers, in seconds: a test that asks
is a loop of rounds, tries, waits and pauses, a test that serves is a set of listeners with windows, which
end at a reply that cannot be written and sit in a read after an accept. An answer that comes from the
backend's own address, for want of the reverse NAT, ends a client's test at once.
`Tick` lets a second pass when nobody has anything to do now. `net` is the manifests, the NAT rules that
were installed and how this kernel behaves towards unbound ports and unanswered SYNs. In `PodLaunch` these
tests are one step, in `BridgedTests` the launch is a delay: the two meet at the watchdog.

`MCOciRuntime`, `MCOciExec`, `MCPodLaunch`, `MCNetlink` and `MCBridgedTests` instantiate the modules for TLC. The
proofs are in a module per component: `OciRuntimeProofs` (any faults) and `OciSerialProofs` (without I/O errors
and crashes), `OciExecProofs`, `NodeBootProofs`, `PodLaunchProofs`, `DhcpProofs`, `NetlinkProofs` and `EarlyBootProofs`.
Operators introduced by "A variant for mutation" are plausible bugs that the properties are tested against; no specification uses them.

## 3. Runs

| Run | What it shows | Instance |
|---|---|---|
| `oci_faults` | with I/O errors, killed invocations, timed-out starts and pid reuse, a record names an init only after `applyCgroup` was through with it | 1 container, 2 invocations, 2 pids, 3 fifos |
| `oci_serial` | with the shim's order of commands, concurrent kills and timed-out starts: placement, tracking, release, deletion, and the lifecycle | same, without I/O errors and crashes |
| `oci_live` | the rendezvous does not hang, a forced delete ends the container | 1 invocation at a time, no faults |
| `oci_escape` | violation: an init forgotten by a killed create is released without a cgroup | crashes only |
| `oci_exec` | namespaces of an exec that stays on its thread, the mirrored resolver, failed execs | 2 execs, 2 threads, 2 namespaces, every way the mirror can go, all faults, at most one exec with a passed-over failure |
| `boot` | daemons are kept, stopped or accounted for; boot and shutdown end | every image and command line, failing setups, dying daemons |
| `boot_dead_daemon` | violation: a dead daemon counts as a live node | dying daemons |
| `early_boot` | mounts as asked, sound verdicts, timeouts handled, what is left for the pods, the boot goes on | a right kernel or any one flaw of 30, one failing call, two option words, two fstab entries |
| `netlink` | answers matched to requests, reports true, no failure without a cause, every call returns | 2 ordinary and 2 bridged pods with clashing names, 2 bridges, one fault, one renewal |
| `pods` | placement, isolation, pipes, watchdog, clean-up, completion | 1 ordinary pod, 2 bridged pods of 2 tenants, one passed-over failure, either MAC mode at boot, with or without manifests |
| `bridged` | datagrams arrive, skew is absorbed, tests fit the watchdog | the manifests of the demos: up to 3 pods, start skew of 4 s, up to 2 faults, a pod missing |
| `dhcp` | leases, timers, addresses, boot goes on | 2 servers, lease of 8 ticks that the ACK tells or leaves out, 5 transactions, 2 messages in flight |

Several invariants are conjunctions of parts that are stated one by one in their module, so that a
reader finds each claim by its name: `SessionInContainer` of `OciExec`, `NothingLeft` and `PipesInStep` of
`PodLaunch`, `Eth0Accounted` of `Dhcp`, `LinksFit` of `Netlink`, `MountsAsAsked` and `NodeReady` of early boot.

Why the bounds are enough. Two invocations are what it takes for a kill, or a late start, to meet
another command; the shim never has two of create, start and delete for one container. Two pids let
an old init, or a stranger on a reused pid, live beside a new one; three fifos let both have a fifo
that is gone while a new one exists. Two execs are what can disturb each other on the one shared file,
and two namespaces are enough for a process to be in one of them and not in the other. Three of the twelve
combinations of `resolv.conf` files take every path of the mirror; the theorem `ExecJoins` is about all of them. Two tenants and
an ordinary pod cover every pair of roles in the agent; the pods run without a veth for the ordinary
one, whose host side (`SetupVeth`, `SignalVethCreated`) is the one the bridged pods exercise. A tick of
`Dhcp` is one wait for an answer. A lease of 8 ticks of which the server tells nothing, with an hour of 3
ticks, is the shortest one that T2, at 7/8 of the hour, and five waits fit, so that one tick more on any of
them shows; the leases that are told are too short for their own T2 there, which `OneMissIsHarmless` leaves
out. `DhcpTimers.cfg` (module `Dhcp`, started by hand) has one server and the shortest lease, of 41 ticks or
164 s, that its own T2 fits; it passes as well, and the theorem `LeaseKept` covers all lengths and
`ASTERKUBE_DHCP_RENEW_SEC`. Five transactions are one more than acquire, check, renewal and rebinding use.
`NodeBoot` has no bound.
In `Netlink` two pods of each kind are what it takes for a link name to be taken and for a second bridge
to be made on the socket that holds the leftovers of the first lookup. In early boot one failing call
next to one flaw of the kernel separates a wrong verdict from a misled one; a second failure only adds
excuses. Two option words are enough for one to undo the other. The manifests of `BridgedTests` are those
the repository ships; a start skew of 4 s is longer than any single try and shorter than the windows, and
127 s is how long a kernel repeats a SYN, twice the watchdog.

`CHECK_DEADLOCK FALSE` is set where the system may come to rest: the machine is off, the pods are
done, the ids or transactions of the instance are used up, or a container is left in a failed state
that only an operator resolves. `oci_serial` checks deadlock.

### Fairness

* `OciRuntime` (`oci_live`): an invocation and an init are processes the kernel schedules, and a killed
  process exits. No fairness on the shim or on user processes.
* `NodeBoot`: PID 1 is scheduled, each of its waits is bounded by a counter or a deadline in the code,
  and a containerd that can have its lock opens its socket. Nothing is assumed of kubelets and button.
* `PodLaunch`: the goroutines of the agent run and their timers fire. Nothing is assumed of a
  container, not even that it dies when it is killed.
* `Dhcp`: the client runs and its timeouts fire. Nothing is assumed of the network.
* `Netlink`: some process of the machine takes a step as long as one can. The kernel answers while a
  request is sent, so a receive waits only where no answer was sent.
* `EarlyBoot`: PID 1 and its children run. The children without a time limit are taken to be finite programs,
  which nothing in the code enforces (`docs/KERNEL-CHANGES.md:258` says that every child is bounded; section 5).
  The sandbox is not: it ends only when its stdin is closed, so that its end depends on PID 1's order.
* `BridgedTests` states no liveness: `Tick` and the watchdog bound every behaviour.

## 4. Proofs

`OciRuntimeProofs`, for any sets of ids, invocations, pids and fifos:

* `TypeCorrect`: `Spec => []TypeOK`. The type invariant is not inductive, because what a step writes
  comes from the local variables of the invocation: `InHand` adds that a call past the fork has a pid,
  and one past the read has a record.
* `CgroupBeforeUser`: if no invocation is killed, `Spec => []UserPlaced`. `UserPlaced` follows because an
  init without a cgroup still has its create in flight (`UnplacedHasCreate`), the shim's serialisation
  (`Serialised`, `CallerAgrees`) excludes a start beside it, and only a start releases an init. The
  hypothesis is needed: `oci_escape` shows the violation without it.

`NodeBootProofs`, for every image, command line and set of faults: `BootTypeCorrect`, `BootSupervised`,
`BootOffMeansStopped`, `BootJoinedIsKept` and the action property `BootKeptAlive`. The inductive
invariant says that a running daemon is in `liveProcs`, or is held by a local variable of the call PID 1
is in (`Held`), or belongs to one of the two failed setups (`Accounted`); that the join's daemons are
registered together with the claim of a join and never without it; that a daemon a phase may
still kill is not registered yet (`Unregistered`); that the join only watches daemons it has started
(`JoinStarted`); and that nothing registered runs once the machine is off (`OffQuiet`). The type invariant is
only proved; no run checks it.

`OciSerialProofs`, for any ids, invocations, pids and fifos:

* `RecordTracks` (`Tracked`), `RunningWasReleased` (`RunningMeansReleased`) and `DeleteIsComplete`
  (`DeletedMeansGone`), if no call fails with an I/O error and no invocation is killed. Both hypotheses are
  needed, and `oci_serial` has them too: an invocation killed between its fork and its record leaves an init
  that no record names, and delete takes an unreadable record for a deleted container. The invariant has
  three layers. `Common` holds under any faults: types, which invocation owns a container
  (`Owned`, `Serialised`, `CallerAgrees`), and which steps belong to which command (`Programs`). `Books` relates
  the container's directory and its live processes to each step of a command in flight, and, between two
  commands, to what the shim knows: outside a create, no process is alive but the one the record names. `Waiting`
  says that a container that is starting has its start in flight. `Single` and `Held` add that a container has
  at most one live process, and that none is let go before its start.
* `RuntimeImplementsLifecycle`, under the same hypotheses: every initial state maps to one of `OciLifecycle`, and
  every step to a step of it or to a stutter, one lemma per action. `PhaseOf` used to be a CASE with overlapping
  guards, which TLC evaluates in order and the logic leaves open; the proof would not go through until it
  was written as a chain of IF.
* `RecordedIsPlaced` (`RecordedPlaced`), under any faults: a whole record names an init that has been through
  `applyCgroup`, also after a crash, because create writes the record after that.

`OciExecProofs`, for any execs, threads, namespaces and faults: `ExecJoins` (`SessionInContainer`) and
`ExecFailsClean` (`FailedExecLeavesNothing`). The invariant describes the session step by step (`Sessions`: while
the container runs, the loop over the namespaces has joined those before its index on the thread it is on, up
to what `missed` says it passed over) and the one shared file, which each exec rewrites in two steps
(`Mirrored`). What the file may hold in the end is `Wanted`, for every combination of the three files; `Mirrored` says
that what an exec has read and not written yet is of that kind.

`PodLaunchProofs`, for any pods, tenants and faults: `PodsPlaced` (`PlacedBeforeCode`), `PodsIsolated`
(`TenantsIsolated`), `PodsInStep` (`PipesInStep`) and `PodsLeaveNothing` (`NothingLeft`). The invariant relates, pod by
pod, the goroutine, the container and the pipes: a container is held back on fd 3 until its host side has
signalled it (`NotStarted`, `HeldBack`, `Signalled`), its label and its cgroup are set before that (`BoundFirst`,
`TenantSet`), and the agent waits for what it started (`WaitedFor`). `Labels` says who labelled what in the one
global table, `Phases` which pods can be under way at once, `Untouched` that the mode is the booted one until the
agent sets it. `NothingLeft` is about all three ends of the agent: after the clean-up the mode and the labels are
reset but for a prctl of the clean-up that failed itself, and after an early return they are as they were booted.

`DhcpProofs`, for any servers, lease times, override, waits and number of messages: `LeaseKept`
(`OneMissIsHarmless`), `Eth0Explained` (`Eth0Accounted`) and the action property `GrantsFresh` (`AdoptsFreshGrant`).
`LeaseKept` has a condition, `Ample`: T2 and five waits of 4 s are less than the lease. It is part of the
property, and true of a lease of more than 160 s whose timers are its own; of a shorter lease, of one whose
length the server did not tell, or of an override that is too long, the theorem says nothing. The invariant says
that no message is of a later exchange than the client's (`Messages`), that an answer to a renewal is about the
lease (`InExchange`) and none comes before it was asked for (`Unrequested`), that a wait is no longer than its
limit (`Patience`), that an ACK the client can take is of a lease that has lost no more than that wait
(`FreshAcks`), where the addresses of eth0 come from (`AddressesAccounted`, `OneConfiguration`), that a lease is
looked for anew only when it was lost (`LostFirst`), and how much of a lease is left at each place of the loop,
the waits that may still come counted in (`TimeLeft`).

`NetlinkProofs`, for every manifest, number of faults and number of renewals. The manifest is two disjoint lists of
pods; two pods, or a pod and a bridge, may have the same link name, and a bridge even that of `lo` or `eth0`.

* `WellFormed` and `AddressesOnTheirLinks` (`LinksFit`), `ReportsAreTrue` (`ReportedMeansDone`): under any faults. `LinksFit`
  is far from inductive: which link an address lands on is decided by what a lookup found in its socket's
  queue, perhaps in a dump that was asked for when the links were others. The invariant `Truth` therefore
  says of every unread message that what it tells of an index is still so (`MessagesTrue`: the kernel does not
  give an index twice, `Numbered`), of every acknowledgement that its request was done and not undone
  (`AgentAck`, `HostAck`, `ContAck`), that each caller goes on with the link it asked about (`AgentDoes`,
  `HostDoes`, `ContDoes`, `LeaseDoes`), and which links the node has (`LinkEnds`). A pair goes away with its
  container while the host part may still be at work on it; since the index is not given again, a late
  address is refused and not put on another pod's link.
* `FailuresHaveCauses` (`NoFailureWithoutCause`): as long as there was no fault. The invariant `Calm` says that the
  record a lookup is for is in the queue ahead of anything else that would end the lookup (`Finds`), that
  requests are refused only for a name that is taken (`Refusals`), how far the loop over the specs has come
  (`SpecsDone`), and that no pair and no bridge is there that could have taken a bridge's name (`PairOfTurn`,
  `BridgesKnown`). Two causes came to light in the proof that the small instance does not have, and are now
  part of the property: a pod's link name may be that of a bridge, and a bridge may be named like one of the
  node's own links.

`EarlyBootProofs`, for any number of failed calls, any fstab and any request of the kubelet; the kernel is right
or has any one of the listed flaws:

* `TimeoutsHandled` (`TimeoutHandled`) and `NodeIsReady` (`NodeReady`): what the boot hands over. The invariant
  says how far a helper and its command can be apart (`HelperInv`), which cgroups can exist at each place of
  the boot (`CgroupInv`), that a controller that is not delegated after its turn was refused
  (`DelegatedInv`), and what each main of a MAC probe has set at each line of its script and leaves
  behind (`Within`, `MacInv`). `Before` is the order of `runAsInit`; that each place comes once is a lemma.
* `VerdictsSound` (`VerdictSound`): no probe calls a kernel right whose feature is wrong, but for the
  failures in `Misleading`. On the kernel that a probe is about, the invariant follows what can be seen at
  each step: how a test under a time limit ended (`TimedInv`), what a plain probe saw so far (`SeenInv`), the
  mode, label and tenant under which each access of a main is made (`ScriptInv`), and therefore which
  tests a main cannot have passed (`PassedInv`).
* `RightKernelIsTold` (`RightKernelPasses`): on a right kernel and with no failed call every probe says so. `RInv`
  is the same argument for the other direction: each probe has seen what it hopes for, because those before
  it left the cgroups, the MAC mode and `/proc` as it needs them.

The inductive invariants of these modules were checked by TLC on the small instances before they were proved.
The assumptions are those the modules name: `None` is not an id, pid or fifo; the torn and the missing record are
not pids; the faults are among the listed ones; the two lists of pods are disjoint, and the name of a pod's link,
which begins with "veth-", is not `lo` or `eth0`; there is a bridged pod in the manifest; a wait for an answer is
shorter than a lease; bounds are natural numbers.

Only model-checked, and why:

* the liveness properties: the prover has no fairness and no ENABLED;
* `MountsAsAsked`: what `applyMountOpts` makes of a list of option words needs induction over that list;
* `PeerDatagramArrives`, `SkewAbsorbed` and `OnlyDialsHang` of `BridgedTests`: they are claims about the manifests the
  repository ships and the seconds in its code, and false for others (a longer skew, more rounds of a test; the
  two faults of `OnlyDialsHang` are a condition in the property, as a third one breaks it);
  there is no general statement to prove, and TLC goes through all of the shipped ones.

## 5. Findings

1. **An init can escape its cgroup** (`oci_escape`). create forks, then places, then records. Killed
   in between, it leaves an init that no record names; delete reports "already gone"; the next create
   of that id makes a new fifo under the same name, and the forgotten init may be the one start releases.
2. **A dead daemon is a live node** (`boot_dead_daemon`). Nobody calls `Wait`, so `ProcessState` is nil.

### Further configurations

These refute a claim of the code's comments as well. They are kept beside the runs, each with the
property it refutes, and are started by hand (`tlc -config X.cfg M`):

* `OciExecThread.cfg` (`MCOciExec`, `JoinsContainer`): `cmdExec` calls `setns` without `runtime.LockOSThread`
  (`runc_exec_linux.go:143`) and may fork on another thread, outside the container's namespaces;
  `joinNamespaces` of the container init follows the same pattern.
* `BootStaleSocket.cfg` (`NodeBoot`, `JoinHasContainerd`): the join takes the socket file that the demo's
  killed containerd left for that of its own daemon (`boot_args_join_linux.go:331`).
* `DhcpResolver.cfg` (`Dhcp`, `ResolverPinned`): a renewal replaces the bundle's resolver
  (`dhcp_linux.go:271`).
* `BridgedMissing.cfg` (`MCBridgedTests`, `MissingPeerReported`): `service_linux.go:102-103` says that "a
  missing/late peer produces a FAILED line, never a hang (the 15s pod watchdog backstops)". With the
  backend missing, its client spends 19 s on pings, 12 s on the peer's datagram and 28 s on UDP tries, and
  is killed in the TCP test by the watchdog, which is 60 s (`node.go:435`).

### Observations

What the models show of the code besides, each as a condition in a property that holds:

* `Supervised`: the only two ways a daemon is left running without supervision are a failed demo under
  `ASTERKUBE_PERSIST` and a join whose kubelet cannot be started.
* `DeletedMeansGone` needs the absence of I/O errors: delete takes an unreadable record for a deleted
  container.
* `VerdictSound`: `memEnforcementTest` prints ENFORCED for any error of its child, a start that failed or a
  timeout included (`probe_linux.go:202`); other probes are misled only by the failures in `Misleading`.
* `NodeReady`: the pods' limits depend on controllers that only the probes delegate; a probe that cannot
  make its directory leaves the pods without memory limits (`probe_linux.go:349`). A MAC main that exits
  with status 2 after it has set enforcing does not set it back; the next probe's main does, but nothing
  does after the last one. `PodLaunch` therefore starts in either mode.
* `MacRestored` (`NothingLeft`): a kernel that was left enforcing stays so when the agent finds no manifest
  (`node.go:145`) or gets no netlink socket (`node.go:553`): both return before anything sets the mode. The
  clean-up ignores the errors of its own prctls (`tenant_adapter_linux.go:73`, `76`), so a label or the
  mode can outlive the pods without a word in the log.
* `ResolverMirrored` (`SessionInContainer`): a container without a mounted `resolv.conf` gets the node's in
  its rootfs at the first exec (`runc_exec_linux.go:157`). One that has a file of its image keeps it with a
  single exec; of two that overlap, the second may read the file that the first has truncated, take it for
  empty, and replace it by the node's for good.
* `OneMissIsHarmless`: the timers of `dhcpRenewLoop` do not count the waits for answers. With a lease under
  160 s, with `ASTERKUBE_DHCP_RENEW_SEC` set to more than the lease, or where the server tells no lease time
  (an hour is taken) and means less than an hour, one missed renewal can cost the address.
* `AddressesAccounted` (`Eth0Accounted`): an address whose lease was lost stays on eth0 (`dhcp_linux.go:265`);
  the property allows it.
* `TimeoutHandled`: `runWithTimeoutEnv` panics PID 1 if the time is over before the command is started
  (`containerd_linux.go:300`); `combinedOutputTimeout` does not. The children of the other probes have no
  time limit at all, although `docs/KERNEL-CHANGES.md:258` says that the capability probe bounds every child.
* `SkewAbsorbed`: where the kernel refuses datagrams for unbound ports, the five tries of `serviceClient`
  are over in 4 s while the backend still sends its ten datagrams. `service_linux.go:241` says that every
  listener is bound up front; the UDP endpoints bind in goroutines (line 296). And `kpClient` can fail without
  any fault, although its first connection is tried six times because it "may race the backends still
  binding" (`service_linux.go:176`): in the kube-proxy demo kpb2 waits 12 s for a
  datagram that nobody sends to it (its peer sends to kpb1) before it serves.
* `OnlyDialsHang`: the limits of brpod1's tests add up to 92 s, against a watchdog of 60 s (`node.go:435`). It
  takes more than two losses, or a missing peer and one loss, for a pod to be killed elsewhere than in a dial.
* `LinksFit`, `NoFailureWithoutCause`: two pods whose names agree in the first ten characters share a link
  name; the second one's pair is refused and its container reports FAILED.
* A bridge whose address could not be assigned is not in the map, so the next spec on it tries to create
  it again and fails with EEXIST: none of its pods is launched (`node.go:568`).

## 6. Not modelled

The cluster-IP and netfilter probes compare bytes of one exchange with the kernel and keep nothing. CNI
files, the CA bundle and the runc link are written once, best effort, and read by nothing here. What ctr,
crictl and the apiserver demo do is outside the repository. The host scripts build images. Lines that
only print (banners, `probeProcFile`, `dumpTail`) are left out everywhere.

## 7. Plan

Modelled: every part with state of its own. Every safety invariant that holds for all values of the constants
is proved, save `MountsAsAsked`. What could be added, in this order:

1. `Mounts`: the laws of `applyMountOpts` for a single word, which need no induction;
2. `BridgedTests`: for which skews and rounds `SkewAbsorbed` holds, as an assumption on the constants, and then its
   proof from an invariant that bounds the clock at each round.
