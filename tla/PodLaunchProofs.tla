-------------------------- MODULE PodLaunchProofs ---------------------------
(***************************************************************************)
(* The node agent, for any number of pods and tenants and any number of    *)
(* failing calls.  What holds of a pod is a matter of its own goroutine,   *)
(* container and pipes (PodInv); what holds between pods is a matter of    *)
(* the phases of runNodeAgent (Phases) and of the kernel's MAC, which only *)
(* the agent's own goroutine writes (Labels).                              *)
(***************************************************************************)
EXTENDS PodLaunch, TLAPS

-----------------------------------------------------------------------------
(* The inductive invariant.                                                *)

\* A container exists from StartContainer on, its cgroup a step earlier.
NotStarted(p) ==
    /\ host[p] \in {"idle", "cgroup", "start", "skipped"} => ctr[p].st = "none"
    /\ ctr[p].st = "none" => host[p] \in {"idle", "cgroup", "start", "skipped", "done"}
    /\ host[p] \in {"idle", "cgroup", "skipped"} => ~cgroup[p]

\* Until fd 3 is written the container waits on it, and it is written after
\* the write to cgroup.procs.
HeldBack(p) ==
    /\ host[p] \in {"place", "release"} => ctr[p].st = "sync"
    /\ pipe[p].sync => host[p] \in {"veth", "signal", "wait", "grace", "remove", "done"}
    /\ host[p] # "place" /\ Alive(p) => ctr[p].cg \/ Failed(p, "procs")

\* The two pipes the container reads, by how far the launch is.
Signalled(p) ==
    /\ host[p] \in {"veth", "signal"} => pipe[p].sync
    /\ host[p] \in {"wait", "grace", "remove", "done"} =>
          ctr[p].st = "none" \/ (pipe[p].sync /\ (p \in Networked => pipe[p].created))

\* waitPod: killed before the grace period, reaped before the removal, unless
\* the time was over first.
WaitedFor(p) ==
    /\ host[p] \in {"grace", "remove", "done"} => ~Alive(p)
    /\ host[p] = "remove" => ctr[p].st = "reaped" \/ Failed(p, "reap")
    /\ host[p] = "done" /\ cgroup[p] => Failed(p, "reap")

\* Ready, the byte on fd 4 and the datagram each come after the bind.
BoundFirst(p) ==
    /\ ctr[p].st = "ready" => ctr[p].bound
    /\ pipe[p].ready => ctr[p].bound
    /\ ping[p] = "sent" => ctr[p].bound

\* A container past containerSetTenant has its tenant, or the call failed.
TenantSet(p) ==
    ctr[p].st \in CodeStates \ {"label"} => ctr[p].tenant = Tenant[p] \/ Failed(p, "tenant")

PodInv(p) ==
    NotStarted(p) /\ HeldBack(p) /\ Signalled(p) /\ WaitedFor(p) /\ BoundFirst(p) /\ TenantSet(p)

\* Which launches are going on in which phase of the agent.
Phases ==
    /\ agent = "load" => \A p \in Ordinary : host[p] = "idle"
    /\ agent = "returned" => \A p \in Ordinary : host[p] \in {"idle", "done"}
    /\ agent \notin {"load", "ordinary", "returned"} => \A p \in Ordinary : host[p] = "done"
    /\ agent \in {"load", "ordinary", "bridges", "returned"} => \A p \in Bridged : host[p] = "idle"
    /\ agent \in {"labels", "launch"} => \A p \in Bridged : host[p] \in {"idle", "skipped"}
    /\ agent \in {"clear", "done"} => \A p \in Bridged : host[p] \in {"done", "skipped"}

\* The MAC while the bridged pods run: every address is labelled with its tenant
\* and the kernel enforces, or a call has failed.
Labels ==
    /\ \A q \in Labelled : mac.label[q] \in {0, Tenant[q]}
    /\ agent \in {"launch", "wait"} =>
          /\ \A q \in Labelled : mac.label[q] # 0 \/ Failed(q, "label")
          /\ \/ mac.mode = "enforcing"
             \/ \A q \in Labelled : mac.label[q] = 0
             \/ \E q \in Labelled : Failed(q, "mode")

\* Until the labels are applied the agent has not touched the MAC.
Untouched ==
    agent \in {"load", "ordinary", "bridges", "returned"} =>
        mac.mode = mac.boot /\ \A p \in Pods : mac.label[p] = 0

IInv ==
    /\ TypeOK /\ (\A p \in Pods : PodInv(p))
    /\ Phases /\ Labels /\ Untouched /\ MacRestored
    /\ TenantsIsolated

-----------------------------------------------------------------------------
LEMMA InitIInv == Init => IInv
<1> SUFFICES ASSUME Init PROVE IInv
  OBVIOUS
<1> USE PodsAssumption DEF Init, Pods
<1>1. TypeOK
  <2>1. mac \in Mac
    BY DEF Mac, Modes
  <2> QED BY <2>1 DEF TypeOK, AgentStates, HostStates, Ctr, CtrStates, Pipe
<1>2. \A p \in Pods : PodInv(p)
  BY DEF PodInv, NotStarted, HeldBack, Signalled, WaitedFor, BoundFirst, TenantSet, Alive,
     CodeStates
<1>3. Phases /\ Labels /\ Untouched /\ MacRestored /\ TenantsIsolated
  BY DEF Phases, Labels, Untouched, MacRestored, TenantsIsolated, Labelled
<1> QED BY <1>1, <1>2, <1>3 DEF IInv

-----------------------------------------------------------------------------
(* One pod at a time.                                                      *)

\* A step of the goroutine, the container or the ping of p: it leaves the other
\* pods alone, and forgets no failure.
OnlyPod(p) ==
    /\ \A q \in Pods \ {p} : /\ host'[q] = host[q] /\ ctr'[q] = ctr[q] /\ pipe'[q] = pipe[q]
                             /\ ping'[q] = ping[q] /\ cgroup'[q] = cgroup[q]
    /\ failed \subseteq failed'
    /\ UNCHANGED <<agent, mac>>

PodStep(p) == Host(p) \/ Ping(p) \/ Container(p) \/ LateReap(p)

LEMMA OthersKept ==
    ASSUME \A q \in Pods : PodInv(q), NEW p \in Pods, OnlyPod(p)
    PROVE  \A q \in Pods \ {p} : PodInv(q)'
<1> SUFFICES ASSUME NEW q \in Pods \ {p} PROVE PodInv(q)'
  OBVIOUS
<1>1. \A c : Failed(q, c) => Failed(q, c)'
  BY DEF OnlyPod, Failed
<1>2. /\ host'[q] = host[q] /\ ctr'[q] = ctr[q] /\ pipe'[q] = pipe[q]
      /\ ping'[q] = ping[q] /\ cgroup'[q] = cgroup[q]
  BY DEF OnlyPod
<1>3. PodInv(q)
  OBVIOUS
<1> QED BY <1>1, <1>2, <1>3 DEF PodInv, NotStarted, HeldBack, Signalled, WaitedFor, BoundFirst,
      TenantSet, Alive

LEMMA PodStepLocal ==
    ASSUME TypeOK, NEW p \in Pods, PodStep(p)
    PROVE  OnlyPod(p)
<1> USE DEF TypeOK, OnlyPod
<1>1. CASE Host(p)
  BY <1>1 DEF Host, MakeCgroup, StartContainer, Place, Release, SetupVeth, SignalVethCreated,
     Reap, Reaped, Watchdog, GraceOver, RemoveCgroup, Goto, Step, Fail
<1>2. CASE Ping(p)
  BY <1>2 DEF Ping, PingSends, PingGone
<1>3. CASE Container(p)
  BY <1>3 DEF Container, ReadSync, SetTenant, ReadVethCreated, AssignAddress, VethTests, Bind, SignalReady,
     Receive, ConnectAndExit, Exit, Step, Fail
<1>4. CASE LateReap(p)
  BY <1>4 DEF LateReap, Reaped
<1> QED BY <1>1, <1>2, <1>3, <1>4 DEF PodStep

LEMMA HostPod ==
    ASSUME TypeOK, NEW p \in Pods, PodInv(p), Host(p)
    PROVE  PodInv(p)'
<1> USE DEF TypeOK, Ctr, Pipe, PodInv, NotStarted, HeldBack, Signalled, WaitedFor, BoundFirst,
            TenantSet, Alive, Failed, CodeStates
<1>1. CASE MakeCgroup(p)
  BY <1>1 DEF MakeCgroup, Goto
<1>2. CASE StartContainer(p)
  <2>0. host[p] = "start" /\ ctr[p].st = "none" /\ ~pipe[p].sync /\ UNCHANGED <<pipe, ping, failed>>
    BY <1>2 DEF StartContainer
  <2>1. /\ ctr'[p].tenant = ctr[p].tenant /\ (ctr'[p].bound <=> ctr[p].bound)
        /\ \/ ctr'[p].st = "sync" /\ host'[p] = "place"
           \/ ctr'[p].st = "none" /\ host'[p] = "done" /\ ~cgroup'[p]
    BY <1>2, <2>0, SMTT(30) DEF StartContainer, Goto, Step
  <2> QED BY <2>0, <2>1
<1>3. CASE Place(p)
  <2>0. host[p] = "place" /\ ctr[p].st = "sync" /\ ~pipe[p].sync /\ UNCHANGED <<pipe, ping, cgroup>>
    BY <1>3 DEF Place
  <2>1. /\ ctr'[p].st = ctr[p].st /\ ctr'[p].tenant = ctr[p].tenant
        /\ (ctr'[p].bound <=> ctr[p].bound) /\ host'[p] = "release"
        /\ ctr'[p].cg \/ <<p, "procs">> \in failed'
        /\ failed \subseteq failed'
    BY <1>3, SMTT(30) DEF Place, Goto, Fail
  <2> QED BY <2>0, <2>1
<1>4. CASE Release(p)
  BY <1>4 DEF Release, Goto
<1>5. CASE SetupVeth(p)
  BY <1>5 DEF SetupVeth, Goto, Fail
<1>6. CASE SignalVethCreated(p)
  BY <1>6 DEF SignalVethCreated, Goto
<1>7. CASE Reap(p)
  BY <1>7 DEF Reap, Reaped, Goto
<1>8. CASE Watchdog(p)
  BY <1>8, SMTT(30) DEF Watchdog, Goto, Step
<1>9. CASE GraceOver(p)
  BY <1>9 DEF GraceOver, Goto, Fail
<1>10. CASE RemoveCgroup(p)
  BY <1>10 DEF RemoveCgroup, Goto
<1> QED BY <1>1, <1>2, <1>3, <1>4, <1>5, <1>6, <1>7, <1>8, <1>9, <1>10 DEF Host

LEMMA ContainerPod ==
    ASSUME TypeOK, NEW p \in Pods, PodInv(p), Ping(p) \/ Container(p) \/ LateReap(p)
    PROVE  PodInv(p)'
<1> USE DEF TypeOK, Ctr, Pipe, PodInv, NotStarted, HeldBack, Signalled, WaitedFor, BoundFirst,
            TenantSet, Alive, Failed, CodeStates
<1>1. CASE Ping(p)
  BY <1>1 DEF Ping, PingSends, PingGone
<1>2. CASE ReadSync(p)
  BY <1>2 DEF ReadSync, Step
<1>3. CASE SetTenant(p)
  <2>1. /\ ctr[p].st = "label" /\ ctr'[p].st = AfterLabel(p)
        /\ (ctr'[p].cg <=> ctr[p].cg) /\ (ctr'[p].bound <=> ctr[p].bound)
        /\ ctr'[p].tenant = Tenant[p] \/ <<p, "tenant">> \in failed'
        /\ \A c : <<p, c>> \in failed => <<p, c>> \in failed'
    BY <1>3, SMTT(40) DEF SetTenant, Step, Fail
  <2>2. UNCHANGED <<host, pipe, ping, cgroup>>
    BY <1>3 DEF SetTenant
  <2>3. AfterLabel(p) \in {"net", "probe"}
    BY DEF AfterLabel
  <2> QED BY <2>1, <2>2, <2>3
<1>4. CASE ReadVethCreated(p) \/ AssignAddress(p) \/ VethTests(p) \/ Receive(p) \/ Exit(p)
  <2>1. /\ ctr[p].st \in CodeStates \cup {"dying"}
        /\ \/ Step(p, "exited")
           \/ ctr[p].st \in CodeStates \ {"label"}
              /\ (Step(p, "addr") \/ Step(p, "tests") \/ Step(p, "bind") \/ Step(p, "probe"))
    BY <1>4 DEF ReadVethCreated, AssignAddress, VethTests, Receive, Exit
  <2>2. UNCHANGED <<host, pipe, ping, cgroup, failed>>
    BY <1>4 DEF ReadVethCreated, AssignAddress, VethTests, Receive, Exit
  <2> QED BY <2>1, <2>2, SMTT(40) DEF Step
<1>5. CASE Bind(p)
  BY <1>5 DEF Bind, Step
<1>6. CASE SignalReady(p)
  BY <1>6 DEF SignalReady, Step
<1>7. CASE \E q \in Pods \ {p} : ConnectAndExit(p, q)
  BY <1>7 DEF ConnectAndExit, Step
<1>8. CASE LateReap(p)
  BY <1>8 DEF LateReap, Reaped
<1> QED BY <1>1, <1>2, <1>3, <1>4, <1>5, <1>6, <1>7, <1>8 DEF Container
-----------------------------------------------------------------------------
(* Types.                                                                  *)

LEMMA PodStepType ==
    ASSUME TypeOK, NEW p \in Pods, PodStep(p)
    PROVE  TypeOK'
<1> USE PodsAssumption DEF TypeOK
<1>1. ctr' \in [Pods -> Ctr]
  <2>1. UNCHANGED ctr \/ \E c \in Ctr : ctr' = [ctr EXCEPT ![p] = c]
    <3>0. ctr[p] \in Ctr /\ Tenant[p] \in Nat
      OBVIOUS
    <3>1. CASE \E st \in CtrStates : Step(p, st)
      BY <3>0, <3>1 DEF Step, Ctr
    <3>2. CASE Reaped(p)
      BY <3>0, <3>2 DEF Reaped, Ctr, CtrStates
    <3>3. CASE UNCHANGED ctr
      BY <3>3
    <3>4. CASE Place(p)
      BY <3>0, <3>4 DEF Place, Ctr
    <3>5. CASE SetTenant(p)
      <4>1. AfterLabel(p) \in CtrStates
        BY DEF AfterLabel, CtrStates, CodeStates
      <4> QED BY <3>0, <3>1, <3>5, <4>1 DEF SetTenant, Ctr
    <3>6. CASE Bind(p)
      BY <3>0, <3>6 DEF Bind, Step, Ctr, CtrStates, CodeStates
    <3>7. CASE StartContainer(p) \/ Watchdog(p)
      BY <3>1, <3>3, <3>7 DEF StartContainer, Watchdog, CtrStates
    <3>8. CASE ReadSync(p) \/ ReadVethCreated(p) \/ AssignAddress(p) \/ VethTests(p)
               \/ SignalReady(p) \/ Receive(p) \/ Exit(p) \/ \E q \in Pods \ {p} : ConnectAndExit(p, q)
      BY <3>1, <3>8 DEF ReadSync, ReadVethCreated, AssignAddress, VethTests, SignalReady, Receive, Exit,
         ConnectAndExit, CtrStates, CodeStates
    <3> QED BY <3>2, <3>3, <3>4, <3>5, <3>6, <3>7, <3>8 DEF PodStep, Host, Ping, Container,
          MakeCgroup, Release, SetupVeth, SignalVethCreated, Reap, GraceOver, RemoveCgroup,
          PingSends, PingGone, LateReap
  <2> QED BY <2>1
<1>2. host' \in [Pods -> HostStates] /\ pipe' \in [Pods -> Pipe] /\ cgroup' \in [Pods -> BOOLEAN]
      /\ ping' \in [Pods -> {"none", "reading", "sent", "gone"}] /\ failed' \subseteq Pods \X Calls
  <2>0. /\ [pipe[p] EXCEPT !.sync = TRUE] \in Pipe
        /\ [pipe[p] EXCEPT !.created = TRUE] \in Pipe
        /\ [pipe[p] EXCEPT !.ready = TRUE] \in Pipe
    <3>1. pipe[p] \in Pipe
      OBVIOUS
    <3> QED BY <3>1 DEF Pipe
  <2>1. CASE Host(p)
    <3>1. host' \in [Pods -> HostStates]
      <4>1. \E l \in HostStates : Goto(p, l)
        BY <2>1 DEF Host, MakeCgroup, StartContainer, Place, Release, SetupVeth, SignalVethCreated,
           Reap, Watchdog, GraceOver, RemoveCgroup, HostStates
      <4> QED BY <4>1 DEF Goto
    <3>2. failed' \subseteq Pods \X Calls
      <4>1. UNCHANGED failed \/ \E c \in Calls : Fail(p, c)
        BY <2>1 DEF Host, MakeCgroup, StartContainer, Place, Release, SetupVeth, SignalVethCreated,
           Reap, Watchdog, GraceOver, RemoveCgroup, Calls
      <4> QED BY <4>1 DEF Fail
    <3>3. pipe' \in [Pods -> Pipe]
      <4>1. UNCHANGED pipe \/ pipe' = [pipe EXCEPT ![p].sync = TRUE]
            \/ pipe' = [pipe EXCEPT ![p].created = TRUE]
        BY <2>1 DEF Host, MakeCgroup, StartContainer, Place, Release, SetupVeth, SignalVethCreated,
           Reap, Watchdog, GraceOver, RemoveCgroup
      <4> QED BY <2>0, <4>1
    <3>4. /\ cgroup' \in [Pods -> BOOLEAN]
          /\ ping' \in [Pods -> {"none", "reading", "sent", "gone"}]
      BY <2>1 DEF Host, MakeCgroup, StartContainer, Place, Release, SetupVeth, SignalVethCreated,
         Reap, Watchdog, GraceOver, RemoveCgroup
    <3> QED BY <3>1, <3>2, <3>3, <3>4
  <2>2. CASE Ping(p) \/ LateReap(p)
    BY <2>2 DEF Ping, PingSends, PingGone, LateReap
  <2>3. CASE Container(p)
    <3>1. failed' \subseteq Pods \X Calls
      <4>1. UNCHANGED failed \/ Fail(p, "tenant")
        BY <2>3 DEF Container, ReadSync, SetTenant, ReadVethCreated, AssignAddress, VethTests, Bind,
           SignalReady, Receive, ConnectAndExit, Exit
      <4> QED BY <4>1 DEF Fail, Calls
    <3>2. pipe' \in [Pods -> Pipe]
      <4>1. UNCHANGED pipe \/ pipe' = [pipe EXCEPT ![p].ready = TRUE]
        BY <2>3 DEF Container, ReadSync, SetTenant, ReadVethCreated, AssignAddress, VethTests, Bind,
           SignalReady, Receive, ConnectAndExit, Exit
      <4> QED BY <2>0, <4>1
    <3>3. UNCHANGED <<host, cgroup, ping>>
      BY <2>3 DEF Container, ReadSync, SetTenant, ReadVethCreated, AssignAddress, VethTests, Bind, SignalReady,
         Receive, ConnectAndExit, Exit
    <3> QED BY <3>1, <3>2, <3>3
  <2> QED BY <2>1, <2>2, <2>3 DEF PodStep
<1>3. open' \subseteq Bridged
  BY DEF PodStep, Host, MakeCgroup, StartContainer, Place, Release, SetupVeth, SignalVethCreated,
     Reap, Watchdog, GraceOver, RemoveCgroup, Ping, PingSends, PingGone, LateReap, Container,
     ReadSync, SetTenant, ReadVethCreated, AssignAddress, VethTests, Bind, SignalReady, Receive,
     ConnectAndExit, Exit, Labelled
<1>4. UNCHANGED <<agent, mac>>
  BY PodStepLocal DEF OnlyPod
<1> QED BY <1>1, <1>2, <1>3, <1>4

LEMMA AgentType ==
    ASSUME TypeOK, Agent
    PROVE  TypeOK'
<1> USE PodsAssumption DEF TypeOK
<1>1. /\ agent' \in AgentStates /\ failed' \subseteq Pods \X Calls
      /\ UNCHANGED <<ctr, pipe, ping, cgroup, open>>
  BY DEF Agent, LoadManifests, RunPod, OrdinaryDone, CreateBridges, LabelIP, UnlabelIP, SetEnforcing, Launch, WaitGroupDone,
     SetPermissive, Fail, AgentStates, Calls, Labelled, Pods
<1>2. host' \in [Pods -> HostStates]
  BY DEF Agent, LoadManifests, RunPod, OrdinaryDone, CreateBridges, LabelIP, UnlabelIP, SetEnforcing, Launch, WaitGroupDone,
     SetPermissive, Goto, HostStates, Pods
<1>3. mac' \in Mac
  BY DEF Agent, LoadManifests, RunPod, OrdinaryDone, CreateBridges, LabelIP, UnlabelIP, SetEnforcing, Launch, WaitGroupDone,
     SetPermissive, Mac, Modes, Pods
<1> QED BY <1>1, <1>2, <1>3
-----------------------------------------------------------------------------
(* The agent, and what the pods owe to it.                                 *)

LEMMA AgentPods ==
    ASSUME IInv, Agent
    PROVE  \A p \in Pods : PodInv(p)'
<1> SUFFICES ASSUME NEW p \in Pods PROVE PodInv(p)'
  OBVIOUS
<1>0. PodInv(p) /\ TypeOK /\ Phases
  BY DEF IInv
<1>1. UNCHANGED <<ctr, pipe, ping, cgroup>> /\ failed \subseteq failed'
  BY DEF Agent, LoadManifests, RunPod, OrdinaryDone, CreateBridges, LabelIP, UnlabelIP, SetEnforcing, Launch, WaitGroupDone,
     SetPermissive, Fail
<1>2. \A c : Failed(p, c) => Failed(p, c)'
  BY <1>1 DEF Failed
<1>3. \/ host'[p] = host[p]
      \/ host[p] = "idle" /\ host'[p] \in {"cgroup", "skipped"}
  BY <1>0 DEF Agent, LoadManifests, RunPod, OrdinaryDone, CreateBridges, LabelIP, UnlabelIP, SetEnforcing, Launch,
     WaitGroupDone, SetPermissive, Goto, Phases, TypeOK
<1> QED BY <1>0, <1>1, <1>2, <1>3 DEF PodInv, NotStarted, HeldBack, Signalled, WaitedFor,
      BoundFirst, TenantSet, Alive, CodeStates

LEMMA AgentPhases ==
    ASSUME IInv, Agent
    PROVE  Phases'
<1> USE PodsAssumption DEF IInv, Phases, TypeOK, Pods
<1>1. CASE \E p \in Ordinary : RunPod(p)
  BY <1>1 DEF RunPod, Goto
<1>2. CASE LoadManifests \/ OrdinaryDone
  BY <1>2 DEF LoadManifests, OrdinaryDone
<1>3. CASE CreateBridges
  BY <1>3 DEF CreateBridges
<1>4. CASE (\E p \in Bridged : LabelIP(p) \/ UnlabelIP(p)) \/ SetEnforcing
  BY <1>4 DEF LabelIP, UnlabelIP, SetEnforcing
<1>5. CASE Launch
  BY <1>5 DEF Launch
<1>6. CASE WaitGroupDone
  BY <1>6 DEF WaitGroupDone
<1>7. CASE SetPermissive
  BY <1>7 DEF SetPermissive
<1> QED BY <1>1, <1>2, <1>3, <1>4, <1>5, <1>6, <1>7 DEF Agent

LEMMA AgentLabels ==
    ASSUME IInv, Agent
    PROVE  Labels' /\ Untouched' /\ MacRestored'
<1> USE PodsAssumption DEF IInv, Labels, Untouched, MacRestored, TypeOK, Pods, Labelled, Failed, Mac
<1>1. CASE \E p \in Ordinary : RunPod(p)
  BY <1>1 DEF RunPod
<1>2. CASE LoadManifests \/ OrdinaryDone \/ CreateBridges \/ Launch
  BY <1>2 DEF LoadManifests, OrdinaryDone, CreateBridges, Launch
<1>3. CASE \E p \in Bridged : LabelIP(p)
  BY <1>3 DEF LabelIP
<1>4. CASE SetEnforcing
  BY <1>4 DEF SetEnforcing, Fail
<1>5. CASE WaitGroupDone
  BY <1>5 DEF WaitGroupDone
<1>6. CASE \E p \in Bridged : UnlabelIP(p)
  BY <1>6 DEF UnlabelIP
<1>7. CASE SetPermissive
  BY <1>7 DEF SetPermissive, Fail
<1> QED BY <1>1, <1>2, <1>3, <1>4, <1>5, <1>6, <1>7 DEF Agent

\* A pod's step is a step of a launch that the phase allows for.
LEMMA PodPhases ==
    ASSUME IInv, NEW p \in Pods, PodStep(p)
    PROVE  Phases' /\ Labels' /\ Untouched' /\ MacRestored'
<1>1. OnlyPod(p) /\ TypeOK
  BY PodStepLocal DEF IInv
<1>2. host'[p] = host[p] \/ host[p] \notin {"idle", "skipped", "done"}
  BY <1>1 DEF PodStep, Host, MakeCgroup, StartContainer, Place, Release, SetupVeth,
     SignalVethCreated, Reap, Watchdog, GraceOver, RemoveCgroup, Ping, PingSends, PingGone,
     LateReap, Container, ReadSync, SetTenant, ReadVethCreated, AssignAddress, VethTests, Bind, SignalReady,
     Receive, ConnectAndExit, Exit
<1>3. Phases'
  BY <1>1, <1>2 DEF IInv, OnlyPod, Phases, Pods, TypeOK, AgentStates
<1>4. Labels' /\ Untouched' /\ MacRestored'
  BY <1>1 DEF IInv, OnlyPod, Labels, Untouched, MacRestored, Failed
<1> QED BY <1>3, <1>4

-----------------------------------------------------------------------------
(* Isolation.                                                              *)

\* A connect that the kernel lets through to another tenant's address: one of
\* the three prctls has failed.
LEMMA LetThrough ==
    ASSUME IInv, NEW p \in Pods, NEW q \in Pods, ConnectAndExit(p, q), ~Denied(p, q)
    PROVE  \/ Failed(p, "tenant")
           \/ \E r \in Labelled : Failed(r, "label") \/ Failed(r, "mode")
<1>1. /\ ctr[p].st = "probe" /\ p \in Labelled /\ q \in Labelled /\ Tenant[p] # Tenant[q]
      /\ Tenant[p] # 0 /\ Tenant[q] # 0
  BY DEF ConnectAndExit, Labelled
<1>2. agent = "wait"
  <2>1. host[p] \notin {"idle", "skipped", "done"}
    BY <1>1 DEF IInv, PodInv, NotStarted, WaitedFor, Alive, CodeStates
  <2> QED BY <1>1, <2>1 DEF IInv, Phases, TypeOK, AgentStates, Labelled
<1>3. ctr[p].tenant = Tenant[p] \/ Failed(p, "tenant")
  BY <1>1 DEF IInv, PodInv, TenantSet, CodeStates
<1>4. \/ mac.mode = "enforcing" /\ mac.label[q] # 0
      \/ \E r \in Labelled : Failed(r, "label") \/ Failed(r, "mode")
  BY <1>1, <1>2 DEF IInv, Labels
<1>5. mac.label[q] \in {0, Tenant[q]}
  BY <1>1 DEF IInv, Labels
<1> QED BY <1>1, <1>3, <1>4, <1>5 DEF Denied

LEMMA IsolatedStep ==
    ASSUME IInv, [Next]_vars
    PROVE  TenantsIsolated'
<1>1. CASE \E p \in Pods : \E q \in Pods \ {p} : ConnectAndExit(p, q)
  <2>1. PICK p \in Pods, q \in Pods : ConnectAndExit(p, q)
    BY <1>1
  <2>2. UNCHANGED failed /\ (open' = open \/ (open' = open \cup {p} /\ ~Denied(p, q)))
    BY <2>1 DEF ConnectAndExit
  <2> QED BY <2>1, <2>2, LetThrough DEF IInv, TenantsIsolated, Failed
<1>2. CASE ~\E p \in Pods : \E q \in Pods \ {p} : ConnectAndExit(p, q)
  <2>1. open' = open /\ failed \subseteq failed'
    <3>1. CASE Agent
      BY <3>1 DEF Agent, LoadManifests, RunPod, OrdinaryDone, CreateBridges, LabelIP, UnlabelIP, SetEnforcing, Launch,
         WaitGroupDone, SetPermissive, Fail
    <3>2. CASE \E p \in Pods : PodStep(p)
      BY <1>2, <3>2 DEF PodStep, Host, MakeCgroup, StartContainer, Place, Release, SetupVeth,
         SignalVethCreated, Reap, Watchdog, GraceOver, RemoveCgroup, Ping, PingSends, PingGone,
         LateReap, Container, ReadSync, SetTenant, ReadVethCreated, AssignAddress, VethTests, Bind,
         SignalReady, Receive, Exit, Fail
    <3>3. CASE UNCHANGED vars
      BY <3>3 DEF vars
    <3> QED BY <3>1, <3>2, <3>3 DEF Next, PodStep
  <2> QED BY <2>1 DEF IInv, TenantsIsolated, Failed
<1> QED BY <1>1, <1>2

-----------------------------------------------------------------------------
(* The theorems.                                                           *)

LEMMA Inductive == IInv /\ [Next]_vars => IInv'
<1> SUFFICES ASSUME IInv, [Next]_vars PROVE IInv'
  OBVIOUS
<1>1. TenantsIsolated'
  BY IsolatedStep
<1>2. CASE Agent
  <2>1. TypeOK'
    BY <1>2, AgentType DEF IInv
  <2> QED BY <1>1, <1>2, <2>1, AgentPods, AgentPhases, AgentLabels DEF IInv
<1>3. ASSUME NEW p \in Pods, PodStep(p) PROVE IInv'
  <2>1. TypeOK'
    BY <1>3, PodStepType DEF IInv
  <2>2. PodInv(p)'
    BY <1>3, HostPod, ContainerPod DEF IInv, PodStep
  <2>3. \A q \in Pods \ {p} : PodInv(q)'
    BY <1>3, OthersKept, PodStepLocal DEF IInv
  <2>4. \A q \in Pods : PodInv(q)'
    BY <2>2, <2>3
  <2> QED BY <1>1, <1>3, <2>1, <2>4, PodPhases DEF IInv
<1>4. CASE UNCHANGED vars
  BY <1>4 DEF vars, IInv, TypeOK, PodInv, NotStarted, HeldBack, Signalled, WaitedFor, BoundFirst,
     TenantSet, Alive, Failed, Phases, Labels, Untouched, MacRestored, TenantsIsolated
<1> QED BY <1>2, <1>3, <1>4 DEF Next, PodStep

LEMMA Invariant == Spec => []IInv
  BY InitIInv, Inductive, PTL DEF Spec

\* startPodContainer: no pod, ordinary or bridged, runs code of its own before the
\* agent has tried to move it into its cgroup.
THEOREM PodsPlaced == Spec => []PlacedBeforeCode
<1>1. IInv => PlacedBeforeCode
  BY DEF IInv, PodInv, HeldBack, Alive, PlacedBeforeCode, CodeStates
<1> QED BY <1>1, Invariant, PTL

\* applyTenantLabels, containerSetTenant: unless one of the three prctls fails no
\* pod connects to the address of another tenant, however the pods interleave.
THEOREM PodsIsolated == Spec => []TenantsIsolated
<1>1. IInv => TenantsIsolated
  BY DEF IInv
<1> QED BY <1>1, Invariant, PTL

\* signalVethCreated, hostSideVethPing: the host writes what the container waits
\* for, and sends only to a socket that is bound.
THEOREM PodsInStep == Spec => []PipesInStep
<1>1. IInv => PipesInStep
  BY DEF IInv, PodInv, Signalled, BoundFirst, PipesInStep, PingAfterBind, ReleasedWhileWaiting
<1> QED BY <1>1, Invariant, PTL

\* waitPod, cleanupTenantLabels: when the agent is done no container runs, a cgroup
\* that is left is that of a container not reaped, and the MAC is permissive and
\* without labels but for the calls of the clean-up that failed; an agent that
\* returned early has not touched the MAC.
THEOREM PodsLeaveNothing == Spec => []NothingLeft
<1>1. IInv => NothingLeft
  <2> SUFFICES ASSUME IInv PROVE NothingLeft
    OBVIOUS
  <2>1. NoPodOutlivesAgent
    <3> SUFFICES ASSUME PodsOver, NEW p \in Pods PROVE ~Alive(p)
      BY DEF NoPodOutlivesAgent
    <3>1. host[p] \in {"idle", "done", "skipped"}
      BY DEF IInv, Phases, Pods, PodsOver
    <3> QED BY <3>1 DEF IInv, PodInv, NotStarted, WaitedFor, Alive, CodeStates
  <2>2. CgroupsRemoved
    BY DEF IInv, PodInv, WaitedFor, CgroupsRemoved
  <2> QED BY <2>1, <2>2 DEF IInv, NothingLeft
<1> QED BY <1>1, Invariant, PTL
=============================================================================
