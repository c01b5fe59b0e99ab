--------------------------- MODULE NodeBootProofs ---------------------------
(***************************************************************************)
(* PID 1 loses no daemon.  The argument is one inductive invariant: at     *)
(* every point of the boot a daemon that runs is in liveProcs, or it is    *)
(* one of the few that the call PID 1 is in holds in a local variable, or  *)
(* its setup has failed (the two cases Supervised names); and a daemon     *)
(* that a phase may still kill has not been handed to keepAlive.           *)
(***************************************************************************)
EXTENDS NodeBoot, TLAPS

-----------------------------------------------------------------------------
(* The inductive invariant.                                                *)

\* The daemons in the local variables of the call PID 1 is in: what the
\* function still has to hand to keepAlive, or to kill.
Held ==
    {d \in Daemons :
        \/ d = "demo" /\ pc \in {"demoWait", "demoVersion"}
        \/ d = "standalone" /\ pc = "kubeletWatch"
        \/ d = "apiserver" /\ pc \in {"apiserverWatch", "serveWindow"}
        \/ d = "joinCd" /\ pc \in {"joinSocket", "joinKubelet", "joinWatch"}
        \/ d = "joinKubelet" /\ pc = "joinWatch"}

Accounted == \A d \in Daemons : Running(d) =>
    d \in liveProcs \/ d \in Held \/ (d \in failed /\ d \in {"demo", "joinCd"})

\* Once the machine is off nothing in liveProcs runs.
OffQuiet == pc = "off" => \A d \in liveProcs : ~Running(d)

\* What a phase may still kill is not registered.
Unregistered ==
    /\ pc \in {"phases", "demoWait", "demoVersion"} => "demo" \notin liveProcs
    /\ "standalone" \notin liveProcs
    /\ pc \notin Settled \cup {"agent", "join", "joinContainerd", "joinSocket",
                               "joinKubelet", "joinWatch"} => "apiserver" \notin liveProcs
    /\ pc \notin Settled => "joinCd" \notin liveProcs /\ "joinKubelet" \notin liveProcs

\* The join watches daemons it has started.
JoinStarted ==
    /\ pc \in {"joinSocket", "joinKubelet", "joinWatch"} => proc["joinCd"] # "none"
    /\ pc = "joinWatch" => proc["joinKubelet"] # "none"

IInv == TypeOK /\ Accounted /\ OffQuiet /\ Unregistered /\ JoinStarted /\ JoinedIsKept

-----------------------------------------------------------------------------
LEMMA InitIInv == Init => IInv
<1> SUFFICES ASSUME Init PROVE IInv
  OBVIOUS
<1>1. TypeOK
  <2>1. acpi \in Acpi
    BY DEF Init, Acpi
  <2>2. proc \in [Daemons -> ProcStates]
    BY DEF Init, ProcStates
  <2> QED BY <2>1, <2>2 DEF Init, TypeOK, PCs
<1>2. \A d \in Daemons : ~Running(d)
  BY DEF Init, Running
<1>3. JoinStarted /\ Unregistered /\ JoinedIsKept
  BY DEF Init, JoinStarted, Unregistered, JoinedIsKept
<1> QED BY <1>1, <1>2, <1>3 DEF Init, IInv, Accounted, OffQuiet

-----------------------------------------------------------------------------
(* The next-state relation, by what a step changes.                        *)

\* PID 1 goes on and changes nothing else.
Moves ==
    \/ ZeroCSkip \/ ZeroCSocket \/ RuntimeSkip \/ RuntimeSocket \/ RuntimeFail
    \/ RuntimeDone \/ ApiserverRegistered \/ NodeAgent \/ JoinNone \/ JoinPrepare
    \/ JoinSocket \/ Decide \/ Sigterm \/ DrainOver

\* PID 1 starts a daemon, or passes on to the next phase.
Starts == ZeroCStart \/ RuntimeStart \/ KubeletStart \/ ApiserverStart
          \/ JoinContainerd \/ JoinKubelet

\* PID 1 registers daemons, or kills them.
Registers == ZeroCDone \/ ApiserverKept \/ JoinRegistered
Kills == ZeroCFail \/ KubeletDone \/ ApiserverDeadline \/ JoinNoSocket
         \/ JoinDeadline \/ SigkillPowerOff

Arms == Notify \/ ArmACPIShutdown \/ PowerButton \/ DirectSignal

LEMMA NextCases ==
    Next => \/ Moves \/ Starts \/ Registers \/ Kills \/ Arms
            \/ \E d \in Containerds : ContainerdServes(d)
            \/ \E k \in Kubelets : KubeletRegisters(k)
            \/ \E d \in Daemons : DaemonDies(d)
  BY DEF Next, runAsInit, Environment, Demo, Runtime, Join, Serve,
         Moves, Starts, Registers, Kills, Arms

LEMMA KilledType ==
    ASSUME TypeOK, NEW ds PROVE Killed(ds) \in [Daemons -> ProcStates]
  BY DEF TypeOK, Killed, ProcStates

LEMMA ProcUpdate ==
    ASSUME TypeOK, NEW d, NEW st \in ProcStates
    PROVE  [proc EXCEPT ![d] = st] \in [Daemons -> ProcStates]
  BY DEF TypeOK

-----------------------------------------------------------------------------
LEMMA TypeStep == ASSUME TypeOK, [Next]_vars PROVE TypeOK'
<1>1. CASE Moves
  BY <1>1 DEF Moves, ZeroCSkip, ZeroCSocket, RuntimeSkip, RuntimeSocket, RuntimeFail,
       RuntimeDone, ApiserverRegistered, NodeAgent, JoinNone, JoinPrepare, JoinSocket,
       Decide, Sigterm, DrainOver, Goto, PowerOff, BootstrapFails, TypeOK, PCs
<1>2. CASE Starts
  <2>1. proc' = proc \/ \E d \in Daemons : proc' = Started(d)
    BY <1>2 DEF Starts, ZeroCStart, RuntimeStart, KubeletStart, ApiserverStart,
         JoinContainerd, JoinKubelet, Daemons, Containerds, Kubelets
  <2>2. proc' \in [Daemons -> ProcStates]
    BY <2>1, ProcUpdate DEF Started, ProcStates, TypeOK
  <2>3. liveProcs' \subseteq Daemons /\ failed' \subseteq Daemons /\ pc' \in PCs
    BY <1>2 DEF Starts, ZeroCStart, RuntimeStart, KubeletStart, ApiserverStart,
         JoinContainerd, JoinKubelet, Goto, keepAlive, TypeOK, PCs, Daemons, Containerds
  <2>4. UNCHANGED <<boot, sock, registered, clusterJoined, acpi>>
    BY <1>2 DEF Starts, ZeroCStart, RuntimeStart, KubeletStart, ApiserverStart,
         JoinContainerd, JoinKubelet
  <2> QED BY <2>2, <2>3, <2>4 DEF TypeOK
<1>3. CASE Registers
  <2>1. proc' \in [Daemons -> ProcStates]
    BY <1>3, KilledType DEF Registers, ZeroCDone, ZeroCDefer, ApiserverKept, JoinRegistered,
         TypeOK
  <2>2. liveProcs' \subseteq Daemons /\ pc' \in PCs
    BY <1>3 DEF Registers, ZeroCDone, ZeroCDefer, ApiserverKept, JoinRegistered, Goto,
         keepAlive, TypeOK, PCs, Daemons, Containerds, Kubelets
  <2>3. /\ clusterJoined' \in BOOLEAN
        /\ UNCHANGED <<boot, sock, registered, acpi, failed>>
    BY <1>3 DEF Registers, ZeroCDone, ApiserverKept, JoinRegistered, TypeOK
  <2> QED BY <2>1, <2>2, <2>3 DEF TypeOK
<1>4. CASE Kills
  <2>1. proc' \in [Daemons -> ProcStates]
    BY <1>4, KilledType DEF Kills, ZeroCFail, ZeroCDefer, KubeletDone, ApiserverDeadline,
         JoinNoSocket, JoinDeadline, SigkillPowerOff, TypeOK
  <2>2. failed' \subseteq Daemons /\ pc' \in PCs
    BY <1>4 DEF Kills, ZeroCFail, ZeroCDefer, KubeletDone, ApiserverDeadline,
         JoinNoSocket, JoinDeadline, SigkillPowerOff, TypeOK, Goto, PowerOff,
         PCs, Daemons, Containerds
  <2>3. UNCHANGED <<boot, sock, registered, liveProcs, clusterJoined, acpi>>
    BY <1>4 DEF Kills, ZeroCFail, KubeletDone, ApiserverDeadline,
         JoinNoSocket, JoinDeadline, SigkillPowerOff
  <2> QED BY <2>1, <2>2, <2>3 DEF TypeOK
<1>5. CASE Arms
  <2>1. acpi' \in Acpi
    BY <1>5 DEF Arms, Notify, ArmACPIShutdown, PowerButton, DirectSignal, TypeOK, Acpi
  <2>2. /\ pc' \in PCs
        /\ UNCHANGED <<boot, proc, sock, registered, liveProcs, clusterJoined, failed>>
    BY <1>5 DEF Arms, Notify, ArmACPIShutdown, PowerButton, DirectSignal, Goto, TypeOK, PCs
  <2> QED BY <2>1, <2>2 DEF TypeOK
<1>6. ASSUME NEW d \in Containerds, ContainerdServes(d) PROVE TypeOK'
  BY <1>6, ProcUpdate DEF ContainerdServes, TypeOK, ProcStates
<1>7. ASSUME NEW k \in Kubelets, KubeletRegisters(k) PROVE TypeOK'
  BY <1>7, ProcUpdate DEF KubeletRegisters, TypeOK, ProcStates
<1>8. ASSUME NEW d \in Daemons, DaemonDies(d) PROVE TypeOK'
  BY <1>8, KilledType DEF DaemonDies, TypeOK
<1>9. CASE UNCHANGED vars
  BY <1>9 DEF vars, TypeOK
<1> QED BY <1>1, <1>2, <1>3, <1>4, <1>5, <1>6, <1>7, <1>8, <1>9, NextCases

-----------------------------------------------------------------------------
(* What starting and killing do to the set of daemons that run.            *)

LEMMA AfterKill ==
    ASSUME TypeOK, NEW ds, proc' = Killed(ds), NEW d \in Daemons
    PROVE  /\ Running(d)' <=> Running(d) /\ d \notin ds
           /\ proc'[d] # "none" <=> proc[d] # "none"
  BY DEF TypeOK, Killed, Running, ProcStates

LEMMA AfterStart ==
    ASSUME TypeOK, NEW e \in Daemons, proc' = Started(e), NEW d \in Daemons
    PROVE  /\ Running(d)' => Running(d) \/ d = e
           /\ proc[d] # "none" => proc'[d] # "none"
           /\ proc'[e] # "none"
  BY DEF TypeOK, Started, Running

\* The daemons by name.
LEMMA DaemonNames ==
    /\ \A d : d \in Daemons <=> d \in {"demo", "runtime", "joinCd", "standalone",
                                       "apiserver", "joinKubelet"}
    /\ Containerds \subseteq Daemons /\ Kubelets \subseteq Daemons
  BY DEF Daemons, Containerds, Kubelets

-----------------------------------------------------------------------------
(* The invariant is inductive.                                             *)

\* What is to be shown of a step.
Safe == Accounted /\ OffQuiet /\ Unregistered /\ JoinStarted /\ JoinedIsKept

\* PID 1 goes on: it holds nothing that it did not hold, and drops nothing.
LEMMA MovesSafe == ASSUME IInv, Moves PROVE Safe'
<1>1. UNCHANGED <<proc, registered, liveProcs, clusterJoined, failed>>
  BY DEF Moves, ZeroCSkip, ZeroCSocket, RuntimeSkip, RuntimeSocket, RuntimeFail,
       RuntimeDone, ApiserverRegistered, NodeAgent, JoinNone, JoinPrepare, JoinSocket,
       Decide, Sigterm, DrainOver
<1>2. \A d \in Daemons : Running(d)' <=> Running(d)
  BY <1>1 DEF Running
<1>3. \/ pc = "phases" /\ pc' = "agent"
      \/ pc = "demoWait" /\ pc' = "demoVersion"
      \/ pc = "runtimeWait" /\ pc' \in {"runtimeVersion", "agent"}
      \/ pc = "runtimeVersion" /\ pc' \in {"kubelet", "agent"}
      \/ pc = "apiserverWatch" /\ pc' = "serveWindow"
      \/ pc = "agent" /\ pc' = "join"
      \/ pc = "join" /\ pc' \in {"decide", "joinContainerd"}
      \/ pc = "joinSocket" /\ pc' = "joinKubelet"
      \/ pc = "decide" /\ pc' = "notify"
      \/ pc = "decide" /\ pc' = "off" /\ liveProcs = {}
      \/ pc = "wait" /\ pc' = "sigterm"
      \/ pc = "sigterm" /\ pc' = "sigkill"
  BY DEF Moves, ZeroCSkip, ZeroCSocket, RuntimeSkip, RuntimeSocket, RuntimeFail,
       RuntimeDone, ApiserverRegistered, NodeAgent, JoinNone, JoinPrepare, JoinSocket,
       Decide, Sigterm, DrainOver, Goto, PowerOff, BootstrapFails, nodeIsLive
<1>4. Held' = Held
  BY <1>3 DEF Held
<1>5. Accounted'
  BY <1>1, <1>2, <1>4 DEF IInv, Accounted
<1>6. OffQuiet'
  BY <1>1, <1>3 DEF OffQuiet
<1>7. Unregistered'
  BY <1>1, <1>3 DEF IInv, Unregistered, Settled
<1>8. JoinStarted' /\ JoinedIsKept'
  BY <1>1, <1>3 DEF IInv, JoinStarted, JoinedIsKept
<1> QED BY <1>5, <1>6, <1>7, <1>8 DEF Safe

\* A daemon that was started is registered at once or held.
LEMMA StartsSafe == ASSUME IInv, Starts PROVE Safe'
<1> USE DEF IInv
<1>1. PICK e \in Daemons : \/ proc' = proc
                           \/ proc' = Started(e) /\ (e \in liveProcs' \/ e \in Held')
  BY DaemonNames DEF Starts, ZeroCStart, RuntimeStart, KubeletStart, ApiserverStart,
       JoinContainerd, JoinKubelet, Goto, keepAlive, Held
<1>2. \A d \in Daemons : /\ Running(d)' => Running(d) \/ d \in liveProcs' \/ d \in Held'
                         /\ proc[d] # "none" => proc'[d] # "none"
  BY <1>1, AfterStart DEF Running
<1>3. /\ pc \in {"phases", "kubelet", "apiserver", "joinContainerd", "joinKubelet"}
      /\ pc = "phases" => pc' \in {"demoWait", "runtimeWait"}
      /\ pc = "kubelet" => pc' \in {"apiserver", "kubeletWatch"}
      /\ pc = "apiserver" => pc' \in {"agent", "apiserverWatch"}
      /\ pc = "joinContainerd" => pc' \in {"decide", "joinSocket"}
      /\ pc = "joinKubelet" => pc' = "joinWatch" \/ (pc' = "decide" /\ "joinCd" \in failed')
  BY DEF Starts, ZeroCStart, RuntimeStart, KubeletStart, ApiserverStart,
       JoinContainerd, JoinKubelet, Goto
<1>4. /\ liveProcs \subseteq liveProcs' /\ liveProcs' \subseteq liveProcs \cup {"runtime"}
      /\ failed \subseteq failed'
      /\ UNCHANGED <<registered, clusterJoined>>
  BY DEF Starts, ZeroCStart, RuntimeStart, KubeletStart, ApiserverStart,
       JoinContainerd, JoinKubelet, keepAlive
<1>5. \A d \in Held : d \in Held' \/ (d \in failed' /\ d = "joinCd")
  BY <1>3 DEF Held
<1>6. Accounted'
  BY <1>2, <1>4, <1>5 DEF Accounted
<1>7. OffQuiet' /\ Unregistered'
  BY <1>3, <1>4 DEF OffQuiet, Unregistered, Settled
<1>8. JoinStarted'
  <2>1. /\ pc = "joinContainerd" /\ pc' = "joinSocket" => proc' = Started("joinCd")
        /\ pc = "joinKubelet" /\ pc' = "joinWatch" => proc' = Started("joinKubelet")
    BY DEF Starts, ZeroCStart, RuntimeStart, KubeletStart, ApiserverStart,
       JoinContainerd, JoinKubelet, Goto
  <2> QED BY <1>2, <1>3, <2>1, AfterStart, DaemonNames DEF JoinStarted
<1>9. JoinedIsKept'
  <2>1. pc \notin Settled
    BY <1>3 DEF Settled
  <2>2. ~clusterJoined
    BY <2>1 DEF JoinedIsKept, Unregistered
  <2> QED BY <1>4, <2>2 DEF JoinedIsKept
<1> QED BY <1>6, <1>7, <1>8, <1>9 DEF Safe

\* keepAlive takes over what the phase held; without ASTERKUBE_PERSIST the demo
\* kills its daemon instead.
LEMMA RegistersSafe == ASSUME IInv, Registers PROVE Safe'
<1> USE DEF IInv
<1>1. proc' = proc \/ (pc = "demoVersion" /\ proc' = Killed({"demo"}))
  BY DEF Registers, ZeroCDone, ZeroCDefer, ApiserverKept, JoinRegistered
<1>2. \A d \in Daemons : /\ Running(d)' => Running(d)
                         /\ proc[d] # "none" => proc'[d] # "none"
  BY <1>1, AfterKill DEF Running
<1>3. /\ UNCHANGED <<registered, failed>>
      /\ \/ pc = "demoVersion" /\ pc' = "agent" /\ clusterJoined' = clusterJoined
            /\ liveProcs' = liveProcs /\ proc' = Killed({"demo"})
         \/ pc = "demoVersion" /\ pc' = "agent" /\ clusterJoined' = clusterJoined
            /\ liveProcs' = liveProcs \cup {"demo"}
         \/ pc = "serveWindow" /\ pc' = "agent" /\ clusterJoined' = clusterJoined
            /\ liveProcs' = liveProcs \cup {"apiserver"}
         \/ pc = "joinWatch" /\ pc' = "decide" /\ "joinKubelet" \in registered
            /\ clusterJoined' = TRUE
            /\ liveProcs' = liveProcs \cup {"joinCd", "joinKubelet"}
  BY DEF Registers, ZeroCDone, ZeroCDefer, ApiserverKept, JoinRegistered, Goto, keepAlive
<1>4. \A d \in Held : d \in liveProcs' \/ ~Running(d)'
  BY <1>3, AfterKill DEF Held
<1>5. Accounted'
  BY <1>2, <1>3, <1>4 DEF Accounted
<1>6. OffQuiet' /\ Unregistered' /\ JoinStarted'
  BY <1>3 DEF OffQuiet, Unregistered, JoinStarted, Settled
<1>7. JoinedIsKept'
  <2>1. CASE pc = "joinWatch"
    <3>1. proc["joinCd"] # "none" /\ proc["joinKubelet"] # "none"
      BY <2>1 DEF JoinStarted
    <3>2. proc'["joinCd"] # "none" /\ proc'["joinKubelet"] # "none"
      BY <1>2, <3>1, DaemonNames
    <3>3. /\ "joinKubelet" \in registered' /\ {"joinCd", "joinKubelet"} \subseteq liveProcs'
          /\ clusterJoined'
      BY <1>3, <2>1
    <3> QED BY <3>2, <3>3 DEF JoinedIsKept
  <2>2. CASE pc # "joinWatch"
    <3>1. /\ pc \notin Settled /\ clusterJoined' = clusterJoined
          /\ liveProcs' \subseteq liveProcs \cup {"demo", "apiserver"}
      BY <1>3, <2>2 DEF Settled
    <3>2. ~clusterJoined
      BY <3>1 DEF JoinedIsKept, Unregistered
    <3> QED BY <3>1, <3>2 DEF JoinedIsKept
  <2> QED BY <2>1, <2>2
<1> QED BY <1>5, <1>6, <1>7 DEF Safe

\* What a phase held is killed, or its setup has failed; nothing that is
\* registered is killed before the machine goes off.
LEMMA KillsSafe == ASSUME IInv, Kills PROVE Safe'
<1> USE DEF IInv
<1>1. /\ UNCHANGED <<registered, liveProcs, clusterJoined>> /\ failed \subseteq failed'
      /\ \/ pc \in {"demoWait", "demoVersion"} /\ pc' = "agent"
            /\ proc' = Killed({"demo"})
         \/ pc \in {"demoWait", "demoVersion"} /\ pc' = "agent"
            /\ proc' = proc /\ "demo" \in failed'
         \/ pc = "kubeletWatch" /\ pc' = "apiserver" /\ proc' = Killed({"standalone"})
         \/ pc = "apiserverWatch" /\ pc' = "agent" /\ proc' = Killed({"apiserver"})
         \/ pc = "joinSocket" /\ pc' = "decide" /\ proc' = Killed({"joinCd"})
         \/ pc = "joinWatch" /\ pc' = "decide" /\ proc' = Killed({"joinCd", "joinKubelet"})
         \/ pc = "sigkill" /\ pc' = "off" /\ proc' = Killed(liveProcs)
  BY DEF Kills, ZeroCFail, ZeroCDefer, KubeletDone, ApiserverDeadline, JoinNoSocket,
       JoinDeadline, SigkillPowerOff, Goto, PowerOff
<1>2. \A d \in Daemons : /\ Running(d)' => Running(d)
                         /\ proc[d] # "none" => proc'[d] # "none"
  <2>1. proc' = proc \/ \E ds : proc' = Killed(ds)
    BY <1>1
  <2> QED BY <2>1, AfterKill DEF Running
<1>3. \A d \in Held : ~Running(d)' \/ (d = "demo" /\ d \in failed')
  BY <1>1, AfterKill DEF Held
<1>4. Accounted'
  BY <1>1, <1>2, <1>3 DEF Accounted
<1>5. OffQuiet'
  <2>1. CASE pc = "sigkill"
    BY <1>1, <2>1, AfterKill DEF OffQuiet, TypeOK
  <2> QED BY <1>1, <2>1 DEF OffQuiet
<1>6. Unregistered' /\ JoinStarted'
  BY <1>1 DEF Unregistered, JoinStarted, Settled
<1>7. JoinedIsKept'
  BY <1>1, <1>2, DaemonNames DEF JoinedIsKept
<1> QED BY <1>4, <1>5, <1>6, <1>7 DEF Safe

\* The power button and its monitor touch no daemon.
LEMMA ArmsSafe == ASSUME IInv, Arms PROVE Safe'
<1>1. /\ UNCHANGED <<proc, registered, liveProcs, clusterJoined, failed>>
      /\ \/ pc = "notify" /\ pc' = "arm"
         \/ pc = "arm" /\ pc' = "wait"
         \/ pc' = pc
  BY DEF Arms, Notify, ArmACPIShutdown, PowerButton, DirectSignal, Goto
<1>2. Held' = Held
  BY <1>1 DEF Held
<1> QED
  BY <1>1, <1>2 DEF IInv, Safe, Accounted, OffQuiet, Unregistered, JoinStarted, JoinedIsKept,
       Running, Settled

\* A daemon that serves, registers the node or dies ran before, and PID 1 has
\* not moved.
LEMMA DaemonsSafe ==
    ASSUME IInv,
           \/ \E d \in Containerds : ContainerdServes(d)
           \/ \E k \in Kubelets : KubeletRegisters(k)
           \/ \E d \in Daemons : DaemonDies(d)
    PROVE  Safe'
<1> USE DEF IInv
<1>1. /\ UNCHANGED <<pc, liveProcs, clusterJoined, failed>>
      /\ registered \subseteq registered'
      /\ pc # "off"
  BY DEF ContainerdServes, KubeletRegisters, DaemonDies
<1> DEFINE NoneAdded ==
        \A d \in Daemons : /\ Running(d)' => Running(d)
                           /\ proc[d] # "none" => proc'[d] # "none"
<1>2. NoneAdded
  <2>1. ASSUME NEW e \in Daemons, proc[e] = "run", proc' = [proc EXCEPT ![e] = "serving"]
        PROVE  NoneAdded
    BY <2>1 DEF Running, TypeOK
  <2>2. ASSUME NEW e \in Daemons, DaemonDies(e)
        PROVE  NoneAdded
    BY <2>2, AfterKill DEF DaemonDies
  <2> HIDE DEF NoneAdded
  <2> QED BY <2>1, <2>2, DaemonNames DEF ContainerdServes, KubeletRegisters
<1>3. Held' = Held
  BY <1>1 DEF Held
<1>4. Accounted'
  BY <1>1, <1>2, <1>3 DEF Accounted
<1>5. OffQuiet' /\ Unregistered'
  BY <1>1 DEF OffQuiet, Unregistered, Settled
<1>6. JoinStarted' /\ JoinedIsKept'
  BY <1>1, <1>2, DaemonNames DEF JoinStarted, JoinedIsKept
<1> QED BY <1>4, <1>5, <1>6 DEF Safe

LEMMA StepIInv == ASSUME IInv, [Next]_vars PROVE IInv'
<1>1. TypeOK'
  BY TypeStep DEF IInv
<1>2. CASE Next
  BY <1>1, <1>2, NextCases, MovesSafe, StartsSafe, RegistersSafe, KillsSafe, ArmsSafe,
     DaemonsSafe DEF Safe, IInv
<1>3. CASE UNCHANGED vars
  BY <1>1, <1>3 DEF vars, IInv, Accounted, OffQuiet, Unregistered, JoinStarted, JoinedIsKept,
       Held, Running
<1> QED BY <1>2, <1>3

-----------------------------------------------------------------------------
(* Theorems.                                                               *)

LEMMA InvariantHolds == Spec => []IInv
<1>1. IInv /\ [Next]_vars => IInv'
  BY StepIInv
<1> QED BY InitIInv, <1>1, PTL DEF Spec

\* Every variable of PID 1 has its type in every reachable state: liveProcs holds
\* daemons that runAsInit starts, and the socket file is that of a containerd.
THEOREM BootTypeCorrect == Spec => []TypeOK
<1>1. IInv => TypeOK
  BY DEF IInv
<1> QED BY <1>1, InvariantHolds, PTL

\* runAsInit loses no daemon: when it decides whether the node stays up, what
\* runs is in liveProcs, but for the two setups that return on an error.
THEOREM BootSupervised == Spec => []Supervised
<1>1. IInv => Supervised
  <2> SUFFICES ASSUME IInv, pc \in Settled, NEW d \in Daemons, Running(d), d \notin liveProcs
               PROVE  d \in failed \cap {"demo", "joinCd"}
    BY DEF Supervised, Orphans
  <2>1. d \notin Held
    BY DEF Held, Settled
  <2> QED BY <2>1 DEF IInv, Accounted
<1> QED BY <1>1, InvariantHolds, PTL

\* gracefulShutdown, or the power-off of a node that did not come up, leaves no
\* daemon running, but for those two.
THEOREM BootOffMeansStopped == Spec => []OffMeansStopped
<1>1. IInv => OffMeansStopped
  <2> SUFFICES ASSUME IInv, pc = "off", NEW d \in Daemons \ failed, Running(d)
               PROVE  FALSE
    BY DEF OffMeansStopped
  <2>1. d \notin Held
    BY DEF Held
  <2>2. d \in liveProcs
    BY <2>1 DEF IInv, Accounted
  <2> QED BY <2>2 DEF IInv, OffQuiet
<1> QED BY <1>1, InvariantHolds, PTL

\* serveForever's banner tells the truth: a node that says it joined has its two
\* daemons in liveProcs.
THEOREM BootJoinedIsKept == Spec => []JoinedIsKept
<1>1. IInv => JoinedIsKept
  BY DEF IInv
<1> QED BY <1>1, InvariantHolds, PTL

\* keepAlive: no phase kills a daemon that an earlier one registered.
THEOREM BootKeptAlive == Spec => KeptAlive
<1> DEFINE Keeps == \A d \in liveProcs' :
                        Running(d) /\ ~Running(d)' /\ pc' # pc => pc = "sigkill"
<1>1. ASSUME IInv, IInv', [Next]_vars PROVE [Keeps]_vars
  <2> SUFFICES ASSUME Next, NEW d \in liveProcs', Running(d), ~Running(d)', pc' # pc
               PROVE  pc = "sigkill"
    BY <1>1
  <2>1. d \in Daemons
    BY <1>1 DEF IInv, TypeOK
  <2>2. ~Moves /\ ~Arms
    BY DEF Moves, ZeroCSkip, ZeroCSocket, RuntimeSkip, RuntimeSocket, RuntimeFail,
         RuntimeDone, ApiserverRegistered, NodeAgent, JoinNone, JoinPrepare, JoinSocket,
         Decide, Sigterm, DrainOver, Arms, Notify, ArmACPIShutdown, PowerButton,
         DirectSignal, Running
  <2>3. ~Starts
    <3>1. Starts => proc' = proc \/ \E e \in Daemons : proc' = Started(e)
      BY DaemonNames DEF Starts, ZeroCStart, RuntimeStart, KubeletStart, ApiserverStart,
           JoinContainerd, JoinKubelet
    <3> QED BY <1>1, <2>1, <3>1 DEF Started, Running, IInv, TypeOK
  <2>4. ~Registers
    <3>1. Registers =>
              \/ proc' = proc
              \/ pc = "demoVersion" /\ proc' = Killed({"demo"}) /\ liveProcs' = liveProcs
      BY DEF Registers, ZeroCDone, ZeroCDefer, ApiserverKept, JoinRegistered, keepAlive
    <3> QED BY <1>1, <2>1, <3>1, AfterKill DEF Running, IInv, Unregistered
  <2>5. ASSUME Kills PROVE pc = "sigkill"
    <3>1. /\ liveProcs' = liveProcs
          /\ \/ proc' = proc
             \/ pc \in {"demoWait", "demoVersion"} /\ proc' = Killed({"demo"})
             \/ pc = "kubeletWatch" /\ proc' = Killed({"standalone"})
             \/ pc = "apiserverWatch" /\ proc' = Killed({"apiserver"})
             \/ pc = "joinSocket" /\ proc' = Killed({"joinCd"})
             \/ pc = "joinWatch" /\ proc' = Killed({"joinCd", "joinKubelet"})
             \/ pc = "sigkill"
      BY <2>5 DEF Kills, ZeroCFail, ZeroCDefer, KubeletDone, ApiserverDeadline, JoinNoSocket,
           JoinDeadline, SigkillPowerOff
    <3> QED BY <1>1, <2>1, <3>1, AfterKill DEF Running, IInv, Unregistered, Settled
  <2>6. /\ ~\E e \in Containerds : ContainerdServes(e)
        /\ ~\E e \in Kubelets : KubeletRegisters(e)
        /\ ~\E e \in Daemons : DaemonDies(e)
    BY DEF ContainerdServes, KubeletRegisters, DaemonDies
  <2> QED BY <2>2, <2>3, <2>4, <2>5, <2>6, NextCases
<1>2. Spec => [][Keeps]_vars
  <2> HIDE DEF Keeps
  <2> QED BY <1>1, InvariantHolds, PTL DEF Spec
<1> QED BY <1>2 DEF KeptAlive
=============================================================================
