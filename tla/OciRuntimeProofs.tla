-------------------------- MODULE OciRuntimeProofs --------------------------
(***************************************************************************)
(* Proofs about OciRuntime for any number of containers, invocations, pids *)
(* and fifos.                                                              *)
(***************************************************************************)
EXTENDS OciRuntime, TLAPS

\* What an invocation has in hand when its next step needs it: a create that
\* forked has the pid, a start that read the state has the record.
InHand ==
    \A c \in Calls :
        /\ At(c, "create", "cgroup") => call[c].pid \in Pids
        /\ call[c].op = "start" /\ call[c].pc # "read" => call[c].st \in containerState

TypeInv == TypeOK /\ InHand

LEMMA ReturnType ==
    ASSUME TypeInv, NEW c \in Calls, InFlight(c), NEW ok \in BOOLEAN, Return(c, ok)
    PROVE  /\ call' \in [Calls -> Busy \cup {Idle}]
           /\ caller' \in [Ids -> CallerStates]
           /\ InHand'
<1> USE DEF TypeInv, TypeOK, InHand, At
<1>1. call[c] \in Busy
  BY DEF InFlight
<1>2. call' = [call EXCEPT ![c] = Idle]
  BY DEF Return
<1>3. call' \in [Calls -> Busy \cup {Idle}] /\ InHand'
  BY <1>2 DEF Idle
<1>4. caller' \in [Ids -> CallerStates]
  <2>1. CASE call[c].op = "kill"
    BY <2>1 DEF Return
  <2>2. CASE call[c].op # "kill"
    <3>1. call[c].op \in {"create", "start"} \cup Deletes
      BY <1>1, <2>2 DEF Busy, Commands, Deletes
    <3>2. Concluded(call[c].op, ok) \in CallerStates
      BY <3>1 DEF Concluded, CallerStates, Deletes
    <3>3. caller' = [caller EXCEPT ![call[c].id] = Concluded(call[c].op, ok)]
      BY <2>2 DEF Return
    <3> QED BY <3>2, <3>3
  <2> QED BY <2>1, <2>2
<1> QED BY <1>3, <1>4


LEMMA TypeInit == Init => TypeInv
  BY ConstantsAssumption DEF Init, TypeInv, TypeOK, InHand, At, EmptyDisk, Unused, Idle,
     Disk, Proc, CallerStates, ProcStates, GoneStates

LEMMA InvokeType ==
    ASSUME TypeInv, NEW c \in Calls, NEW op \in Commands, NEW i \in Ids, Invoke(c, op, i)
    PROVE  TypeInv'
<1> DEFINE new == [op |-> op, id |-> i, pc |-> IF op = "create" THEN "mkdir" ELSE "read",
                   fifo |-> None, pid |-> None, st |-> None]
<1>1. call' = [call EXCEPT ![c] = new] /\ UNCHANGED <<disk, proc>>
      /\ caller' = [caller EXCEPT ![i] = Pending(op, i)]
  BY DEF Invoke
<1>2. new \in Busy
  BY DEF Busy, PCs
<1>3. Pending(op, i) \in CallerStates
  BY DEF Pending, TypeInv, TypeOK, CallerStates
<1>4. TypeOK'
  BY <1>1, <1>2, <1>3 DEF TypeInv, TypeOK
<1>5. InHand'
  BY <1>1 DEF TypeInv, TypeOK, InHand, At
<1> QED BY <1>4, <1>5 DEF TypeInv

\* An invocation that goes on: its new record is well formed and has in hand
\* what its next step needs.
LEMMA AdvanceType ==
    ASSUME TypeInv, NEW c \in Calls, NEW b \in Busy, call' = [call EXCEPT ![c] = b],
           b.op = "create" /\ b.pc = "cgroup" => b.pid \in Pids,
           b.op = "start" /\ b.pc # "read" => b.st \in containerState
    PROVE  call' \in [Calls -> Busy \cup {Idle}] /\ InHand'
<1> USE DEF TypeInv, TypeOK, InHand, At
<1>1. call' \in [Calls -> Busy \cup {Idle}]
  OBVIOUS
<1>2. ASSUME NEW d \in Calls
      PROVE  /\ At(d, "create", "cgroup")' => call'[d].pid \in Pids
             /\ call'[d].op = "start" /\ call'[d].pc # "read"
                  => call'[d].st \in containerState
  BY <1>2
<1> QED BY <1>1, <1>2

LEMMA GotoType ==
    ASSUME TypeInv, NEW c \in Calls, InFlight(c), NEW pc \in PCs, Goto(c, pc),
           call[c].op = "create" => pc # "cgroup",
           call[c].op = "start" => call[c].st \in containerState
    PROVE  call' \in [Calls -> Busy \cup {Idle}] /\ InHand'
<1> DEFINE b == [call[c] EXCEPT !.pc = pc]
<1>1. call[c] \in Busy
  BY DEF TypeInv, TypeOK, InFlight
<1>2. b \in Busy /\ b.op = call[c].op /\ b.pc = pc /\ b.st = call[c].st
  BY <1>1 DEF Busy
<1>3. call' = [call EXCEPT ![c] = b]
  BY DEF Goto
<1> HIDE DEF b
<1> QED BY <1>2, <1>3, AdvanceType

\* A change of one field of one container's directory.
LEMMA DiskType ==
    ASSUME TypeInv, NEW i \in Ids, NEW d \in Disk, disk' = [disk EXCEPT ![i] = d]
    PROVE  disk' \in [Ids -> Disk]
  BY DEF TypeInv, TypeOK

LEMMA ProcType ==
    ASSUME TypeInv, NEW p \in Pids, NEW q \in Proc, proc' = [proc EXCEPT ![p] = q]
    PROVE  proc' \in [Pids -> Proc]
  BY DEF TypeInv, TypeOK

LEMMA InFlightBusy ==
    ASSUME TypeInv, NEW c \in Calls, call[c].pc \in PCs
    PROVE  call[c] \in Busy /\ call[c].id \in Ids /\ InFlight(c)
           /\ disk[call[c].id] \in Disk
<1>1. call[c] # Idle
  BY DEF Idle, PCs
<1>2. call[c] \in Busy
  BY <1>1 DEF TypeInv, TypeOK
<1> QED BY <1>1, <1>2 DEF InFlight, Busy, TypeInv, TypeOK

LEMMA CreateType ==
    ASSUME TypeInv, NEW c \in Calls,
           \/ CreateMkdir(c) \/ CreateMkfifo(c) \/ CreateFork(c) \/ CreateCgroup(c)
           \/ CreatePidFile(c)
    PROVE  TypeInv'
<1> DEFINE i == call[c].id
<1>0. call[c].op = "create" /\ call[c].pc \in PCs
  BY DEF CreateMkdir, CreateMkfifo, CreateFork, CreateCgroup, CreatePidFile, At, PCs
<1>1. call[c] \in Busy /\ i \in Ids /\ InFlight(c) /\ disk[i] \in Disk
  BY <1>0, InFlightBusy
<1>2. CASE CreateMkdir(c)
  <2>1. disk' = [disk EXCEPT ![i] = [disk[i] EXCEPT !.dir = TRUE]] /\ Goto(c, "mkfifo")
    BY <1>2 DEF CreateMkdir
  <2>2. [disk[i] EXCEPT !.dir = TRUE] \in Disk
    BY <1>1 DEF Disk
  <2>3. call' \in [Calls -> Busy \cup {Idle}] /\ InHand'
    BY <1>0, <1>1, <2>1, GotoType DEF PCs
  <2> QED BY <1>1, <1>2, <2>1, <2>2, <2>3, DiskType DEF CreateMkdir, TypeInv, TypeOK
<1>3. CASE CreateMkfifo(c)
  <2>1. PICK f \in Fifos : disk' = [disk EXCEPT ![i] = [disk[i] EXCEPT !.fifo = f]]
    BY <1>3 DEF CreateMkfifo, FreshFifos
  <2>2. [disk[i] EXCEPT !.fifo = f] \in Disk
    BY <1>1 DEF Disk
  <2>3. call' \in [Calls -> Busy \cup {Idle}] /\ InHand'
    BY <1>0, <1>1, <1>3, GotoType DEF PCs, CreateMkfifo
  <2> QED BY <1>1, <1>3, <2>1, <2>2, <2>3, DiskType DEF CreateMkfifo, TypeInv, TypeOK
<1>4. CASE CreateFork(c)
  <2> DEFINE q == [st |-> "init", id |-> i, fifo |-> None, cg |-> "none"]
             b(p) == [call[c] EXCEPT !.pc = "cgroup", !.pid = p]
  <2>1. PICK p \in Pids : /\ proc' = [proc EXCEPT ![p] = q]
                          /\ call' = [call EXCEPT ![c] = b(p)]
    BY <1>4, ZenonT(40) DEF CreateFork, FreePids
  <2>2. q \in Proc
    BY <1>1 DEF Proc, ProcStates, LiveStates, ContainerStates, SetupStates
  <2>3. b(p) \in Busy /\ b(p).pid = p /\ b(p).op = "create"
    BY <1>0, <1>1 DEF Busy, PCs
  <2> HIDE DEF q, b
  <2>4. call' \in [Calls -> Busy \cup {Idle}] /\ InHand'
    BY <2>1, <2>3, AdvanceType
  <2> QED BY <1>4, <2>1, <2>2, <2>4, ProcType DEF CreateFork, TypeInv, TypeOK
<1>5. CASE CreateCgroup(c)
  <2> DEFINE p == call[c].pid
             r(m) == [InitPid |-> p, Status |-> "created", CgroupPath |-> m]
             b(m) == [call[c] EXCEPT !.pc = "trunc", !.st = r(m)]
             q(g) == [proc[p] EXCEPT !.cg = g]
  <2>1. p \in Pids /\ proc[p] \in Proc
    BY <1>5 DEF CreateCgroup, TypeInv, TypeOK, InHand
  <2>a. PICK m \in BOOLEAN, g \in {"in", "failed"} :
            /\ disk' = [disk EXCEPT ![call[c].id].cg = @ \/ m]
            /\ proc' = [proc EXCEPT ![p].cg = g]
            /\ call' = [call EXCEPT ![c].pc = "trunc", ![c].st = r(m)]
    BY <1>5, Zenon DEF CreateCgroup
  <2>2. /\ disk' = [disk EXCEPT ![i] = [disk[i] EXCEPT !.cg = @ \/ m]]
        /\ proc' = [proc EXCEPT ![p] = q(g)]
        /\ call' = [call EXCEPT ![c] = b(m)]
    BY <2>a
  <2>3. [disk[i] EXCEPT !.cg = @ \/ m] \in Disk
    BY <1>1 DEF Disk
  <2>4. q(g) \in Proc
    BY <2>1 DEF Proc
  <2>5. r(m) \in containerState
    BY <2>1 DEF containerState, Statuses
  <2> HIDE DEF r
  <2>6. b(m) \in Busy /\ b(m).op = "create" /\ b(m).pc = "trunc"
    BY <1>0, <1>1, <2>5 DEF Busy, PCs
  <2> HIDE DEF b, q
  <2>7. call' \in [Calls -> Busy \cup {Idle}] /\ InHand'
    BY <2>2, <2>6, AdvanceType
  <2>8. disk' \in [Ids -> Disk]
    BY <1>1, <2>2, <2>3, DiskType
  <2>9. proc' \in [Pids -> Proc]
    BY <2>1, <2>2, <2>4, ProcType
  <2> QED BY <1>5, <2>7, <2>8, <2>9 DEF CreateCgroup, TypeInv, TypeOK
<1>6. CASE CreatePidFile(c)
  BY <1>1, <1>6, ReturnType DEF CreatePidFile, TypeInv, TypeOK
<1> QED BY <1>2, <1>3, <1>4, <1>5, <1>6

LEMMA WriteType ==
    ASSUME TypeInv, NEW c \in Calls, WriteTrunc(c) \/ WriteBody(c)
    PROVE  TypeInv'
<1> DEFINE i == call[c].id
<1>0. call[c].pc \in {"trunc", "write"}
  BY DEF WriteTrunc, WriteBody
<1>1. call[c] \in Busy /\ i \in Ids /\ InFlight(c) /\ disk[i] \in Disk
  BY <1>0, InFlightBusy DEF PCs
<1>2. call[c].op = "start" => call[c].st \in containerState
  BY <1>0 DEF TypeInv, InHand
<1>3. CASE WriteTrunc(c) /\ disk[i].dir
  <2>1. [disk[i] EXCEPT !.file = Torn] \in Disk
    BY <1>1 DEF Disk
  <2>2. disk' = [disk EXCEPT ![i] = [disk[i] EXCEPT !.file = Torn]] /\ Goto(c, "write")
    BY <1>3 DEF WriteTrunc
  <2>3. call' \in [Calls -> Busy \cup {Idle}] /\ InHand'
    BY <1>1, <1>2, <2>2, GotoType DEF PCs
  <2> QED BY <1>1, <1>3, <2>1, <2>2, <2>3, DiskType DEF WriteTrunc, TypeInv, TypeOK
<1>4. CASE WriteTrunc(c) /\ ~disk[i].dir
  BY <1>1, <1>4, ReturnType DEF WriteTrunc, TypeInv, TypeOK
<1>5. CASE WriteBody(c)
  <2>1. call[c].st \in containerState \cup {None}
    BY <1>1 DEF Busy
  <2>2. [disk[i] EXCEPT !.file = call[c].st] \in Disk
    BY <1>1, <2>1 DEF Disk
  <2>3. disk' = [disk EXCEPT ![i] = [disk[i] EXCEPT !.file = call[c].st]]
    BY <1>5 DEF WriteBody
  <2>4. disk' \in [Ids -> Disk]
    BY <1>1, <2>2, <2>3, DiskType
  <2>5. CASE call[c].op = "create"
    <3>1. call' \in [Calls -> Busy \cup {Idle}] /\ InHand'
      BY <1>1, <1>5, <2>5, GotoType DEF PCs, WriteBody
    <3> QED BY <1>5, <2>4, <2>5, <3>1 DEF WriteBody, TypeInv, TypeOK
  <2>6. CASE call[c].op # "create"
    BY <1>1, <1>5, <2>4, <2>6, ReturnType DEF WriteBody, TypeInv, TypeOK
  <2> QED BY <2>5, <2>6
<1> QED BY <1>3, <1>4, <1>5

LEMMA StartType ==
    ASSUME TypeInv, NEW c \in Calls,
           \/ StartRead(c) \/ StartOpen(c) \/ StartOpened(c) \/ StartReadByte(c)
           \/ StartUnlink(c)
    PROVE  TypeInv'
<1> DEFINE i == call[c].id
<1>0. call[c].op = "start" /\ call[c].pc \in PCs
  BY DEF StartRead, StartOpen, StartOpened, StartReadByte, StartUnlink, At, PCs
<1>1. call[c] \in Busy /\ i \in Ids /\ InFlight(c) /\ disk[i] \in Disk
  BY <1>0, InFlightBusy
<1>2. call[c].pc # "read" => call[c].st \in containerState
  BY <1>0 DEF TypeInv, InHand
<1>3. CASE StartRead(c)
  <2>1. CASE readState(i)
    <3> DEFINE b == [call[c] EXCEPT !.pc = "open", !.st = disk[i].file]
    <3>1. disk[i].file \in containerState
      BY <2>1 DEF readState
    <3>2. b \in Busy /\ b.op = "start" /\ b.st \in containerState
      BY <1>0, <1>1, <3>1 DEF Busy, PCs
    <3>3. call' = [call EXCEPT ![c] = b]
      BY <1>3, <2>1 DEF StartRead
    <3> HIDE DEF b
    <3>4. call' \in [Calls -> Busy \cup {Idle}] /\ InHand'
      BY <3>2, <3>3, AdvanceType
    <3> QED BY <1>3, <2>1, <3>4 DEF StartRead, TypeInv, TypeOK
  <2>2. CASE ~readState(i)
    BY <1>1, <1>3, <2>2, ReturnType DEF StartRead, TypeInv, TypeOK
  <2> QED BY <2>1, <2>2
<1>4. CASE StartOpen(c)
  <2>1. CASE disk[i].fifo # None
    <3> DEFINE b == [call[c] EXCEPT !.pc = "opening", !.fifo = disk[i].fifo]
    <3>1. call[c].st \in containerState
      BY <1>2, <1>4 DEF StartOpen, At
    <3>2. b \in Busy /\ b.op = "start" /\ b.st \in containerState
      BY <1>0, <1>1, <3>1 DEF Busy, PCs, Disk
    <3>3. call' = [call EXCEPT ![c] = b]
      BY <1>4, <2>1 DEF StartOpen
    <3> HIDE DEF b
    <3>4. call' \in [Calls -> Busy \cup {Idle}] /\ InHand'
      BY <3>2, <3>3, AdvanceType
    <3> QED BY <1>4, <2>1, <3>4 DEF StartOpen, TypeInv, TypeOK
  <2>2. CASE ~(disk[i].fifo # None)
    BY <1>1, <1>4, <2>2, ReturnType DEF StartOpen, TypeInv, TypeOK
  <2> QED BY <2>1, <2>2
<1>5. CASE StartOpened(c)
  <2>1. call' \in [Calls -> Busy \cup {Idle}] /\ InHand'
    BY <1>1, <1>2, <1>5, <1>0, GotoType DEF StartOpened, PCs, At
  <2>2. \A p \in Pids : [proc[p] EXCEPT !.st = "write"] \in Proc
    BY DEF TypeInv, TypeOK, Proc, ProcStates, LiveStates, ContainerStates, ReleasedStates
  <2>3. proc' \in [Pids -> Proc]
    BY <1>5, <2>2 DEF StartOpened, TypeInv, TypeOK
  <2> QED BY <1>5, <2>1, <2>3 DEF StartOpened, TypeInv, TypeOK
<1>6. CASE StartReadByte(c)
  <2> DEFINE b == [call[c] EXCEPT !.pc = "unlink", !.fifo = None]
  <2>1. call[c].st \in containerState
    BY <1>2, <1>6 DEF StartReadByte, At
  <2>2. b \in Busy /\ b.op = "start" /\ b.st \in containerState
    BY <1>0, <1>1, <2>1 DEF Busy, PCs
  <2>3. call' = [call EXCEPT ![c] = b]
    BY <1>6 DEF StartReadByte
  <2> HIDE DEF b
  <2>4. call' \in [Calls -> Busy \cup {Idle}] /\ InHand'
    BY <2>2, <2>3, AdvanceType
  <2> QED BY <1>6, <2>4 DEF StartReadByte, TypeInv, TypeOK
<1>7. CASE StartUnlink(c)
  <2> DEFINE r == [call[c].st EXCEPT !.Status = "running"]
             b == [call[c] EXCEPT !.pc = "trunc", !.st = r]
  <2>1. call[c].st \in containerState
    BY <1>2, <1>7 DEF StartUnlink, At
  <2>2. r \in containerState
    BY <2>1 DEF containerState, Statuses
  <2>3. disk' = [disk EXCEPT ![i] = [disk[i] EXCEPT !.fifo = None]]
        /\ call' = [call EXCEPT ![c] = b]
    BY <1>7, ZenonT(40) DEF StartUnlink
  <2> HIDE DEF r
  <2>4. b \in Busy /\ b.op = "start" /\ b.st \in containerState
    BY <1>0, <1>1, <2>2 DEF Busy, PCs
  <2>5. [disk[i] EXCEPT !.fifo = None] \in Disk
    BY <1>1 DEF Disk
  <2> HIDE DEF b
  <2>6. call' \in [Calls -> Busy \cup {Idle}] /\ InHand'
    BY <2>3, <2>4, AdvanceType
  <2> QED BY <1>1, <1>7, <2>3, <2>5, <2>6, DiskType DEF StartUnlink, TypeInv, TypeOK
<1> QED BY <1>3, <1>4, <1>5, <1>6, <1>7

\* A signal changes nothing but the state of a process.
LEMMA KilledType ==
    ASSUME TypeInv, NEW p
    PROVE  Killed(p) \in [Pids -> Proc]
<1>1. CASE p \in Pids
  <2>1. [proc[p] EXCEPT !.st = "dying"] \in Proc
    BY <1>1 DEF TypeInv, TypeOK, Proc, ProcStates
  <2> QED BY <1>1, <2>1 DEF Killed, TypeInv, TypeOK
<1>2. CASE p \notin Pids
  BY <1>2 DEF Killed, TypeInv, TypeOK
<1> QED BY <1>1, <1>2

LEMMA KillType ==
    ASSUME TypeInv, NEW c \in Calls, KillRead(c) \/ KillSignal(c)
    PROVE  TypeInv'
<1> DEFINE i == call[c].id
<1>0. call[c].op = "kill" /\ call[c].pc \in PCs
  BY DEF KillRead, KillSignal, At, PCs
<1>1. call[c] \in Busy /\ i \in Ids /\ InFlight(c)
  BY <1>0, InFlightBusy
<1>2. CASE KillRead(c)
  <2>1. CASE readState(i)
    <3> DEFINE b == [call[c] EXCEPT !.pc = "signal", !.st = disk[i].file]
    <3>1. disk[i].file \in containerState
      BY <2>1 DEF readState
    <3>2. b \in Busy /\ b.op = "kill"
      BY <1>0, <1>1, <3>1 DEF Busy, PCs
    <3>3. call' = [call EXCEPT ![c] = b]
      BY <1>2, <2>1 DEF KillRead
    <3> HIDE DEF b
    <3>4. call' \in [Calls -> Busy \cup {Idle}] /\ InHand'
      BY <3>2, <3>3, AdvanceType
    <3> QED BY <1>2, <2>1, <3>4 DEF KillRead, TypeInv, TypeOK
  <2>2. CASE ~readState(i)
    BY <1>1, <1>2, <2>2, ReturnType DEF KillRead, TypeInv, TypeOK
  <2> QED BY <2>1, <2>2
<1>3. CASE KillSignal(c)
  <2>1. proc' \in [Pids -> Proc]
    BY <1>3, KilledType DEF KillSignal, TypeInv, TypeOK
  <2> QED BY <1>1, <1>3, <2>1, ReturnType DEF KillSignal, TypeInv, TypeOK
<1> QED BY <1>2, <1>3

LEMMA DeleteType ==
    ASSUME TypeInv, NEW c \in Calls,
           \/ DeleteRead(c) \/ DeleteSignal(c) \/ DeleteCgroup(c) \/ DeleteEntry(c)
           \/ DeleteDir(c)
    PROVE  TypeInv'
<1> DEFINE i == call[c].id
<1>0. call[c].op \in Deletes /\ call[c].pc \in PCs
  BY DEF DeleteRead, DeleteSignal, DeleteCgroup, DeleteEntry, DeleteDir, PCs
<1>1. call[c] \in Busy /\ i \in Ids /\ InFlight(c) /\ disk[i] \in Disk
  BY <1>0, InFlightBusy
<1>2. call[c].op # "create" /\ call[c].op # "start"
  BY <1>0 DEF Deletes
<1>3. CASE DeleteRead(c)
  <2>1. CASE readState(i)
    <3> DEFINE b == [call[c] EXCEPT !.pc = "signal", !.st = disk[i].file]
    <3>1. disk[i].file \in containerState
      BY <2>1 DEF readState
    <3>2. b \in Busy /\ b.op = call[c].op
      BY <1>1, <3>1 DEF Busy, PCs
    <3>3. call' = [call EXCEPT ![c] = b]
      BY <1>3, <2>1 DEF DeleteRead
    <3> HIDE DEF b
    <3>4. call' \in [Calls -> Busy \cup {Idle}] /\ InHand'
      BY <1>2, <3>2, <3>3, AdvanceType
    <3> QED BY <1>3, <2>1, <3>4 DEF DeleteRead, TypeInv, TypeOK
  <2>2. CASE ~readState(i)
    BY <1>1, <1>3, <2>2, ReturnType DEF DeleteRead, TypeInv, TypeOK
  <2> QED BY <2>1, <2>2
<1>4. CASE DeleteSignal(c)
  <2>1. proc' \in [Pids -> Proc]
    BY <1>4, KilledType DEF DeleteSignal, TypeInv, TypeOK
  <2>2. call' \in [Calls -> Busy \cup {Idle}] /\ InHand'
    BY <1>1, <1>2, <1>4, GotoType DEF DeleteSignal, PCs
  <2> QED BY <1>4, <2>1, <2>2 DEF DeleteSignal, TypeInv, TypeOK
<1>5. CASE DeleteCgroup(c)
  <2>1. PICK x \in BOOLEAN : disk' = [disk EXCEPT ![i] = [disk[i] EXCEPT !.cg = x]]
    <3> DEFINE members == {p \in Pids : /\ proc[p].id = i /\ proc[p].cg = "in"
                                       /\ proc[p].st \in LiveStates \cup {"dying"}}
               x == disk[i].cg /\ ~(call[c].st.CgroupPath /\ members = {})
    <3>1. disk' = [disk EXCEPT ![i] = [disk[i] EXCEPT !.cg = x]]
      BY <1>5 DEF DeleteCgroup
    <3>2. x \in BOOLEAN
      OBVIOUS
    <3> HIDE DEF x
    <3> QED BY <3>1, <3>2
  <2>2. [disk[i] EXCEPT !.cg = x] \in Disk
    BY <1>1 DEF Disk
  <2>3. call' \in [Calls -> Busy \cup {Idle}] /\ InHand'
    BY <1>1, <1>2, <1>5, GotoType DEF DeleteCgroup, PCs
  <2> QED BY <1>1, <1>5, <2>1, <2>2, <2>3, DiskType DEF DeleteCgroup, TypeInv, TypeOK
<1>6. CASE DeleteEntry(c)
  <2>1. /\ [disk[i] EXCEPT !.fifo = None] \in Disk
        /\ [disk[i] EXCEPT !.file = None] \in Disk
    BY <1>1 DEF Disk
  <2>2. \/ disk' = [disk EXCEPT ![i] = [disk[i] EXCEPT !.fifo = None]]
        \/ disk' = [disk EXCEPT ![i] = [disk[i] EXCEPT !.file = None]]
    BY <1>6 DEF DeleteEntry
  <2>3. disk' \in [Ids -> Disk]
    BY <1>1, <2>1, <2>2, DiskType
  <2> QED BY <1>6, <2>3 DEF DeleteEntry, TypeInv, TypeOK, InHand, At
<1>7. CASE DeleteDir(c)
  <2>1. [disk[i] EXCEPT !.dir = FALSE] \in Disk
    BY <1>1 DEF Disk
  <2>2. disk' = [disk EXCEPT ![i] = [disk[i] EXCEPT !.dir = FALSE]]
    BY <1>7 DEF DeleteDir
  <2>3. disk' \in [Ids -> Disk]
    BY <1>1, <2>1, <2>2, DiskType
  <2> QED BY <1>1, <1>7, <2>3, ReturnType DEF DeleteDir, TypeInv, TypeOK
<1> QED BY <1>3, <1>4, <1>5, <1>6, <1>7

LEMMA FaultType ==
    ASSUME TypeInv, NEW c \in Calls, Fault(c)
    PROVE  TypeInv'
<1>1. InFlight(c)
  <2>1. CASE IoError(c)
    BY <2>1 DEF IoError, InFlight, Idle
  <2>2. CASE Crash(c)
    BY <2>2 DEF Crash
  <2>3. CASE StartTimeout(c)
    BY <2>3 DEF StartTimeout, At, InFlight, Idle
  <2> QED BY <2>1, <2>2, <2>3 DEF Fault
<1>2. Return(c, FALSE) /\ UNCHANGED <<disk, proc>>
  BY DEF Fault, IoError, Crash, StartTimeout
<1> QED BY <1>1, <1>2, ReturnType DEF TypeInv, TypeOK

\* A process that runs a container's code belongs to a container.
Owned == \A p \in Pids : proc[p].st \in ContainerStates => proc[p].id \in Ids

LEMMA ProcStepType ==
    ASSUME TypeInv, Owned, NEW p \in Pids, ProcStep(p)
    PROVE  TypeInv'
<1> USE DEF ProcStates, LiveStates, ContainerStates, SetupStates, ReleasedStates, GoneStates
<1>0. proc[p] \in Proc
  BY DEF TypeInv, TypeOK
<1>1. UNCHANGED call => InHand'
  BY DEF TypeInv, InHand, At
<1>2. CASE \E st \in ProcStates : proc' = [proc EXCEPT ![p].st = st]
                                 /\ UNCHANGED <<disk, call, caller>>
  <2>1. PICK st \in ProcStates : proc' = [proc EXCEPT ![p] = [proc[p] EXCEPT !.st = st]]
    BY <1>2
  <2>2. [proc[p] EXCEPT !.st = st] \in Proc
    BY <1>0 DEF Proc
  <2> QED BY <1>1, <1>2, <2>1, <2>2, ProcType DEF TypeInv, TypeOK
<1>3. CASE InitOpenFifo(p) /\ disk[proc[p].id].fifo # None
  <2> DEFINE f == disk[proc[p].id].fifo
  <2>1. proc' = [proc EXCEPT ![p] = [proc[p] EXCEPT !.st = "rootfs", !.fifo = f]]
    BY <1>3 DEF InitOpenFifo
  <2>2. proc[p].id \in Ids
    BY <1>3 DEF InitOpenFifo, Owned
  <2>3. f \in Fifos \cup {None}
    BY <2>2 DEF TypeInv, TypeOK, Disk
  <2> HIDE DEF f
  <2>4. [proc[p] EXCEPT !.st = "rootfs", !.fifo = f] \in Proc
    BY <1>0, <2>3 DEF Proc
  <2> QED BY <1>1, <1>3, <2>1, <2>4, ProcType DEF InitOpenFifo, TypeInv, TypeOK
<1>4. CASE InitWrite(p) /\ Readers(proc[p].id, proc[p].fifo) # {}
  <2> DEFINE R == Readers(proc[p].id, proc[p].fifo)
  <2>1. [proc[p] EXCEPT !.st = "exec", !.fifo = None] \in Proc
    BY <1>0 DEF Proc
  <2>2. proc' = [proc EXCEPT ![p] = [proc[p] EXCEPT !.st = "exec", !.fifo = None]]
        /\ call' = [c \in Calls |-> IF c \in R THEN [call[c] EXCEPT !.pc = "gotbyte"]
                                               ELSE call[c]]
        /\ UNCHANGED <<disk, caller>>
    BY <1>4 DEF InitWrite
  <2>3. ASSUME NEW c \in R
        PROVE  /\ c \in Calls /\ call[c] \in Busy /\ call[c].op = "start"
               /\ call[c].st \in containerState
    <3>1. c \in Calls /\ call[c].op = "start" /\ call[c].pc \in {"reading", "gotbyte"}
      BY <2>3 DEF Readers
    <3> QED BY <3>1, InFlightBusy DEF PCs, TypeInv, InHand
  <2>4. ASSUME NEW c \in R
        PROVE  /\ [call[c] EXCEPT !.pc = "gotbyte"] \in Busy
               /\ [call[c] EXCEPT !.pc = "gotbyte"].op = "start"
               /\ [call[c] EXCEPT !.pc = "gotbyte"].st \in containerState
    BY <2>3 DEF Busy, PCs
  <2> HIDE DEF R
  <2>5. call' \in [Calls -> Busy \cup {Idle}]
    BY <2>2, <2>4 DEF TypeInv, TypeOK
  <2>6. InHand'
    BY <2>2, <2>4 DEF TypeInv, InHand, At
  <2> QED BY <2>1, <2>2, <2>5, <2>6, ProcType DEF TypeInv, TypeOK
<1>5. CASE Reap(p)
  <2>1. [Unused EXCEPT !.st = "reaped"] \in Proc
    BY DEF Unused, Proc
  <2> QED BY <1>1, <1>5, <2>1, ProcType DEF Reap, TypeInv, TypeOK
<1> QED
  BY <1>2, <1>3, <1>4, <1>5 DEF ProcStep, InitStep, InitOpenFifo, InitRootfs, InitOpenedLate,
     InitWrite, InitExec, ProcExit, KernelExit, OtherFork, Exit

LEMMA OwnedStep ==
    ASSUME TypeInv, Owned, [Next]_vars
    PROVE  Owned'
<1> USE DEF ContainerStates, SetupStates, ReleasedStates
<1>1. CASE UNCHANGED proc
  BY <1>1 DEF Owned
<1>2. ASSUME NEW c \in Calls, CreateFork(c) PROVE Owned'
  <2>1. call[c].id \in Ids
    BY <1>2, InFlightBusy DEF CreateFork, At, PCs
  <2> QED BY <1>2, <2>1 DEF CreateFork, FreePids, Owned, TypeInv, TypeOK
<1>3. ASSUME NEW c \in Calls, CreateCgroup(c) PROVE Owned'
  BY <1>3 DEF CreateCgroup, Owned, TypeInv, TypeOK, Proc
<1>4. ASSUME NEW c \in Calls, StartOpened(c) PROVE Owned'
  BY <1>4 DEF StartOpened, Writers, Owned, TypeInv, TypeOK, Proc
<1>5. ASSUME NEW p, proc' = Killed(p) PROVE Owned'
  BY <1>5 DEF Killed, LiveStates, Owned, TypeInv, TypeOK, Proc
<1>6. ASSUME NEW c \in Calls, KillSignal(c) \/ DeleteSignal(c) PROVE Owned'
  <2>1. proc' = proc \/ proc' = Killed(call[c].st.InitPid)
    BY <1>6 DEF KillSignal, DeleteSignal
  <2> QED BY <1>1, <1>5, <2>1
<1>7. ASSUME NEW p \in Pids, ProcStep(p) PROVE Owned'
  BY <1>7 DEF ProcStep, InitStep, InitOpenFifo, InitRootfs, InitOpenedLate, InitWrite, InitExec,
     ProcExit, KernelExit, OtherFork, Reap, Unused, Exit, Owned, TypeInv, TypeOK, Proc
<1> QED
  BY <1>1, <1>2, <1>3, <1>4, <1>6, <1>7
  DEF Next, CallStep, Fault, IoError, Crash, StartTimeout, Invoke, CreateMkdir, CreateMkfifo,
      CreatePidFile, WriteTrunc, WriteBody, StartRead, StartOpen, StartReadByte, StartUnlink,
      KillRead, DeleteRead, DeleteCgroup, DeleteEntry, DeleteDir, vars

LEMMA TypeStep ==
    ASSUME TypeInv, Owned, [Next]_vars
    PROVE  TypeInv' /\ Owned'
<1>1. CASE UNCHANGED vars
  BY <1>1, OwnedStep DEF vars, TypeInv, TypeOK, InHand, At
<1>2. ASSUME NEW c \in Calls, NEW op \in Commands, NEW i \in Ids, Invoke(c, op, i)
      PROVE  TypeInv'
  BY <1>2, InvokeType
<1>3. ASSUME NEW c \in Calls, CallStep(c) PROVE TypeInv'
  BY <1>3, CreateType, WriteType, StartType, KillType, DeleteType DEF CallStep
<1>4. ASSUME NEW c \in Calls, Fault(c) PROVE TypeInv'
  BY <1>4, FaultType
<1>5. ASSUME NEW p \in Pids, ProcStep(p) PROVE TypeInv'
  BY <1>5, ProcStepType
<1> QED BY <1>1, <1>2, <1>3, <1>4, <1>5, OwnedStep DEF Next

\* The types hold in every reachable state, for any constants: no step of
\* cmdCreate, cmdStart, cmdKill, cmdDelete or runcInit uses a pid, a fifo or a
\* record it does not have.
THEOREM TypeCorrect == Spec => []TypeOK
<1>1. Init => TypeInv /\ Owned
  <2>1. Init => Owned
    BY DEF Init, Owned, Unused, ContainerStates, SetupStates, ReleasedStates
  <2> QED BY <2>1, TypeInit
<1>2. TypeInv /\ Owned /\ [Next]_vars => (TypeInv /\ Owned)'
  BY TypeStep
<1>3. TypeInv => TypeOK
  BY DEF TypeInv
<1> QED BY <1>1, <1>2, <1>3, PTL DEF Spec

-----------------------------------------------------------------------------
(* The shim's serialisation, seen from the invocations.                    *)

\* What the shim thinks of a container agrees with the command it has in flight.
CallerAgrees ==
    \A c \in Calls :
        /\ call[c].op = "create" => caller[call[c].id] = "creating"
        /\ call[c].op = "start" => caller[call[c].id] = "starting"
        /\ call[c].op \in Deletes => caller[call[c].id] = "deleting"

\* Two commands in flight on one container: one of them is a kill.
Serialised ==
    \A c, d \in Calls :
        c # d /\ call[c].op \in Commands \ {"kill"} /\ call[d].op \in Commands \ {"kill"}
            => call[c].id # call[d].id

\* Every step lets the invocations go on as they are, ends one or begins one.
LEMMA StepShape ==
    ASSUME TypeInv, Owned, [Next]_vars
    PROVE  \/ /\ \A d \in Calls : call'[d].op = call[d].op /\ call'[d].id = call[d].id
              /\ UNCHANGED caller
           \/ \E c \in Calls, ok \in BOOLEAN : Return(c, ok)
           \/ \E c \in Calls, op \in Commands, i \in Ids : Invoke(c, op, i)
<1> DEFINE Same == /\ \A d \in Calls : call'[d].op = call[d].op /\ call'[d].id = call[d].id
                   /\ UNCHANGED caller
           Ends == \E c \in Calls, ok \in BOOLEAN : Return(c, ok)
<1>0. \A d \in Calls : call[d] \in Busy \cup {Idle}
  BY DEF TypeInv, TypeOK
<1>1. ASSUME NEW c \in Calls, NEW pc, Goto(c, pc), UNCHANGED caller PROVE Same
  BY <1>0, <1>1 DEF Goto, TypeInv, TypeOK, Busy, Idle
<1>2. UNCHANGED <<call, caller>> => Same
  OBVIOUS
<1>a. ASSUME NEW c \in Calls, NEW b, call' = [call EXCEPT ![c] = b], UNCHANGED caller,
             b.op = call[c].op, b.id = call[c].id
      PROVE  Same
  BY <1>a DEF TypeInv, TypeOK
<1>3. ASSUME NEW c \in Calls, CreateFork(c) \/ CreateCgroup(c) PROVE Same
  <2>1. CASE CreateFork(c)
    <3>1. PICK p \in Pids :
              call' = [call EXCEPT ![c] = [call[c] EXCEPT !.pc = "cgroup", !.pid = p]]
      BY <2>1 DEF CreateFork, FreePids
    <3>2. /\ [call[c] EXCEPT !.pc = "cgroup", !.pid = p].op = call[c].op
          /\ [call[c] EXCEPT !.pc = "cgroup", !.pid = p].id = call[c].id
      BY <1>0 DEF Busy, Idle
    <3> QED BY <1>a, <2>1, <3>1, <3>2 DEF CreateFork
  <2>2. CASE CreateCgroup(c)
    <3> DEFINE r(m) == [InitPid |-> call[c].pid, Status |-> "created", CgroupPath |-> m]
    <3>2. PICK m \in BOOLEAN :
              call' = [call EXCEPT ![c] = [call[c] EXCEPT !.pc = "trunc", !.st = r(m)]]
      BY <2>2, ZenonT(40) DEF CreateCgroup
    <3> HIDE DEF r
    <3>3. /\ [call[c] EXCEPT !.pc = "trunc", !.st = r(m)].op = call[c].op
          /\ [call[c] EXCEPT !.pc = "trunc", !.st = r(m)].id = call[c].id
      BY <1>0 DEF Busy, Idle
    <3> QED BY <1>a, <2>2, <3>2, <3>3 DEF CreateCgroup
  <2> QED BY <1>3, <2>1, <2>2
<1>4. ASSUME NEW c \in Calls, StartReadByte(c) \/ StartUnlink(c) PROVE Same
  BY <1>0, <1>4 DEF StartReadByte, StartUnlink, TypeInv, TypeOK, Busy, Idle
<1>5. ASSUME NEW c \in Calls, StartRead(c) \/ StartOpen(c) \/ KillRead(c) \/ DeleteRead(c)
      PROVE  Same \/ Ends
  <2> DEFINE reads(pc, st) == [call[c] EXCEPT !.pc = pc, !.st = st]
             opens == [call[c] EXCEPT !.pc = "opening", !.fifo = disk[call[c].id].fifo]
  <2>1. \/ Return(c, FALSE) \/ Return(c, TRUE)
        \/ /\ UNCHANGED caller
           /\ \/ call' = [call EXCEPT ![c] = reads("open", disk[call[c].id].file)]
              \/ call' = [call EXCEPT ![c] = reads("signal", disk[call[c].id].file)]
              \/ call' = [call EXCEPT ![c] = opens]
    BY <1>5 DEF StartRead, StartOpen, KillRead, DeleteRead
  <2>2. \A pc, st : reads(pc, st).op = call[c].op /\ reads(pc, st).id = call[c].id
    BY <1>0 DEF Busy, Idle
  <2>3. opens.op = call[c].op /\ opens.id = call[c].id
    BY <1>0 DEF Busy, Idle
  <2> HIDE DEF reads, opens
  <2>4. CASE UNCHANGED caller /\ call' = [call EXCEPT ![c] = reads("open", disk[call[c].id].file)]
    BY <1>a, <2>2, <2>4
  <2>5. CASE UNCHANGED caller /\ call' = [call EXCEPT ![c] = reads("signal", disk[call[c].id].file)]
    BY <1>a, <2>2, <2>5
  <2>6. CASE UNCHANGED caller /\ call' = [call EXCEPT ![c] = opens]
    BY <1>a, <2>3, <2>6
  <2>7. CASE Return(c, FALSE) \/ Return(c, TRUE)
    BY <2>7
  <2> QED BY <2>1, <2>4, <2>5, <2>6, <2>7
<1>6. ASSUME NEW c \in Calls, Fault(c) \/ CreatePidFile(c) \/ KillSignal(c) \/ DeleteDir(c)
      PROVE  Ends
  BY <1>6 DEF Fault, IoError, Crash, StartTimeout, CreatePidFile, KillSignal, DeleteDir
<1>7. ASSUME NEW c \in Calls, WriteTrunc(c) \/ WriteBody(c) PROVE Same \/ Ends
  <2>1. \/ Return(c, FALSE) \/ Return(c, TRUE)
        \/ Goto(c, "write") /\ UNCHANGED caller
        \/ Goto(c, "pidfile") /\ UNCHANGED caller
    BY <1>7 DEF WriteTrunc, WriteBody
  <2> QED BY <1>1, <2>1
<1>8. ASSUME NEW p \in Pids, ProcStep(p) PROVE Same
  <2>1. CASE UNCHANGED <<call, caller>>
    BY <2>1
  <2>2. CASE InitWrite(p)
    <3> DEFINE R == Readers(proc[p].id, proc[p].fifo)
    <3>1. UNCHANGED caller /\ (UNCHANGED call \/ call' = [c \in Calls |-> IF c \in R
                           THEN [call[c] EXCEPT !.pc = "gotbyte"] ELSE call[c]])
      BY <2>2 DEF InitWrite
    <3> HIDE DEF R
    <3> QED BY <1>0, <3>1 DEF Busy, Idle
  <2> QED BY <1>8, <2>1, <2>2 DEF ProcStep, InitStep, InitOpenFifo, InitRootfs, InitOpenedLate,
             InitExec, ProcExit, KernelExit, Reap, OtherFork
<1>9. ASSUME NEW c \in Calls, CallStep(c) PROVE Same \/ Ends
  <2>1. ASSUME CreateMkdir(c) \/ CreateMkfifo(c) \/ StartOpened(c) \/ DeleteSignal(c)
               \/ DeleteCgroup(c)
        PROVE  Same
    BY <1>1, <2>1 DEF CreateMkdir, CreateMkfifo, StartOpened, DeleteSignal, DeleteCgroup
  <2>2. ASSUME DeleteEntry(c) PROVE Same
    BY <2>2 DEF DeleteEntry
  <2> HIDE DEF Same, Ends
  <2> QED BY <1>3, <1>4, <1>5, <1>6, <1>7, <1>9, <2>1, <2>2 DEF CallStep
<1> HIDE DEF Same, Ends
<1>10. Same \/ Ends \/ \E c \in Calls, op \in Commands, i \in Ids : Invoke(c, op, i)
  BY <1>2, <1>6, <1>8, <1>9 DEF Next, vars
<1> QED BY <1>10 DEF Same, Ends

LEMMA SerialStep ==
    ASSUME TypeInv, Owned, CallerAgrees, Serialised, [Next]_vars
    PROVE  CallerAgrees' /\ Serialised'
<1> USE DEF Commands, Deletes
<1>0. \A d \in Calls : call[d] \in Busy \cup {Idle}
  BY DEF TypeInv, TypeOK
<1>1. \A d \in Calls : call[d].op \in Commands => call[d].id \in Ids
  BY <1>0 DEF Busy, Idle
<1>2. CASE /\ \A d \in Calls : call'[d].op = call[d].op /\ call'[d].id = call[d].id
           /\ UNCHANGED caller
  BY <1>2 DEF CallerAgrees, Serialised
<1>3. ASSUME NEW c \in Calls, NEW ok \in BOOLEAN, Return(c, ok)
      PROVE  CallerAgrees' /\ Serialised'
  <2>1. /\ call'[c].op = "none"
        /\ \A d \in Calls : d # c => call'[d] = call[d]
    BY <1>3 DEF Return, Idle, TypeInv, TypeOK
  <2>2. Serialised'
    BY <2>1 DEF Serialised
  <2>3. CASE call[c].op \notin Commands \ {"kill"}
    <3>1. call[c] = Idle \/ call[c].op = "kill"
      BY <1>0, <2>3 DEF Busy
    <3>2. CASE call[c].op = "kill"
      <4>1. caller' = caller
        BY <1>3, <3>2 DEF Return
      <4> QED BY <2>1, <2>2, <4>1 DEF CallerAgrees
    <3>3. CASE call[c] = Idle
      <4>1. \A j \in Ids : caller'[j] = caller[j]
        BY <1>3, <3>3, ConstantsAssumption DEF Return, Idle, TypeInv, TypeOK
      <4> QED BY <1>1, <2>1, <2>2, <4>1 DEF CallerAgrees
    <3> QED BY <3>1, <3>2, <3>3
  <2>4. CASE call[c].op \in Commands \ {"kill"}
    <3>1. \A j \in Ids : j # call[c].id => caller'[j] = caller[j]
      BY <1>3, <2>4 DEF Return, TypeInv, TypeOK
    <3>2. ASSUME NEW d \in Calls, call'[d].op \in Commands \ {"kill"}
          PROVE  caller'[call'[d].id] = caller[call[d].id] /\ call'[d] = call[d]
      BY <1>1, <2>1, <2>4, <3>1, <3>2 DEF Serialised
    <3> QED BY <2>2, <3>2 DEF CallerAgrees
  <2> QED BY <2>3, <2>4
<1>4. ASSUME NEW c \in Calls, NEW op \in Commands, NEW i \in Ids, Invoke(c, op, i)
      PROVE  CallerAgrees' /\ Serialised'
  <2>1. /\ call'[c].op = op /\ call'[c].id = i
        /\ \A d \in Calls : d # c => call'[d] = call[d]
        /\ caller' = [caller EXCEPT ![i] = Pending(op, i)]
    BY <1>4 DEF Invoke, TypeInv, TypeOK
  <2>2. op # "kill" => \A d \in Calls : call[d].id = i => call[d].op = "kill"
    BY <1>4 DEF Invoke, MayInvoke, Serial
  <2>3. Serialised'
    BY <2>1, <2>2 DEF Serialised
  <2>4. CASE op = "kill"
    <3>1. caller' = caller
      BY <2>1, <2>4 DEF Pending, TypeInv, TypeOK
    <3> QED BY <2>1, <2>3, <2>4, <3>1 DEF CallerAgrees
  <2>5. CASE op # "kill"
    <3>1. caller'[i] = Pending(op, i) /\ \A j \in Ids : j # i => caller'[j] = caller[j]
      BY <2>1 DEF TypeInv, TypeOK
    <3>2. ASSUME NEW d \in Calls, d # c, call'[d].op \in Commands \ {"kill"}
          PROVE  caller'[call'[d].id] = caller[call[d].id] /\ call'[d] = call[d]
      BY <1>1, <2>1, <2>2, <2>5, <3>1, <3>2
    <3> QED BY <2>1, <2>3, <2>5, <3>1, <3>2 DEF CallerAgrees, Pending
  <2> QED BY <2>4, <2>5
<1> QED BY <1>2, <1>3, <1>4, StepShape

-----------------------------------------------------------------------------
(* No user process outside its cgroup.                                     *)

\* The create that forked an init which is not in its cgroup yet is still there,
\* and about to put it there.
UnplacedHasCreate ==
    \A p \in Pids : proc[p].st \in ContainerStates /\ proc[p].cg = "none" =>
        \E c \in Calls : At(c, "create", "cgroup") /\ call[c].pid = p
                           /\ call[c].id = proc[p].id

IInv == TypeInv /\ Owned /\ CallerAgrees /\ Serialised /\ UnplacedHasCreate /\ UserPlaced

\* While a start is in flight no process of its container is unplaced.
LEMMA StartSeesPlaced ==
    ASSUME IInv, NEW c \in Calls, call[c].op = "start", NEW p \in Pids,
           proc[p].id = call[c].id, proc[p].st \in ContainerStates
    PROVE  proc[p].cg # "none"
  BY DEF IInv, UnplacedHasCreate, CallerAgrees, At

\* A create at its cgroup step stays there until it takes that step: without a
\* crash nothing else ends it.
LEMMA CreateStays ==
    ASSUME IInv, "crash" \notin Faults, [Next]_vars, NEW c \in Calls,
           At(c, "create", "cgroup"), ~CreateCgroup(c)
    PROVE  call'[c] = call[c]
<1>0. call \in [Calls -> Busy \cup {Idle}] /\ call[c].op = "create" /\ call[c].pc = "cgroup"
  BY DEF IInv, TypeInv, TypeOK, At
<1>1. ASSUME NEW d \in Calls, d # c, CallStep(d) \/ Fault(d) \/
                 \E op \in Commands, i \in Ids : Invoke(d, op, i)
      PROVE  call'[c] = call[c]
  BY <1>0, <1>1 DEF CallStep, Fault, IoError, Crash, StartTimeout, Invoke, CreateMkdir,
     CreateMkfifo, CreateFork, CreateCgroup, CreatePidFile, WriteTrunc, WriteBody, StartRead,
     StartOpen, StartOpened, StartReadByte, StartUnlink, KillRead, KillSignal, DeleteRead,
     DeleteSignal, DeleteCgroup, DeleteEntry, DeleteDir, Return, Goto
<1>2. ~Fault(c) /\ \A op \in Commands, i \in Ids : ~Invoke(c, op, i)
  <2>1. call[c] # Idle
    BY <1>0 DEF Idle
  <2>2. ~IoError(c) /\ ~StartTimeout(c) /\ ~Crash(c)
    BY <1>0 DEF IoError, StartTimeout, Crash, At
  <2> QED BY <2>1, <2>2 DEF Fault, Invoke, InFlight
<1>3. ~CallStep(c)
  BY <1>0 DEF CallStep, CreateMkdir, CreateMkfifo, CreateFork, CreatePidFile, WriteTrunc,
     WriteBody, StartRead, StartOpen, StartOpened, StartReadByte, StartUnlink, KillRead,
     KillSignal, DeleteRead, DeleteSignal, DeleteCgroup, DeleteEntry, DeleteDir, At, Deletes
<1>4. ASSUME NEW p \in Pids, ProcStep(p) PROVE call'[c] = call[c]
  <2>1. CASE InitWrite(p)
    <3>1. c \notin Readers(proc[p].id, proc[p].fifo)
      BY <1>0 DEF Readers
    <3> QED BY <2>1, <3>1 DEF InitWrite
  <2> QED BY <1>4, <2>1 DEF ProcStep, InitStep, InitOpenFifo, InitRootfs, InitOpenedLate, InitExec,
             ProcExit, KernelExit, Reap, OtherFork
<1> QED BY <1>1, <1>2, <1>3, <1>4 DEF Next, vars

\* What a step does to one process, as far as its placement is concerned.
LEMMA ProcShape ==
    ASSUME IInv, [Next]_vars, NEW p \in Pids, proc'[p].st \in ContainerStates
    PROVE  \/ /\ proc'[p].id = proc[p].id /\ proc'[p].cg = proc[p].cg
              /\ proc[p].st \in ContainerStates
              /\ proc'[p].st \in ReleasedStates =>
                    \/ proc[p].st \in ReleasedStates
                    \/ \E c \in Calls : call[c].op = "start" /\ call[c].id = proc[p].id
           \/ \E c \in Calls : CreateFork(c) /\ call'[c].pid = p /\ proc'[p].st = "init"
                                /\ proc'[p].id = call[c].id
           \/ \E c \in Calls : CreateCgroup(c) /\ (call[c].pid = p => proc'[p].cg # "none")
                                /\ proc'[p].id = proc[p].id
                                /\ (call[c].pid # p => proc'[p].cg = proc[p].cg)
                                /\ proc'[p].st = proc[p].st
<1> USE DEF ContainerStates, SetupStates, ReleasedStates
<1>0. proc \in [Pids -> Proc] /\ call \in [Calls -> Busy \cup {Idle}]
  BY DEF IInv, TypeInv, TypeOK
<1>1. CASE UNCHANGED proc
  BY <1>1
<1>2. ASSUME NEW c \in Calls, CreateFork(c), ~UNCHANGED proc[p]
      PROVE  CreateFork(c) /\ call'[c].pid = p /\ proc'[p].st = "init"
             /\ proc'[p].id = call[c].id
  <2>1. PICK q \in Pids : /\ proc' = [proc EXCEPT ![q] = [st |-> "init", id |-> call[c].id,
                                               fifo |-> None, cg |-> "none"]]
                          /\ call' = [call EXCEPT ![c] = [call[c] EXCEPT !.pc = "cgroup", !.pid = q]]
    BY <1>2, ZenonT(40) DEF CreateFork, FreePids
  <2>2. q = p
    BY <1>0, <1>2, <2>1
  <2>3. [call[c] EXCEPT !.pc = "cgroup", !.pid = q].pid = q
    BY <1>0 DEF Busy, Idle
  <2> QED BY <1>0, <1>2, <2>1, <2>2, <2>3
<1>3. ASSUME NEW c \in Calls, CreateCgroup(c)
      PROVE  /\ call[c].pid = p => proc'[p].cg # "none"
             /\ call[c].pid # p => proc'[p].cg = proc[p].cg
             /\ proc'[p].id = proc[p].id /\ proc'[p].st = proc[p].st
  BY <1>0, <1>3 DEF CreateCgroup, Proc
<1>4. ASSUME NEW c \in Calls, StartOpened(c)
      PROVE  /\ proc'[p].id = proc[p].id /\ proc'[p].cg = proc[p].cg
             /\ proc[p].st \in ContainerStates
             /\ proc'[p].st \in ReleasedStates =>
                   \/ proc[p].st \in ReleasedStates
                   \/ call[c].op = "start" /\ call[c].id = proc[p].id
  BY <1>0, <1>4 DEF StartOpened, Writers, At, Proc
<1>5. ASSUME NEW q, proc' = Killed(q)
      PROVE  proc'[p] = proc[p]
  BY <1>0, <1>5 DEF Killed, Proc
<1>6. ASSUME NEW c \in Calls, KillSignal(c) \/ DeleteSignal(c)
      PROVE  proc'[p] = proc[p]
  <2>1. proc' = proc \/ proc' = Killed(call[c].st.InitPid)
    BY <1>6 DEF KillSignal, DeleteSignal
  <2> QED BY <1>5, <2>1
<1>7. ASSUME NEW q \in Pids, ProcStep(q)
      PROVE  /\ proc'[p].id = proc[p].id /\ proc'[p].cg = proc[p].cg
             /\ proc[p].st \in ContainerStates
             /\ proc'[p].st \in ReleasedStates =>
                    \/ proc[p].st \in ReleasedStates
                    \/ \E c \in Calls : call[c].op = "start" /\ call[c].id = proc[p].id
  <2>1. CASE InitOpenedLate(q)
    <3>1. \E c \in Calls : call[c].op = "start" /\ call[c].id = proc[q].id
      BY <2>1 DEF InitOpenedLate, Readers
    <3> QED BY <1>0, <2>1, <3>1 DEF InitOpenedLate, Proc
  <2>2. CASE ~InitOpenedLate(q)
    BY <1>0, <1>7, <2>2 DEF ProcStep, InitStep, InitOpenFifo, InitRootfs, InitWrite, InitExec,
       ProcExit, KernelExit, OtherFork, Reap, Unused, Exit, Proc
  <2> QED BY <2>1, <2>2
<1>8. ASSUME proc'[p] = proc[p]
      PROVE  /\ proc'[p].id = proc[p].id /\ proc'[p].cg = proc[p].cg
             /\ proc[p].st \in ContainerStates
             /\ proc'[p].st \in ReleasedStates => proc[p].st \in ReleasedStates
  BY <1>8
<1>9. \/ proc'[p] = proc[p]
      \/ \E c \in Calls : CreateFork(c) \/ CreateCgroup(c) \/ StartOpened(c)
                           \/ KillSignal(c) \/ DeleteSignal(c)
      \/ \E q \in Pids : ProcStep(q)
  BY DEF Next, CallStep, Fault, IoError, Crash, StartTimeout, Invoke, CreateMkdir, CreateMkfifo,
      CreatePidFile, WriteTrunc, WriteBody, StartRead, StartOpen, StartReadByte, StartUnlink,
      KillRead, DeleteRead, DeleteCgroup, DeleteEntry, DeleteDir, vars
<1> QED BY <1>2, <1>3, <1>4, <1>6, <1>7, <1>8, <1>9

LEMMA PlacedStep ==
    ASSUME IInv, "crash" \notin Faults, [Next]_vars
    PROVE  UnplacedHasCreate' /\ UserPlaced'
<1>1. ASSUME NEW p \in Pids, proc'[p].st \in ReleasedStates
      PROVE  proc'[p].cg # "none"
  BY <1>1, ProcShape, StartSeesPlaced DEF IInv, UserPlaced, ContainerStates, SetupStates,
     ReleasedStates
<1>2. ASSUME NEW p \in Pids, proc'[p].st \in ContainerStates, proc'[p].cg = "none"
      PROVE  \E c \in Calls : At(c, "create", "cgroup")' /\ call'[c].pid = p
                               /\ call'[c].id = proc'[p].id
  <2> USE DEF ContainerStates, SetupStates
  <2>0. call \in [Calls -> Busy \cup {Idle}]
    BY DEF IInv, TypeInv, TypeOK
  <2>1. ASSUME proc[p].st \in ContainerStates, proc[p].cg = "none", proc'[p].id = proc[p].id,
               \A c \in Calls : CreateCgroup(c) => call[c].pid # p
        PROVE  \E c \in Calls : At(c, "create", "cgroup")' /\ call'[c].pid = p
                               /\ call'[c].id = proc'[p].id
    <3>1. PICK c \in Calls : At(c, "create", "cgroup") /\ call[c].pid = p
                             /\ call[c].id = proc[p].id
      BY <2>1 DEF IInv, UnplacedHasCreate
    <3>2. call'[c] = call[c]
      BY <2>1, <3>1, CreateStays
    <3> QED BY <2>1, <3>1, <3>2 DEF At
  <2>2. ASSUME NEW c \in Calls, CreateFork(c), call'[c].pid = p, proc'[p].id = call[c].id
        PROVE  At(c, "create", "cgroup")' /\ call'[c].id = proc'[p].id
    <3>1. PICK q : call' = [call EXCEPT ![c] = [call[c] EXCEPT !.pc = "cgroup", !.pid = q]]
      BY <2>2 DEF CreateFork
    <3>2. call[c].op = "create"
      BY <2>2 DEF CreateFork, At
    <3>3. LET b == [call[c] EXCEPT !.pc = "cgroup", !.pid = q]
          IN  b.op = "create" /\ b.pc = "cgroup" /\ b.id = call[c].id
      BY <2>0, <3>2 DEF Busy, Idle
    <3> QED BY <2>0, <2>2, <3>1, <3>3 DEF At
  <2>3. ASSUME NEW c \in Calls, CreateCgroup(c), NEW d \in Calls, CreateCgroup(d),
               call[d].pid = p
        PROVE  proc'[p].cg # "none"
    <3>1. p \in Pids /\ proc \in [Pids -> Proc]
      BY DEF IInv, TypeInv, TypeOK
    <3> QED BY <2>3, <3>1 DEF CreateCgroup, Proc
  <2> QED BY <1>2, <2>1, <2>2, <2>3, ProcShape
<1> QED BY <1>1, <1>2 DEF UnplacedHasCreate, UserPlaced

\* "The init is blocked, so it cannot escape its limits" (cmdCreate), for any number
\* of containers, invocations and processes, with pids recycled and calls failing:
\* as long as no invocation is killed half way, a container's program runs only
\* after applyCgroup was through with its pid.
THEOREM CgroupBeforeUser ==
    ASSUME "crash" \notin Faults
    PROVE  Spec => []UserPlaced
<1>1. Init => IInv
  <2>1. Init => TypeInv
    BY TypeInit
  <2>2. Init => Owned /\ UnplacedHasCreate /\ UserPlaced
    BY DEF Init, Owned, UnplacedHasCreate, UserPlaced, Unused, ContainerStates, SetupStates,
       ReleasedStates
  <2>3. Init => CallerAgrees /\ Serialised
    BY DEF Init, CallerAgrees, Serialised, Idle, Commands, Deletes
  <2> QED BY <2>1, <2>2, <2>3 DEF IInv
<1>2. IInv /\ [Next]_vars => IInv'
  <2> SUFFICES ASSUME IInv, [Next]_vars PROVE IInv'
    OBVIOUS
  <2>1. TypeInv' /\ Owned'
    BY TypeStep DEF IInv
  <2>2. CallerAgrees' /\ Serialised'
    BY SerialStep DEF IInv
  <2>3. UnplacedHasCreate' /\ UserPlaced'
    BY PlacedStep
  <2> QED BY <2>1, <2>2, <2>3 DEF IInv
<1>3. IInv => UserPlaced
  BY DEF IInv
<1> QED BY <1>1, <1>2, <1>3, PTL DEF Spec
=============================================================================
