-------------------------- MODULE OciSerialProofs ---------------------------
(***************************************************************************)
(* The bookkeeping of the OCI runtime, for any number of containers,       *)
(* invocations, pids and fifos, with pids recycled and starts timing out:  *)
(* what state.json and the commands in flight know of the container's      *)
(* process.  As long as no call fails half way and no invocation is        *)
(* killed, they know all of it.                                            *)
(***************************************************************************)
EXTENDS OciRuntimeProofs

-----------------------------------------------------------------------------
(* The inductive invariant.  It relates a container's directory d, the set *)
(* L of its live processes, whether all of them were let go, and, in turn, *)
(* a command b in flight on it and what the shim knows, k.                 *)

Released(i) == \A p \in LiveOf(i) : proc[p].st \in ReleasedStates

Recorded(d, L) == d.file \in containerState /\ L \subseteq {d.file.InitPid}

\* A create: nothing lives before the fork, and then the process it has the pid of.
CreateOK(b, d, L) ==
    /\ b.pc \in {"mkdir", "mkfifo", "fork"} => L = {}
    /\ b.pc # "pidfile" => d.file \notin containerState
    /\ b.pc # "mkdir" => d.dir
    /\ b.pc \in {"cgroup", "trunc", "write", "pidfile"} => L \subseteq {b.pid}
    /\ b.pc \in {"trunc", "write", "pidfile"} =>
          b.st \in containerState /\ b.st.InitPid = b.pid /\ b.st.Status = "created"
    /\ b.pc = "pidfile" => d.file = b.st

\* A start: the process is the recorded one, and from the open on it was let go.
StartOK(b, d, L, free) ==
    /\ d.dir
    /\ b.pc # "write" => Recorded(d, L)
    /\ b.pc \notin {"read", "write"} => b.st.InitPid = d.file.InitPid
    /\ b.pc = "write" => L \subseteq {b.st.InitPid}
    /\ b.pc \in {"reading", "gotbyte", "unlink", "trunc", "write"} => free

\* A delete: the process is the recorded one, and after the signal there is none.
DeleteOK(b, d, L) ==
    /\ b.op = "delete" => L = {}
    /\ b.pc = "read" => Recorded(d, L)
    /\ b.pc = "signal" => L \subseteq {b.st.InitPid}
    /\ b.pc \in {"rmcg", "rmall"} => L = {}

CallOK(b, d, L, free) ==
    /\ b.op = "create" => CreateOK(b, d, L)
    /\ b.op = "start" => StartOK(b, d, L, free)
    /\ b.op \in Deletes => DeleteOK(b, d, L)

\* A container between two commands.
ShimOK(k, d, L, free) ==
    /\ k = "absent" => L = {} /\ ~d.dir /\ d.fifo = None /\ d.file = None
    /\ k \in {"created", "running", "failed"} => d.dir /\ Recorded(d, L)
    /\ d.file \in containerState /\ d.file.Status = "running" => free

Books ==
    /\ \A c \in Calls : LET i == call[c].id IN
          i \in Ids => CallOK(call[c], disk[i], LiveOf(i), Released(i))
    /\ \A i \in Ids : ShimOK(caller[i], disk[i], LiveOf(i), Released(i))

\* The shim waits for a start that is in flight.
Waiting ==
    \A i \in Ids : caller[i] = "starting" =>
        \E c \in Calls : call[c].op = "start" /\ call[c].id = i

\* The steps of a command are its own.
Program(b) ==
    /\ b.op = "create" => b.pc \in {"mkdir", "mkfifo", "fork", "cgroup", "trunc", "write", "pidfile"}
    /\ b.op = "start" => b.pc \in {"read", "open", "opening", "reading", "gotbyte", "unlink",
                                   "trunc", "write"}
    /\ b.op = "kill" => b.pc \in {"read", "signal"}
    /\ b.op \in Deletes => b.pc \in {"read", "signal", "rmcg", "rmall"}

Programs == \A c \in Calls : Program(call[c])

Common == TypeInv /\ Owned /\ CallerAgrees /\ Serialised /\ Programs

SInv == Common /\ Books /\ Waiting

-----------------------------------------------------------------------------
(* For any faults: what a record, or a command about to write one, names   *)
(* is not among the container's processes that no applyCgroup has seen, U. *)

Unplaced(i) == {p \in LiveOf(i) : proc[p].cg = "none"}

\* A create has no record on the disk before it wrote its own.
CallPlaced(b, d, U) ==
    /\ b.op = "create" /\ b.pc # "pidfile" => d.file \notin containerState
    /\ b.op = "create" /\ b.pc \in {"trunc", "write"} => b.st \in containerState
    /\ \/ b.op = "create" /\ b.pc \in {"trunc", "write"}
       \/ b.op = "start" /\ b.pc # "read"
       => b.st.InitPid \notin U

ShimPlaced(k, d, U) ==
    /\ k = "absent" => d.file \notin containerState
    /\ d.file \in containerState => d.file.InitPid \notin U

RecordInv ==
    /\ \A c \in Calls : LET i == call[c].id IN
          i \in Ids => CallPlaced(call[c], disk[i], Unplaced(i))
    /\ \A i \in Ids : ShimPlaced(caller[i], disk[i], Unplaced(i))

RInv == Common /\ RecordInv
-----------------------------------------------------------------------------
(* What a step leaves alone.                                               *)

\* An invocation changes its own record, and its own container's directory.
OnlyCall(c) == \A d \in Calls : d # c => call'[d] = call[d]
OnlyId(i) == \A j \in Ids : j # i => disk'[j] = disk[j] /\ caller'[j] = caller[j]

LEMMA ReturnOnly ==
    ASSUME TypeInv, NEW c \in Calls, NEW ok, Return(c, ok), UNCHANGED disk
    PROVE  OnlyCall(c) /\ OnlyId(call[c].id) /\ call'[c] = Idle
  BY DEF TypeInv, TypeOK, Return, OnlyCall, OnlyId

LEMMA CallOnly ==
    ASSUME TypeInv, NEW c \in Calls, CallStep(c) \/ Fault(c)
    PROVE  OnlyCall(c) /\ OnlyId(call[c].id)
<1> USE DEF OnlyCall, OnlyId, TypeInv, TypeOK
<1>1. CASE CreateMkdir(c) \/ CreateMkfifo(c) \/ CreateFork(c) \/ CreateCgroup(c) \/ CreatePidFile(c)
  BY <1>1 DEF CreateMkdir, CreateMkfifo, CreateFork, CreateCgroup, CreatePidFile, Goto, Return
<1>2. CASE WriteTrunc(c) \/ WriteBody(c)
  BY <1>2 DEF WriteTrunc, WriteBody, Goto, Return
<1>3. CASE StartRead(c) \/ StartOpen(c) \/ StartOpened(c) \/ StartReadByte(c) \/ StartUnlink(c)
  BY <1>3 DEF StartRead, StartOpen, StartOpened, StartReadByte, StartUnlink, Goto, Return
<1>4. CASE KillRead(c) \/ KillSignal(c)
  BY <1>4 DEF KillRead, KillSignal, Return
<1>5. CASE DeleteRead(c) \/ DeleteSignal(c) \/ DeleteCgroup(c) \/ DeleteEntry(c) \/ DeleteDir(c)
  BY <1>5 DEF DeleteRead, DeleteSignal, DeleteCgroup, DeleteEntry, DeleteDir, Goto, Return
<1>6. CASE Fault(c)
  BY <1>6, ReturnOnly DEF Fault, IoError, Crash, StartTimeout
<1> QED BY <1>1, <1>2, <1>3, <1>4, <1>5, <1>6 DEF CallStep

\* One process: unless it is forked now, it ran the container's code before, in the
\* same container, and whoever was let go stays so; its placement changes only in
\* the create that has its pid.
KeptProc(p) ==
    proc'[p].st \in ContainerStates =>
        /\ proc'[p].id = proc[p].id /\ proc[p].st \in ContainerStates
        /\ proc[p].st \in ReleasedStates => proc'[p].st \in ReleasedStates
        /\ proc[p].cg # "none" => proc'[p].cg # "none"

LEMMA SignalKeeps ==
    ASSUME TypeInv, NEW q, proc' = proc \/ proc' = Killed(q), NEW p \in Pids
    PROVE  KeptProc(p)
  BY DEF TypeInv, TypeOK, Proc, Killed, KeptProc, LiveStates, ContainerStates, SetupStates, ReleasedStates

LEMMA ProcKeeps ==
    ASSUME TypeInv, NEW q \in Pids, ProcStep(q), NEW p \in Pids
    PROVE  KeptProc(p)
<1>0. proc \in [Pids -> Proc]
  BY DEF TypeInv, TypeOK
<1>1. CASE InitOpenFifo(q) \/ InitRootfs(q) \/ InitOpenedLate(q) \/ InitExec(q)
  BY <1>0, <1>1 DEF InitOpenFifo, InitRootfs, InitOpenedLate, InitExec, Exit, KeptProc,
     ContainerStates, SetupStates, ReleasedStates, Proc
<1>2. CASE InitWrite(q)
  BY <1>0, <1>2 DEF InitWrite, Exit, KeptProc, ContainerStates, SetupStates, ReleasedStates, Proc
<1>3. CASE ProcExit(q) \/ KernelExit(q) \/ Reap(q) \/ OtherFork(q)
  BY <1>0, <1>3 DEF ProcExit, KernelExit, Reap, OtherFork, Unused, Exit, KeptProc, ContainerStates,
     SetupStates, ReleasedStates, Proc
<1> QED BY <1>1, <1>2, <1>3 DEF ProcStep, InitStep

LEMMA CallKeeps ==
    ASSUME TypeInv, NEW c \in Calls, CallStep(c) \/ Fault(c), ~CreateFork(c), NEW p \in Pids
    PROVE  KeptProc(p)
<1>0. proc \in [Pids -> Proc]
  BY DEF TypeInv, TypeOK
<1>1. CASE UNCHANGED proc
  BY <1>1 DEF KeptProc
<1>2. CASE CreateCgroup(c)
  BY <1>0, <1>2 DEF CreateCgroup, KeptProc, Proc
<1>3. CASE StartOpened(c)
  BY <1>0, <1>3 DEF StartOpened, Writers, KeptProc, ContainerStates, SetupStates, ReleasedStates, Proc
<1>4. CASE KillSignal(c) \/ DeleteSignal(c)
  <2>1. proc' = proc \/ proc' = Killed(call[c].st.InitPid)
    BY <1>4 DEF KillSignal, DeleteSignal
  <2> QED BY <2>1, SignalKeeps
<1> QED BY <1>1, <1>2, <1>3, <1>4 DEF CallStep, Fault, IoError, Crash, StartTimeout, CreateMkdir,
      CreateMkfifo, CreatePidFile, WriteTrunc, WriteBody, StartRead, StartOpen, StartReadByte,
      StartUnlink, KillRead, DeleteRead, DeleteCgroup, DeleteEntry, DeleteDir

\* A fork changes one process, into one of the create's container.
LEMMA ForkKeeps ==
    ASSUME TypeInv, NEW c \in Calls, CreateFork(c)
    PROVE  \E q \in Pids : /\ call' = [call EXCEPT ![c] = [call[c] EXCEPT !.pc = "cgroup", !.pid = q]]
                           /\ proc'[q].id = call[c].id /\ proc'[q].st \notin ReleasedStates
                           /\ \A p \in Pids \ {q} : proc'[p] = proc[p]
<1>1. PICK q \in FreePids :
          /\ proc' = [proc EXCEPT ![q] = [st |-> "init", id |-> call[c].id,
                                          fifo |-> None, cg |-> "none"]]
          /\ call' = [call EXCEPT ![c].pc = "cgroup", ![c].pid = q]
  BY DEF CreateFork
<1>2. q \in Pids
  BY DEF FreePids
<1> QED BY <1>1, <1>2 DEF TypeInv, TypeOK, ReleasedStates

\* The processes of a container that is not forked for: fewer, and let go if they
\* were.
Shrinks(i) == LiveOf(i)' \subseteq LiveOf(i) /\ (Released(i) => Released(i)')

LEMMA KeptShrinks ==
    ASSUME \A p \in Pids : KeptProc(p), NEW i
    PROVE  Shrinks(i)
  BY DEF KeptProc, Shrinks, LiveOf, Released

LEMMA ForkShrinks ==
    ASSUME TypeInv, NEW c \in Calls, CreateFork(c), NEW i, i # call[c].id
    PROVE  Shrinks(i)
<1>1. PICK q \in Pids : /\ proc'[q].id = call[c].id
                        /\ \A p \in Pids \ {q} : proc'[p] = proc[p]
  BY ForkKeeps
<1> QED BY <1>1 DEF Shrinks, LiveOf, Released

-----------------------------------------------------------------------------
(* The commands' program counters.                                         *)

LEMMA ProgramsStep ==
    ASSUME TypeInv, Programs, [Next]_vars
    PROVE  Programs'
<1>0. call \in [Calls -> Busy \cup {Idle}]
  BY DEF TypeInv, TypeOK
<1>1. ASSUME NEW c \in Calls, OnlyCall(c), Program(call'[c]) PROVE Programs'
  BY <1>1 DEF OnlyCall, Programs
<1>2. Program(Idle)
  BY DEF Program, Idle, Deletes
<1>3. ASSUME NEW c \in Calls, NEW l, Goto(c, l), call[c] \in Busy, OnlyCall(c),
             call[c].op = "create" => l \in {"mkfifo", "fork", "write", "pidfile"},
             call[c].op = "start" => l \in {"reading", "write"},
             call[c].op # "kill",
             call[c].op \in Deletes => l \in {"rmcg", "rmall"}
      PROVE  Programs'
  <2>1. call'[c].pc = l /\ call'[c].op = call[c].op
    BY <1>0, <1>3 DEF Goto, Busy
  <2> QED BY <1>1, <1>3, <2>1 DEF Program
<1>4. ASSUME NEW c \in Calls, NEW ok, Return(c, ok), OnlyCall(c) PROVE Programs'
  <2>1. call'[c] = Idle
    BY <1>0, <1>4 DEF Return
  <2> QED BY <1>1, <1>2, <1>4, <2>1
<1>5. ASSUME NEW c \in Calls, OnlyCall(c), NEW b, call' = [call EXCEPT ![c] = b], Program(b)
      PROVE  Programs'
  BY <1>0, <1>1, <1>5
<1>6. ASSUME NEW c \in Calls, CallStep(c) PROVE Programs'
  <2>1. OnlyCall(c) /\ Program(call[c])
    BY <1>6, CallOnly DEF Programs
  <2>2. call[c].pc \in PCs => call[c] \in Busy
    BY InFlightBusy
  <2>3. CASE CreateMkdir(c) \/ CreateMkfifo(c)
    BY <1>3, <2>1, <2>2, <2>3 DEF CreateMkdir, CreateMkfifo, At, PCs, Deletes
  <2>4. CASE CreateFork(c)
    <3>1. PICK q : call' = [call EXCEPT ![c] = [call[c] EXCEPT !.pc = "cgroup", !.pid = q]]
      BY <2>4 DEF CreateFork
    <3>2. call[c] \in Busy /\ call[c].op = "create"
      BY <2>2, <2>4 DEF CreateFork, At, PCs
    <3>3. Program([call[c] EXCEPT !.pc = "cgroup", !.pid = q])
      BY <3>2 DEF Program, Busy, Deletes
    <3> QED BY <1>5, <2>1, <3>1, <3>3
  <2>5. CASE CreateCgroup(c)
    <3> DEFINE r(m) == [InitPid |-> call[c].pid, Status |-> "created", CgroupPath |-> m]
    <3>a. PICK m \in BOOLEAN : call' = [call EXCEPT ![c].pc = "trunc", ![c].st = r(m)]
      BY <2>5, Zenon DEF CreateCgroup
    <3>1. PICK s : call' = [call EXCEPT ![c] = [call[c] EXCEPT !.pc = "trunc", !.st = s]]
      BY <3>a
    <3>2. call[c] \in Busy /\ call[c].op = "create"
      BY <2>2, <2>5 DEF CreateCgroup, At, PCs
    <3>3. Program([call[c] EXCEPT !.pc = "trunc", !.st = s])
      BY <3>2 DEF Program, Busy, Deletes
    <3> QED BY <1>5, <2>1, <3>1, <3>3
  <2>6. CASE CreatePidFile(c) \/ KillSignal(c) \/ DeleteDir(c)
    BY <1>4, <2>1, <2>6 DEF CreatePidFile, KillSignal, DeleteDir
  <2>7. CASE WriteTrunc(c) \/ WriteBody(c)
    <3>1. call[c] \in Busy /\ call[c].op \notin Deletes \cup {"kill"}
      BY <2>1, <2>2, <2>7 DEF WriteTrunc, WriteBody, Program, PCs
    <3>2. \/ Return(c, FALSE) \/ Return(c, TRUE) \/ Goto(c, "write")
          \/ call[c].op = "create" /\ Goto(c, "pidfile")
      BY <2>7 DEF WriteTrunc, WriteBody
    <3> QED BY <1>3, <1>4, <2>1, <3>1, <3>2
  <2>8. CASE StartRead(c) \/ KillRead(c) \/ DeleteRead(c)
    <3>1. \/ Return(c, FALSE) \/ Return(c, TRUE)
          \/ /\ call[c].op = "start"
             /\ call' = [call EXCEPT ![c] = [call[c] EXCEPT !.pc = "open", !.st = disk[call[c].id].file]]
          \/ /\ call[c].op \in Deletes \cup {"kill"}
             /\ call' = [call EXCEPT ![c] = [call[c] EXCEPT !.pc = "signal", !.st = disk[call[c].id].file]]
      BY <2>8 DEF StartRead, KillRead, DeleteRead, At
    <3>2. call[c] \in Busy
      BY <2>2, <2>8 DEF StartRead, KillRead, DeleteRead, At, PCs
    <3>3. LET s == disk[call[c].id].file IN
          /\ call[c].op = "start" => Program([call[c] EXCEPT !.pc = "open", !.st = s])
          /\ call[c].op \in Deletes \cup {"kill"} => Program([call[c] EXCEPT !.pc = "signal", !.st = s])
      BY <3>2 DEF Program, Busy, Deletes
    <3>4. CASE call[c].op = "start"
               /\ call' = [call EXCEPT ![c] = [call[c] EXCEPT !.pc = "open", !.st = disk[call[c].id].file]]
      BY <1>5, <2>1, <3>3, <3>4
    <3>5. CASE call[c].op \in Deletes \cup {"kill"}
               /\ call' = [call EXCEPT ![c] = [call[c] EXCEPT !.pc = "signal", !.st = disk[call[c].id].file]]
      BY <1>5, <2>1, <3>3, <3>5
    <3> QED BY <1>4, <2>1, <3>1, <3>4, <3>5
  <2>9. CASE StartOpen(c) \/ StartReadByte(c)
    <3>1. call[c].op = "start" /\ call[c] \in Busy
      BY <2>2, <2>9 DEF StartOpen, StartReadByte, At, PCs
    <3>2. CASE Return(c, FALSE)
      BY <1>4, <2>1, <3>2
    <3>3. ASSUME NEW l \in {"opening", "unlink"}, NEW f,
                 call' = [call EXCEPT ![c] = [call[c] EXCEPT !.pc = l, !.fifo = f]]
          PROVE  Programs'
      <4>1. Program([call[c] EXCEPT !.pc = l, !.fifo = f])
        BY <3>1 DEF Program, Busy, Deletes
      <4> QED BY <1>5, <2>1, <3>3, <4>1
    <3> QED BY <2>9, <3>2, <3>3 DEF StartOpen, StartReadByte
  <2>10. CASE StartUnlink(c)
    <3>1. call[c].op = "start" /\ call[c] \in Busy
      BY <2>2, <2>10 DEF StartUnlink, At, PCs
    <3>2. PICK s : call' = [call EXCEPT ![c] = [call[c] EXCEPT !.pc = "trunc", !.st = s]]
      BY <2>10 DEF StartUnlink
    <3>3. Program([call[c] EXCEPT !.pc = "trunc", !.st = s])
      BY <3>1 DEF Program, Busy, Deletes
    <3> QED BY <1>5, <2>1, <3>2, <3>3
  <2>11. CASE StartOpened(c) \/ DeleteSignal(c) \/ DeleteCgroup(c)
    BY <1>3, <2>1, <2>2, <2>11 DEF StartOpened, DeleteSignal, DeleteCgroup, At, PCs, Deletes
  <2>12. CASE DeleteEntry(c)
    BY <2>12 DEF DeleteEntry, Programs
  <2> QED BY <1>6, <2>3, <2>4, <2>5, <2>6, <2>7, <2>8, <2>9, <2>10, <2>11, <2>12 DEF CallStep
<1>7. ASSUME NEW c \in Calls, Fault(c) PROVE Programs'
  <2>1. OnlyCall(c)
    BY <1>7, CallOnly
  <2> QED BY <1>4, <1>7, <2>1 DEF Fault, IoError, Crash, StartTimeout
<1>8. ASSUME NEW c \in Calls, NEW op \in Commands, NEW i \in Ids, Invoke(c, op, i) PROVE Programs'
  <2> DEFINE b == [op |-> op, id |-> i, pc |-> IF op = "create" THEN "mkdir" ELSE "read",
                   fifo |-> None, pid |-> None, st |-> None]
  <2>1. call' = [call EXCEPT ![c] = b] /\ Program(b)
    BY <1>8 DEF Invoke, Program, Deletes
  <2> HIDE DEF b
  <2> QED BY <1>0, <1>5, <2>1 DEF OnlyCall
<1>9. ASSUME NEW p \in Pids, ProcStep(p) PROVE Programs'
  <2>1. CASE UNCHANGED call
    BY <2>1 DEF Programs
  <2>2. CASE InitWrite(p) /\ ~UNCHANGED call
    <3> DEFINE R == Readers(proc[p].id, proc[p].fifo)
    <3>1. call' = [c \in Calls |-> IF c \in R THEN [call[c] EXCEPT !.pc = "gotbyte"] ELSE call[c]]
      BY <2>2 DEF InitWrite
    <3>2. \A c \in R : Program([call[c] EXCEPT !.pc = "gotbyte"])
      BY <1>0 DEF Readers, Program, Busy, Idle, Deletes
    <3> HIDE DEF R
    <3> QED BY <3>1, <3>2 DEF Programs
  <2> QED BY <1>9, <2>1, <2>2 DEF ProcStep, InitStep, InitOpenFifo, InitRootfs, InitOpenedLate,
        InitExec, ProcExit, KernelExit, Reap, OtherFork
<1>10. CASE UNCHANGED vars
  BY <1>10 DEF vars, Programs
<1> QED BY <1>6, <1>7, <1>8, <1>9, <1>10 DEF Next

LEMMA CommonStep ==
    ASSUME Common, [Next]_vars
    PROVE  Common'
<1>1. TypeInv' /\ Owned'
  BY TypeStep DEF Common
<1>2. CallerAgrees' /\ Serialised'
  BY SerialStep DEF Common
<1>3. Programs'
  BY ProgramsStep DEF Common
<1> QED BY <1>1, <1>2, <1>3 DEF Common

-----------------------------------------------------------------------------
(* The invariant under fewer processes, and put together again.            *)

LEMMA CallShrinks ==
    ASSUME NEW b, NEW d, NEW L, NEW M, NEW f \in BOOLEAN, NEW g \in BOOLEAN,
           CallOK(b, d, L, f), M \subseteq L, f => g
    PROVE  CallOK(b, d, M, g)
  BY DEF CallOK, CreateOK, StartOK, DeleteOK, Recorded

LEMMA ShimShrinks ==
    ASSUME NEW k, NEW d, NEW L, NEW M, NEW f \in BOOLEAN, NEW g \in BOOLEAN,
           ShimOK(k, d, L, f), M \subseteq L, f => g
    PROVE  ShimOK(k, d, M, g)
  BY DEF ShimOK, Recorded

\* A command on the container i: what is left to show is about this command and
\* this container.
LEMMA Assemble ==
    ASSUME SInv, NEW c \in Calls, NEW i \in Ids, OnlyCall(c), OnlyId(i),
           \A j \in Ids \ {i} : Shrinks(j),
           \A d \in Calls : d # c /\ call[d].id = i => call[d].op \notin Commands \ {"kill"},
           call'[c].id \in Ids => call'[c].id = i,
           call'[c].id = i => CallOK(call'[c], disk'[i], LiveOf(i)', Released(i)'),
           ShimOK(caller'[i], disk'[i], LiveOf(i)', Released(i)')
    PROVE  Books'
<1>1. ASSUME NEW d \in Calls, NEW j \in Ids, call'[d].id = j
      PROVE  CallOK(call'[d], disk'[j], LiveOf(j)', Released(j)')
  <2>1. CASE d = c
    BY <1>1, <2>1
  <2>2. CASE d # c /\ j = i
    <3>1. call'[d].op \notin Commands \ {"kill"}
      BY <1>1, <2>2 DEF OnlyCall
    <3> QED BY <3>1 DEF CallOK, Commands, Deletes
  <2>3. CASE d # c /\ j # i
    <3>1. call'[d] = call[d] /\ disk'[j] = disk[j]
      BY <2>3 DEF OnlyCall, OnlyId
    <3>2. CallOK(call[d], disk[j], LiveOf(j), Released(j))
      BY <1>1, <3>1 DEF SInv, Books
    <3>3. LiveOf(j)' \subseteq LiveOf(j) /\ (Released(j) => Released(j)')
      BY <2>3 DEF Shrinks
    <3>4. Released(j) \in BOOLEAN /\ Released(j)' \in BOOLEAN
      BY DEF Released
    <3> QED BY <3>1, <3>2, <3>3, <3>4, CallShrinks
  <2> QED BY <2>1, <2>2, <2>3
<1>2. ASSUME NEW j \in Ids
      PROVE  ShimOK(caller'[j], disk'[j], LiveOf(j)', Released(j)')
  <2>1. CASE j # i
    <3>1. caller'[j] = caller[j] /\ disk'[j] = disk[j]
      BY <2>1 DEF OnlyId
    <3>2. ShimOK(caller[j], disk[j], LiveOf(j), Released(j))
      BY DEF SInv, Books
    <3>3. LiveOf(j)' \subseteq LiveOf(j) /\ (Released(j) => Released(j)')
      BY <2>1 DEF Shrinks
    <3>4. Released(j) \in BOOLEAN /\ Released(j)' \in BOOLEAN
      BY DEF Released
    <3> QED BY <3>1, <3>2, <3>3, <3>4, ShimShrinks
  <2> QED BY <2>1
<1> QED BY <1>1, <1>2 DEF Books
-----------------------------------------------------------------------------
(* The commands, step by step.                                             *)

LEMMA Acting ==
    ASSUME SInv, NEW c \in Calls, call[c].op \in Commands \ {"kill"}
    PROVE  /\ call[c] \in Busy /\ call[c].id \in Ids
           /\ disk[call[c].id] \in Disk
           /\ CallOK(call[c], disk[call[c].id], LiveOf(call[c].id), Released(call[c].id))
           /\ ShimOK(caller[call[c].id], disk[call[c].id], LiveOf(call[c].id), Released(call[c].id))
           /\ \A d \in Calls : d # c /\ call[d].id = call[c].id => call[d].op \notin Commands \ {"kill"}
<1>1. call[c] \in Busy /\ call[c].id \in Ids
  BY DEF SInv, Common, TypeInv, TypeOK, Idle, Busy, Commands
<1>2. disk[call[c].id] \in Disk
  BY <1>1 DEF SInv, Common, TypeInv, TypeOK
<1>3. \A d \in Calls : d # c /\ call[d].id = call[c].id => call[d].op \notin Commands \ {"kill"}
  BY DEF SInv, Common, Serialised
<1> QED BY <1>1, <1>2, <1>3 DEF SInv, Books

\* A command that goes on, with the record b.
LEMMA Moves ==
    ASSUME TypeInv, NEW c \in Calls, NEW b, call' = [call EXCEPT ![c] = b]
    PROVE  call'[c] = b
  BY DEF TypeInv, TypeOK

LEMMA GotoRecord ==
    ASSUME TypeInv, NEW c \in Calls, InFlight(c), NEW l, Goto(c, l)
    PROVE  /\ call'[c].pc = l /\ call'[c].op = call[c].op /\ call'[c].id = call[c].id
           /\ call'[c].st = call[c].st /\ call'[c].pid = call[c].pid
<1>1. call' = [call EXCEPT ![c] = [call[c] EXCEPT !.pc = l]] /\ call[c] \in Busy
  BY DEF Goto, TypeInv, TypeOK, InFlight
<1>2. call'[c] = [call[c] EXCEPT !.pc = l]
  BY <1>1, Moves
<1> QED BY <1>1, <1>2 DEF Busy

LEMMA CreateStep ==
    ASSUME SInv, NEW c \in Calls,
           \/ CreateMkdir(c) \/ CreateMkfifo(c) \/ CreateFork(c) \/ CreateCgroup(c)
           \/ CreatePidFile(c)
    PROVE  Books'
<1>0. PICK i : i = call[c].id
  OBVIOUS
<1>1. call[c].op = "create" /\ call[c].op \in Commands \ {"kill"}
  BY DEF CreateMkdir, CreateMkfifo, CreateFork, CreateCgroup, CreatePidFile, At, Commands
<1>2. /\ call[c] \in Busy /\ i \in Ids /\ disk[i] \in Disk
      /\ CreateOK(call[c], disk[i], LiveOf(i)) /\ caller[i] = "creating"
      /\ ShimOK(caller[i], disk[i], LiveOf(i), Released(i))
      /\ \A d \in Calls : d # c /\ call[d].id = i => call[d].op \notin Commands \ {"kill"}
  BY <1>0, <1>1, Acting DEF CallOK, SInv, Common, CallerAgrees
<1>3. OnlyCall(c) /\ OnlyId(i) /\ TypeInv /\ InFlight(c)
  BY <1>0, <1>1, CallOnly DEF CallStep, SInv, Common, InFlight, Idle, Commands
<1>4. \A j \in Ids \ {i} : Shrinks(j)
  BY <1>0, <1>3, CallKeeps, KeptShrinks, ForkShrinks DEF CallStep
<1>5. ~CreateFork(c) => Shrinks(i)
  BY <1>3, CallKeeps, KeptShrinks DEF CallStep
<1>6. disk \in [Ids -> Disk] /\ caller \in [Ids -> CallerStates] /\ call \in [Calls -> Busy \cup {Idle}]
  BY <1>3 DEF TypeInv, TypeOK
<1> DEFINE Goal == /\ call'[c].id \in Ids => call'[c].id = i
                   /\ call'[c].id = i => CallOK(call'[c], disk'[i], LiveOf(i)', Released(i)')
                   /\ ShimOK(caller'[i], disk'[i], LiveOf(i)', Released(i)')
<1>7. ASSUME call'[c].op = "create", call'[c].id = i, caller'[i] = "creating",
             CreateOK(call'[c], disk'[i], LiveOf(i)'), call'[c].pc # "pidfile"
      PROVE  Goal
  BY <1>7 DEF CallOK, ShimOK, CreateOK, Deletes
<1>8. ASSUME CreateMkdir(c) PROVE Goal
  <2>1. /\ call[c].pc = "mkdir" /\ Goto(c, "mkfifo") /\ caller' = caller
        /\ disk' = [disk EXCEPT ![i] = [disk[i] EXCEPT !.dir = TRUE]]
    BY <1>0, <1>8 DEF CreateMkdir, At
  <2>2. disk'[i].dir /\ disk'[i].file = disk[i].file
    BY <1>2, <1>6, <2>1 DEF Disk
  <2>3. call'[c].pc = "mkfifo" /\ call'[c].op = "create" /\ call'[c].id = i
    BY <1>0, <1>1, <1>3, <2>1, GotoRecord
  <2>4. LiveOf(i)' = {}
    BY <1>2, <1>5, <1>8, <2>1 DEF CreateOK, Shrinks, CreateMkdir, CreateFork, At
  <2>5. CreateOK(call'[c], disk'[i], LiveOf(i)')
    BY <1>2, <2>1, <2>2, <2>3, <2>4 DEF CreateOK
  <2> QED BY <1>2, <1>7, <2>1, <2>3, <2>5
<1>9. ASSUME CreateMkfifo(c) PROVE Goal
  <2>1. /\ call[c].pc = "mkfifo" /\ Goto(c, "fork") /\ caller' = caller
        /\ \E f : disk' = [disk EXCEPT ![i] = [disk[i] EXCEPT !.fifo = f]]
    BY <1>0, <1>9 DEF CreateMkfifo, At
  <2>2. disk'[i].dir = disk[i].dir /\ disk'[i].file = disk[i].file
    BY <1>2, <1>6, <2>1 DEF Disk
  <2>3. call'[c].pc = "fork" /\ call'[c].op = "create" /\ call'[c].id = i
    BY <1>0, <1>1, <1>3, <2>1, GotoRecord
  <2>4. LiveOf(i)' = {}
    BY <1>2, <1>5, <1>9, <2>1 DEF CreateOK, Shrinks, CreateMkfifo, CreateFork, At
  <2>5. CreateOK(call'[c], disk'[i], LiveOf(i)')
    BY <1>2, <2>1, <2>2, <2>3, <2>4 DEF CreateOK
  <2> QED BY <1>2, <1>7, <2>1, <2>3, <2>5
<1>10. ASSUME CreateFork(c) PROVE Goal
  <2>1. call[c].pc = "fork" /\ UNCHANGED <<disk, caller>>
    BY <1>10 DEF CreateFork, At
  <2>2. PICK q \in Pids :
            /\ call' = [call EXCEPT ![c] = [call[c] EXCEPT !.pc = "cgroup", !.pid = q]]
            /\ proc'[q].id = i /\ proc'[q].st \notin ReleasedStates
            /\ \A p \in Pids \ {q} : proc'[p] = proc[p]
    BY <1>0, <1>3, <1>10, ForkKeeps
  <2>3. call'[c].pc = "cgroup" /\ call'[c].pid = q /\ call'[c].op = "create" /\ call'[c].id = i
    <3>1. call'[c] = [call[c] EXCEPT !.pc = "cgroup", !.pid = q]
      BY <1>3, <2>2, Moves
    <3> QED BY <1>0, <1>1, <1>2, <3>1 DEF Busy
  <2>4. LiveOf(i)' \subseteq {q}
    <3>1. LiveOf(i) = {}
      BY <1>2, <2>1 DEF CreateOK
    <3> QED BY <2>2, <3>1 DEF LiveOf
  <2>5. CreateOK(call'[c], disk'[i], LiveOf(i)')
    BY <1>2, <2>1, <2>3, <2>4 DEF CreateOK
  <2> QED BY <1>2, <1>7, <2>1, <2>3, <2>5
<1>11. ASSUME CreateCgroup(c) PROVE Goal
  <2> DEFINE r(m) == [InitPid |-> call[c].pid, Status |-> "created", CgroupPath |-> m]
  <2>1. call[c].pc = "cgroup" /\ caller' = caller
    BY <1>11 DEF CreateCgroup, At
  <2>2. PICK m \in BOOLEAN :
            /\ call' = [call EXCEPT ![c] = [call[c] EXCEPT !.pc = "trunc", !.st = r(m)]]
            /\ disk' = [disk EXCEPT ![i] = [disk[i] EXCEPT !.cg = @ \/ m]]
    <3>1. PICK m \in BOOLEAN, g \in {"in", "failed"} :
              /\ disk' = [disk EXCEPT ![call[c].id].cg = @ \/ m]
              /\ call' = [call EXCEPT ![c].pc = "trunc", ![c].st = r(m)]
      BY <1>11, Zenon DEF CreateCgroup
    <3> QED BY <1>0, <3>1
  <2>3. call[c].pid \in Pids
    BY <1>1, <1>3, <2>1 DEF TypeInv, InHand, At
  <2>4. r(m) \in containerState /\ r(m).InitPid = call[c].pid /\ r(m).Status = "created"
    BY <2>3 DEF containerState, Statuses
  <2> HIDE DEF r
  <2>5. /\ call'[c].pc = "trunc" /\ call'[c].pid = call[c].pid /\ call'[c].op = "create"
        /\ call'[c].id = i /\ call'[c].st = r(m)
    <3>1. call'[c] = [call[c] EXCEPT !.pc = "trunc", !.st = r(m)]
      BY <1>3, <2>2, Moves
    <3> QED BY <1>0, <1>1, <1>2, <3>1 DEF Busy
  <2>6. disk'[i].dir = disk[i].dir /\ disk'[i].file = disk[i].file
    BY <1>2, <1>6, <2>2 DEF Disk
  <2>7. LiveOf(i)' \subseteq {call[c].pid}
    <3>1. ~CreateFork(c)
      BY <2>1 DEF CreateFork, At
    <3> QED BY <1>2, <1>5, <2>1, <3>1 DEF CreateOK, Shrinks
  <2>8. CreateOK(call'[c], disk'[i], LiveOf(i)')
    BY <1>2, <2>1, <2>4, <2>5, <2>6, <2>7 DEF CreateOK
  <2> QED BY <1>2, <1>7, <2>1, <2>5, <2>8
<1>12. ASSUME CreatePidFile(c) PROVE Goal
  <2>1. call[c].pc = "pidfile" /\ Return(c, TRUE) /\ disk' = disk
    BY <1>12 DEF CreatePidFile, At
  <2>2. call'[c].id = None /\ caller'[i] = "created"
    BY <1>0, <1>1, <1>2, <1>6, <2>1 DEF Return, Concluded, Idle
  <2>3. LiveOf(i)' \subseteq {call[c].pid}
    <3>1. ~CreateFork(c)
      BY <2>1 DEF CreateFork, At
    <3> QED BY <1>2, <1>5, <2>1, <3>1 DEF CreateOK, Shrinks
  <2>4. ShimOK(caller'[i], disk'[i], LiveOf(i)', Released(i)')
    BY <1>2, <2>1, <2>2, <2>3 DEF CreateOK, ShimOK, Recorded
  <2>5. None \notin Ids
    BY ConstantsAssumption
  <2> QED BY <1>2, <2>2, <2>4, <2>5
<1>13. Goal
  <2> HIDE DEF Goal
  <2> QED BY <1>8, <1>9, <1>10, <1>11, <1>12
<1> QED BY <1>2, <1>3, <1>4, <1>13, Assemble
\* A step of start or delete, or of the two halves of writeState, that goes on.
LEMMA Context ==
    ASSUME SInv, NEW c \in Calls, call[c].op \in Commands \ {"kill"}, CallStep(c) \/ Fault(c),
           ~CreateFork(c), NEW i \in Ids, i = call[c].id,
           call'[c].id \in Ids => call'[c].id = i,
           call'[c].id = i => CallOK(call'[c], disk'[i], LiveOf(i)', Released(i)'),
           ShimOK(caller'[i], disk'[i], LiveOf(i)', Released(i)')
    PROVE  Books'
<1>1. OnlyCall(c) /\ OnlyId(i)
  BY CallOnly DEF SInv, Common
<1>2. \A j \in Ids \ {i} : Shrinks(j)
  BY CallKeeps, KeptShrinks DEF SInv, Common
<1>3. \A d \in Calls : d # c /\ call[d].id = i => call[d].op \notin Commands \ {"kill"}
  BY Acting
<1> QED BY <1>1, <1>2, <1>3, Assemble

\* A command that returns: what is left is what the shim knows now.
LEMMA Returning ==
    ASSUME SInv, NEW c \in Calls, call[c].op \in Commands \ {"kill"}, CallStep(c) \/ Fault(c),
           ~CreateFork(c), NEW i \in Ids, i = call[c].id, NEW ok \in BOOLEAN, Return(c, ok),
           ShimOK(Concluded(call[c].op, ok), disk'[i], LiveOf(i)', Released(i)')
    PROVE  Books'
<1>1. call'[c] = Idle /\ caller'[i] = Concluded(call[c].op, ok)
  BY DEF SInv, Common, TypeInv, TypeOK, Return
<1>2. call'[c].id \notin Ids /\ call'[c].id # i
  BY <1>1, ConstantsAssumption DEF Idle
<1> QED BY <1>1, <1>2, Context

LEMMA WriteStep ==
    ASSUME SInv, NEW c \in Calls, WriteTrunc(c) \/ WriteBody(c)
    PROVE  Books'
<1>0. PICK i : i = call[c].id
  OBVIOUS
<1>1. /\ call[c].pc \in {"trunc", "write"} /\ call[c] \in Busy /\ i \in Ids /\ InFlight(c)
      /\ disk[i] \in Disk /\ TypeInv
  BY <1>0, InFlightBusy DEF WriteTrunc, WriteBody, PCs, SInv, Common
<1>2. call[c].op \in {"create", "start"}
  BY <1>1 DEF SInv, Common, Programs, Program, Busy, Commands, Deletes
<1>3. /\ CallOK(call[c], disk[i], LiveOf(i), Released(i))
      /\ ShimOK(caller[i], disk[i], LiveOf(i), Released(i))
      /\ caller[i] \in {"creating", "starting"}
  BY <1>0, <1>2, Acting DEF Commands, SInv, Common, CallerAgrees
<1>4. Shrinks(i) /\ ~CreateFork(c) /\ call[c].op \in Commands \ {"kill"} /\ CallStep(c)
  <2>1. ~CreateFork(c)
    BY <1>1 DEF CreateFork, At
  <2> QED BY <1>1, <1>2, <2>1, CallKeeps, KeptShrinks DEF CallStep, Commands
<1>5. disk \in [Ids -> Disk] /\ caller \in [Ids -> CallerStates]
  BY <1>1 DEF TypeInv, TypeOK
<1>6. disk[i].dir
  BY <1>1, <1>2, <1>3 DEF CallOK, CreateOK, StartOK
<1>7. CASE WriteTrunc(c)
  <2>1. /\ call[c].pc = "trunc" /\ Goto(c, "write") /\ caller' = caller
        /\ disk' = [disk EXCEPT ![i] = [disk[i] EXCEPT !.file = Torn]]
    BY <1>0, <1>6, <1>7 DEF WriteTrunc
  <2>2. disk'[i].dir = disk[i].dir /\ disk'[i].file = Torn /\ disk'[i].file \notin containerState
    BY <1>1, <1>5, <2>1, RecordAssumption DEF Disk
  <2>3. /\ call'[c].pc = "write" /\ call'[c].op = call[c].op /\ call'[c].id = i
        /\ call'[c].st = call[c].st /\ call'[c].pid = call[c].pid
    BY <1>0, <1>1, <2>1, GotoRecord
  <2>4. ShimOK(caller'[i], disk'[i], LiveOf(i)', Released(i)')
    BY <1>3, <2>1, <2>2 DEF ShimOK
  <2>5. CASE call[c].op = "create"
    <3>1. CreateOK(call[c], disk[i], LiveOf(i))
      BY <1>3, <2>5 DEF CallOK
    <3>2. CreateOK(call'[c], disk'[i], LiveOf(i)')
      BY <1>4, <2>1, <2>2, <2>3, <3>1 DEF CreateOK, Shrinks
    <3>3. CallOK(call'[c], disk'[i], LiveOf(i)', Released(i)')
      BY <2>3, <2>5, <3>2 DEF CallOK, Deletes
    <3> QED BY <1>0, <1>1, <1>4, <2>3, <2>4, <3>3, Context
  <2>6. CASE call[c].op = "start"
    <3>1. StartOK(call[c], disk[i], LiveOf(i), Released(i))
      BY <1>3, <2>6 DEF CallOK
    <3>2. StartOK(call'[c], disk'[i], LiveOf(i)', Released(i)')
      BY <1>4, <2>1, <2>2, <2>3, <3>1 DEF StartOK, Shrinks, Recorded
    <3>3. CallOK(call'[c], disk'[i], LiveOf(i)', Released(i)')
      BY <2>3, <2>6, <3>2 DEF CallOK, Deletes
    <3> QED BY <1>0, <1>1, <1>4, <2>3, <2>4, <3>3, Context
  <2> QED BY <1>2, <2>5, <2>6
<1>8. CASE WriteBody(c)
  <2>1. call[c].pc = "write" /\ disk' = [disk EXCEPT ![i] = [disk[i] EXCEPT !.file = call[c].st]]
    BY <1>0, <1>8 DEF WriteBody
  <2>2. disk'[i].dir = disk[i].dir /\ disk'[i].file = call[c].st
    BY <1>1, <1>5, <2>1 DEF Disk
  <2>3. CASE call[c].op = "create"
    <3>1. CreateOK(call[c], disk[i], LiveOf(i))
      BY <1>3, <2>3 DEF CallOK
    <3>2. /\ call'[c].pc = "pidfile" /\ call'[c].op = call[c].op /\ call'[c].id = i
          /\ call'[c].st = call[c].st /\ call'[c].pid = call[c].pid /\ caller' = caller
      BY <1>0, <1>1, <1>8, <2>3, GotoRecord DEF WriteBody
    <3>3. CreateOK(call'[c], disk'[i], LiveOf(i)')
      BY <1>4, <2>1, <2>2, <3>1, <3>2 DEF CreateOK, Shrinks
    <3>4. CallOK(call'[c], disk'[i], LiveOf(i)', Released(i)')
      BY <2>3, <3>2, <3>3 DEF CallOK, Deletes
    <3>5. ShimOK(caller'[i], disk'[i], LiveOf(i)', Released(i)')
      BY <1>3, <2>1, <2>2, <3>1, <3>2 DEF ShimOK, CreateOK
    <3> QED BY <1>0, <1>1, <1>4, <3>2, <3>4, <3>5, Context
  <2>4. CASE call[c].op = "start"
    <3>1. StartOK(call[c], disk[i], LiveOf(i), Released(i)) /\ call[c].st \in containerState
      BY <1>1, <1>3, <2>1, <2>4 DEF CallOK, TypeInv, InHand
    <3>2. Return(c, TRUE) /\ Concluded(call[c].op, TRUE) = "running"
      BY <1>8, <2>4 DEF WriteBody, Concluded
    <3>3. ShimOK("running", disk'[i], LiveOf(i)', Released(i)')
      BY <1>4, <2>1, <2>2, <3>1 DEF ShimOK, StartOK, Recorded, Shrinks
    <3> QED BY <1>0, <1>1, <1>4, <3>2, <3>3, Returning
  <2> QED BY <1>2, <2>3, <2>4
<1> QED BY <1>7, <1>8

\* A start that meets the init on the fifo lets the one process go.
LEMMA StartStep ==
    ASSUME SInv, NEW c \in Calls,
           \/ StartRead(c) \/ StartOpen(c) \/ StartOpened(c) \/ StartReadByte(c)
           \/ StartUnlink(c) \/ StartTimeout(c)
    PROVE  Books'
<1>0. PICK i : i = call[c].id
  OBVIOUS
<1>1. /\ call[c].op = "start"
      /\ call[c].pc \in {"read", "open", "opening", "reading", "gotbyte", "unlink"}
  BY DEF StartRead, StartOpen, StartOpened, StartReadByte, StartUnlink, StartTimeout, At
<1>2. /\ call[c] \in Busy /\ i \in Ids /\ disk[i] \in Disk /\ caller[i] = "starting"
      /\ StartOK(call[c], disk[i], LiveOf(i), Released(i))
      /\ ShimOK(caller[i], disk[i], LiveOf(i), Released(i))
  BY <1>0, <1>1, Acting DEF CallOK, SInv, Common, CallerAgrees, Commands
<1>3. TypeInv /\ InFlight(c) /\ (call[c].pc # "read" => call[c].st \in containerState)
  BY <1>1 DEF SInv, Common, TypeInv, InHand, InFlight, Idle
<1>4. ~CreateFork(c) /\ call[c].op \in Commands \ {"kill"} /\ (CallStep(c) \/ Fault(c))
  BY <1>1 DEF CreateFork, At, CallStep, Fault, Commands
<1>5. Shrinks(i)
  BY <1>3, <1>4, CallKeeps, KeptShrinks
<1>6. disk \in [Ids -> Disk] /\ caller \in [Ids -> CallerStates]
  BY <1>3 DEF TypeInv, TypeOK
<1>7. Recorded(disk[i], LiveOf(i)) /\ disk[i].dir /\ readState(i)
  BY <1>1, <1>2 DEF StartOK, Recorded, readState
<1>8. ASSUME call'[c].op = "start", call'[c].id = i, caller' = caller,
             disk'[i].dir = disk[i].dir, disk'[i].file = disk[i].file,
             call'[c].pc \in {"open", "opening", "reading", "unlink", "trunc"},
             call'[c].st.InitPid = disk[i].file.InitPid,
             call'[c].pc \in {"reading", "unlink", "trunc"} => Released(i)'
      PROVE  Books'
  <2>1. StartOK(call'[c], disk'[i], LiveOf(i)', Released(i)')
    BY <1>5, <1>7, <1>8 DEF StartOK, Recorded, Shrinks
  <2>2. ShimOK(caller'[i], disk'[i], LiveOf(i)', Released(i)')
    BY <1>2, <1>5, <1>8 DEF ShimOK, Shrinks
  <2>3. CallOK(call'[c], disk'[i], LiveOf(i)', Released(i)')
    BY <1>8, <2>1 DEF CallOK, Deletes
  <2> QED BY <1>0, <1>2, <1>4, <1>8, <2>2, <2>3, Context
<1>9. CASE Return(c, FALSE) /\ UNCHANGED disk
  <2>1. Concluded(call[c].op, FALSE) = "failed"
    BY DEF Concluded
  <2>2. ShimOK("failed", disk'[i], LiveOf(i)', Released(i)')
    BY <1>2, <1>5, <1>7, <1>9 DEF ShimOK, Recorded, Shrinks
  <2> QED BY <1>0, <1>2, <1>4, <1>9, <2>1, <2>2, Returning
<1>10. CASE StartRead(c)
  <2>1. /\ call' = [call EXCEPT ![c] = [call[c] EXCEPT !.pc = "open", !.st = disk[i].file]]
        /\ UNCHANGED <<disk, caller>>
    BY <1>0, <1>7, <1>10 DEF StartRead
  <2>2. call'[c] = [call[c] EXCEPT !.pc = "open", !.st = disk[i].file]
    BY <1>3, <2>1, Moves
  <2>3. /\ call'[c].op = "start" /\ call'[c].id = i /\ call'[c].pc = "open"
        /\ call'[c].st = disk[i].file
    BY <1>0, <1>1, <1>2, <2>2 DEF Busy
  <2> QED BY <1>8, <2>1, <2>3
<1>11. CASE StartOpen(c) /\ ~Return(c, FALSE)
  <2>1. /\ call[c].pc = "open" /\ UNCHANGED <<disk, caller>>
        /\ call' = [call EXCEPT ![c] = [call[c] EXCEPT !.pc = "opening", !.fifo = disk[i].fifo]]
    BY <1>0, <1>11 DEF StartOpen, At
  <2>2. call'[c] = [call[c] EXCEPT !.pc = "opening", !.fifo = disk[i].fifo]
    BY <1>3, <2>1, Moves
  <2>3. /\ call'[c].op = "start" /\ call'[c].id = i /\ call'[c].pc = "opening"
        /\ call'[c].st = call[c].st
    BY <1>0, <1>1, <1>2, <2>2 DEF Busy
  <2>4. call[c].st.InitPid = disk[i].file.InitPid
    BY <1>2, <2>1 DEF StartOK
  <2> QED BY <1>8, <2>1, <2>3, <2>4
<1>12. CASE StartOpened(c)
  <2>1. call[c].pc = "opening" /\ UNCHANGED <<disk, caller>> /\ Goto(c, "reading")
    BY <1>12 DEF StartOpened, At
  <2>2. /\ call'[c].op = "start" /\ call'[c].id = i /\ call'[c].pc = "reading"
        /\ call'[c].st = call[c].st
    BY <1>0, <1>1, <1>3, <2>1, GotoRecord
  <2>3. Released(i)'
    <3> DEFINE woken == Writers(i, call[c].fifo)
    <3>1. /\ woken # {}
          /\ proc' = [p \in Pids |-> IF p \in woken THEN [proc[p] EXCEPT !.st = "write"] ELSE proc[p]]
      BY <1>0, <1>12 DEF StartOpened
    <3>2. woken \subseteq LiveOf(i)
      BY DEF Writers, LiveOf, ContainerStates, SetupStates
    <3> HIDE DEF woken
    <3>3. LiveOf(i)' \subseteq woken
      BY <1>5, <1>7, <3>1, <3>2 DEF Recorded, Shrinks
    <3>4. \A p \in Pids : p \in woken => proc'[p].st = "write"
      BY <1>3, <3>1 DEF TypeInv, TypeOK, Proc
    <3> QED BY <3>3, <3>4 DEF Released, ReleasedStates, LiveOf
  <2>4. call[c].st.InitPid = disk[i].file.InitPid
    BY <1>2, <2>1 DEF StartOK
  <2> QED BY <1>8, <2>1, <2>2, <2>3, <2>4
<1>13. CASE StartReadByte(c)
  <2>1. /\ call[c].pc \in {"reading", "gotbyte"} /\ UNCHANGED <<disk, caller>>
        /\ call' = [call EXCEPT ![c] = [call[c] EXCEPT !.pc = "unlink", !.fifo = None]]
    BY <1>13 DEF StartReadByte, At
  <2>2. call'[c] = [call[c] EXCEPT !.pc = "unlink", !.fifo = None]
    BY <1>3, <2>1, Moves
  <2>3. /\ call'[c].op = "start" /\ call'[c].id = i /\ call'[c].pc = "unlink"
        /\ call'[c].st = call[c].st
    BY <1>0, <1>1, <1>2, <2>2 DEF Busy
  <2>4. call[c].st.InitPid = disk[i].file.InitPid /\ Released(i)'
    BY <1>2, <1>5, <2>1 DEF StartOK, Shrinks
  <2> QED BY <1>8, <2>1, <2>3, <2>4
<1>14. CASE StartUnlink(c)
  <2> DEFINE r == [call[c].st EXCEPT !.Status = "running"]
  <2>1. /\ call[c].pc = "unlink" /\ caller' = caller
        /\ disk' = [disk EXCEPT ![i] = [disk[i] EXCEPT !.fifo = None]]
        /\ call' = [call EXCEPT ![c] = [call[c] EXCEPT !.pc = "trunc", !.st = r]]
    BY <1>0, <1>14 DEF StartUnlink, At
  <2>2. r.InitPid = call[c].st.InitPid
    BY <1>3, <2>1 DEF containerState
  <2>3. call'[c] = [call[c] EXCEPT !.pc = "trunc", !.st = r]
    BY <1>3, <2>1, Moves
  <2> HIDE DEF r
  <2>4. /\ call'[c].op = "start" /\ call'[c].id = i /\ call'[c].pc = "trunc" /\ call'[c].st = r
    BY <1>0, <1>1, <1>2, <2>3 DEF Busy
  <2>5. disk'[i].dir = disk[i].dir /\ disk'[i].file = disk[i].file
    BY <1>2, <1>6, <2>1 DEF Disk
  <2>6. call[c].st.InitPid = disk[i].file.InitPid /\ Released(i)'
    BY <1>2, <1>5, <2>1 DEF StartOK, Shrinks
  <2> QED BY <1>8, <2>1, <2>2, <2>4, <2>5, <2>6
<1>15. CASE StartTimeout(c)
  BY <1>9, <1>15 DEF StartTimeout
<1> QED BY <1>9, <1>10, <1>11, <1>12, <1>13, <1>14, <1>15 DEF StartOpen
\* A delete signals the one process there is, and then removes its record.
LEMMA DeleteStep ==
    ASSUME SInv, NEW c \in Calls,
           \/ DeleteRead(c) \/ DeleteSignal(c) \/ DeleteCgroup(c) \/ DeleteEntry(c)
           \/ DeleteDir(c)
    PROVE  Books'
<1>0. PICK i : i = call[c].id
  OBVIOUS
<1>1. call[c].op \in Deletes /\ call[c].pc \in {"read", "signal", "rmcg", "rmall"}
  BY DEF DeleteRead, DeleteSignal, DeleteCgroup, DeleteEntry, DeleteDir
<1>2. /\ call[c] \in Busy /\ i \in Ids /\ disk[i] \in Disk /\ caller[i] = "deleting"
      /\ DeleteOK(call[c], disk[i], LiveOf(i))
      /\ ShimOK(caller[i], disk[i], LiveOf(i), Released(i))
  BY <1>0, <1>1, Acting DEF CallOK, SInv, Common, CallerAgrees, Commands, Deletes
<1>3. TypeInv /\ InFlight(c)
  BY <1>1 DEF SInv, Common, InFlight, Idle, Deletes
<1>4. ~CreateFork(c) /\ call[c].op \in Commands \ {"kill"} /\ CallStep(c)
  BY <1>1 DEF CreateFork, At, CallStep, Commands, Deletes
<1>5. Shrinks(i)
  BY <1>3, <1>4, CallKeeps, KeptShrinks
<1>6. disk \in [Ids -> Disk] /\ caller \in [Ids -> CallerStates]
  BY <1>3 DEF TypeInv, TypeOK
<1>7. ASSUME call'[c].op = call[c].op, call'[c].id = i, caller' = caller,
             disk'[i].file = disk[i].file \/ disk'[i].file = None,
             DeleteOK(call'[c], disk'[i], LiveOf(i)')
      PROVE  Books'
  <2>1. ShimOK(caller'[i], disk'[i], LiveOf(i)', Released(i)')
    BY <1>2, <1>5, <1>7, RecordAssumption DEF ShimOK, Shrinks
  <2>2. CallOK(call'[c], disk'[i], LiveOf(i)', Released(i)')
    BY <1>1, <1>7 DEF CallOK, Deletes
  <2> QED BY <1>0, <1>2, <1>4, <1>7, <2>1, <2>2, Context
<1>8. CASE DeleteRead(c)
  <2>1. call[c].pc = "read" /\ readState(i)
    BY <1>2, <1>8 DEF DeleteRead, DeleteOK, Recorded, readState
  <2>2. /\ call' = [call EXCEPT ![c] = [call[c] EXCEPT !.pc = "signal", !.st = disk[i].file]]
        /\ UNCHANGED <<disk, caller>>
    BY <1>0, <1>8, <2>1 DEF DeleteRead
  <2>3. call'[c] = [call[c] EXCEPT !.pc = "signal", !.st = disk[i].file]
    BY <1>3, <2>2, Moves
  <2>4. /\ call'[c].op = call[c].op /\ call'[c].id = i /\ call'[c].pc = "signal"
        /\ call'[c].st = disk[i].file
    BY <1>0, <1>2, <2>3 DEF Busy
  <2>5. DeleteOK(call'[c], disk'[i], LiveOf(i)')
    BY <1>2, <1>5, <2>1, <2>4 DEF DeleteOK, Recorded, Shrinks
  <2> QED BY <1>7, <2>2, <2>4, <2>5
<1>9. CASE DeleteSignal(c)
  <2>1. /\ call[c].pc = "signal" /\ Goto(c, "rmcg") /\ UNCHANGED <<disk, caller>>
        /\ proc' = IF call[c].op = "delete_force" /\ pidAlive(call[c].st.InitPid)
                   THEN Killed(call[c].st.InitPid) ELSE proc
    BY <1>9 DEF DeleteSignal
  <2>2. call'[c].pc = "rmcg" /\ call'[c].op = call[c].op /\ call'[c].id = i
    BY <1>0, <1>3, <2>1, GotoRecord
  <2>3. LiveOf(i)' = {}
    <3>1. CASE call[c].op = "delete"
      BY <1>2, <1>5, <3>1 DEF DeleteOK, Shrinks
    <3>2. CASE call[c].op = "delete_force"
      <4>1. LiveOf(i)' \subseteq {call[c].st.InitPid}
        BY <1>2, <1>5, <2>1 DEF DeleteOK, Shrinks
      <4>2. ASSUME NEW p \in Pids, p = call[c].st.InitPid PROVE proc'[p].st \notin ContainerStates
        <5>1. CASE pidAlive(p)
          <6>1. proc' = Killed(p)
            BY <2>1, <3>2, <4>2, <5>1
          <6> QED BY <1>3, <6>1 DEF Killed, TypeInv, TypeOK, Proc, LiveStates, ContainerStates,
                SetupStates, ReleasedStates
        <5>2. CASE ~pidAlive(p)
          <6>1. proc' = proc
            BY <2>1, <4>2, <5>2
          <6> QED BY <5>2, <6>1 DEF pidAlive, GoneStates, ContainerStates, SetupStates, ReleasedStates
        <5> QED BY <5>1, <5>2
      <4> QED BY <4>1, <4>2 DEF LiveOf
    <3> QED BY <1>1, <3>1, <3>2 DEF Deletes
  <2>4. DeleteOK(call'[c], disk'[i], LiveOf(i)')
    BY <2>2, <2>3 DEF DeleteOK
  <2> QED BY <1>7, <2>1, <2>2, <2>4
<1>10. CASE DeleteCgroup(c)
  <2>1. /\ call[c].pc = "rmcg" /\ Goto(c, "rmall") /\ caller' = caller
        /\ \E x : disk' = [disk EXCEPT ![i] = [disk[i] EXCEPT !.cg = x]]
    BY <1>0, <1>10 DEF DeleteCgroup
  <2>2. call'[c].pc = "rmall" /\ call'[c].op = call[c].op /\ call'[c].id = i
    BY <1>0, <1>3, <2>1, GotoRecord
  <2>3. disk'[i].file = disk[i].file
    BY <1>2, <1>6, <2>1 DEF Disk
  <2>4. DeleteOK(call'[c], disk'[i], LiveOf(i)')
    BY <1>2, <1>5, <2>1, <2>2 DEF DeleteOK, Shrinks
  <2> QED BY <1>7, <2>1, <2>2, <2>3, <2>4
<1>11. CASE DeleteEntry(c)
  <2>1. /\ call[c].pc = "rmall" /\ UNCHANGED <<call, caller>>
        /\ \/ disk' = [disk EXCEPT ![i] = [disk[i] EXCEPT !.fifo = None]]
           \/ disk' = [disk EXCEPT ![i] = [disk[i] EXCEPT !.file = None]]
    BY <1>0, <1>11 DEF DeleteEntry
  <2>2. disk'[i].file = disk[i].file \/ disk'[i].file = None
    BY <1>2, <1>6, <2>1 DEF Disk
  <2>3. DeleteOK(call'[c], disk'[i], LiveOf(i)')
    BY <1>2, <1>5, <2>1 DEF DeleteOK, Shrinks
  <2> QED BY <1>0, <1>7, <2>1, <2>2, <2>3
<1>12. CASE DeleteDir(c)
  <2>1. /\ call[c].pc = "rmall" /\ disk[i].fifo = None /\ disk[i].file = None /\ Return(c, TRUE)
        /\ disk' = [disk EXCEPT ![i] = [disk[i] EXCEPT !.dir = FALSE]]
    BY <1>0, <1>12 DEF DeleteDir
  <2>2. ~disk'[i].dir /\ disk'[i].fifo = None /\ disk'[i].file = None
    BY <1>2, <1>6, <2>1 DEF Disk
  <2>3. Concluded(call[c].op, TRUE) = "absent"
    BY <1>1 DEF Concluded, Deletes
  <2>4. ShimOK("absent", disk'[i], LiveOf(i)', Released(i)')
    BY <1>2, <1>5, <2>1, <2>2, RecordAssumption DEF ShimOK, DeleteOK, Shrinks
  <2> QED BY <1>0, <1>2, <1>4, <2>1, <2>3, <2>4, Returning
<1> QED BY <1>8, <1>9, <1>10, <1>11, <1>12

\* A kill, or a process on its own, changes no book.
LEMMA QuietStep ==
    ASSUME SInv, UNCHANGED <<disk, caller>>, \A i \in Ids : Shrinks(i),
           \A c \in Calls : /\ call'[c].id = call[c].id /\ call'[c].op = call[c].op
                            /\ call'[c].st = call[c].st
                            /\ \/ call'[c].pc = call[c].pc /\ call'[c].pid = call[c].pid
                               \/ /\ call[c].op = "start" /\ call[c].pc = "reading"
                                  /\ call'[c].pc = "gotbyte"
                            \/ call'[c].op \notin Commands \ {"kill"}
    PROVE  Books'
<1>1. ASSUME NEW c \in Calls, NEW i \in Ids, call'[c].id = i
      PROVE  CallOK(call'[c], disk'[i], LiveOf(i)', Released(i)')
  <2>1. CASE call'[c].op \notin Commands \ {"kill"}
    BY <2>1 DEF CallOK, Commands, Deletes
  <2>2. CASE call'[c].op \in Commands \ {"kill"}
    <3>1. CallOK(call[c], disk[i], LiveOf(i), Released(i))
      BY <1>1, <2>2 DEF SInv, Books
    <3>2. LiveOf(i)' \subseteq LiveOf(i) /\ (Released(i) => Released(i)')
      BY DEF Shrinks
    <3>3. Released(i) \in BOOLEAN /\ Released(i)' \in BOOLEAN
      BY DEF Released
    <3>4. CallOK(call[c], disk[i], LiveOf(i)', Released(i)')
      BY <3>1, <3>2, <3>3, CallShrinks
    <3>5. CallOK(call'[c], disk[i], LiveOf(i)', Released(i)')
      BY <2>2, <3>4 DEF CallOK, CreateOK, StartOK, DeleteOK, Recorded, Deletes
    <3> QED BY <3>5
  <2> QED BY <2>1, <2>2
<1>2. ASSUME NEW i \in Ids PROVE ShimOK(caller'[i], disk'[i], LiveOf(i)', Released(i)')
  <2>1. ShimOK(caller[i], disk[i], LiveOf(i), Released(i))
    BY DEF SInv, Books
  <2>2. LiveOf(i)' \subseteq LiveOf(i) /\ (Released(i) => Released(i)')
    BY DEF Shrinks
  <2>3. Released(i) \in BOOLEAN /\ Released(i)' \in BOOLEAN
    BY DEF Released
  <2> QED BY <2>1, <2>2, <2>3, ShimShrinks
<1> QED BY <1>1, <1>2 DEF Books

LEMMA KillStep ==
    ASSUME SInv, NEW c \in Calls, KillRead(c) \/ KillSignal(c)
    PROVE  Books'
<1>1. call[c].op = "kill" /\ call[c].pc \in {"read", "signal"} /\ UNCHANGED disk
  BY DEF KillRead, KillSignal, At
<1>2. TypeInv /\ call[c] \in Busy /\ OnlyCall(c) /\ ~CreateFork(c) /\ CallStep(c)
  BY <1>1, CallOnly, InFlightBusy DEF SInv, Common, CallStep, PCs, CreateFork, At
<1>3. \A i \in Ids : Shrinks(i)
  BY <1>2, CallKeeps, KeptShrinks
<1>4. caller' = caller
  BY <1>1 DEF KillRead, KillSignal, Return
<1>5. call'[c].op \notin Commands \ {"kill"}
  <2>1. CASE Return(c, TRUE) \/ Return(c, FALSE)
    <3>1. call'[c] = Idle
      BY <1>2, <2>1 DEF Return, TypeInv, TypeOK
    <3> QED BY <3>1 DEF Idle, Commands
  <2>2. CASE call' = [call EXCEPT ![c].pc = "signal", ![c].st = disk[call[c].id].file]
    <3>1. call'[c] = [call[c] EXCEPT !.pc = "signal", !.st = disk[call[c].id].file]
      BY <1>2, <2>2 DEF TypeInv, TypeOK
    <3>2. call'[c].op = "kill"
      BY <1>1, <1>2, <3>1 DEF Busy
    <3> QED BY <3>2
  <2> QED BY <2>1, <2>2 DEF KillRead, KillSignal
<1> QED BY <1>1, <1>2, <1>3, <1>4, <1>5, QuietStep DEF OnlyCall

LEMMA ProcBooks ==
    ASSUME SInv, NEW p \in Pids, ProcStep(p)
    PROVE  Books'
<1>1. TypeInv /\ UNCHANGED <<disk, caller>>
  BY DEF SInv, Common, ProcStep, InitStep, InitOpenFifo, InitRootfs, InitOpenedLate, InitWrite,
     InitExec, ProcExit, KernelExit, Reap, OtherFork
<1>2. \A i \in Ids : Shrinks(i)
  BY <1>1, ProcKeeps, KeptShrinks
<1>3. CASE UNCHANGED call
  BY <1>1, <1>2, <1>3, QuietStep
<1>4. CASE InitWrite(p) /\ ~UNCHANGED call
  <2> DEFINE R == Readers(proc[p].id, proc[p].fifo)
  <2>1. call' = [c \in Calls |-> IF c \in R THEN [call[c] EXCEPT !.pc = "gotbyte"] ELSE call[c]]
    BY <1>4 DEF InitWrite
  <2>2. ASSUME NEW c \in R
        PROVE  /\ c \in Calls /\ call[c] \in Busy /\ call[c].op = "start"
               /\ call[c].pc \in {"reading", "gotbyte"}
    BY <1>1, InFlightBusy DEF Readers, PCs
  <2> HIDE DEF R
  <2>3. ASSUME NEW c \in Calls
        PROVE  /\ call'[c].id = call[c].id /\ call'[c].op = call[c].op /\ call'[c].st = call[c].st
               /\ \/ call'[c].pc = call[c].pc /\ call'[c].pid = call[c].pid
                  \/ /\ call[c].op = "start" /\ call[c].pc = "reading"
                     /\ call'[c].pc = "gotbyte"
    <3>1. CASE c \notin R
      BY <2>1, <3>1
    <3>2. CASE c \in R
      BY <2>1, <2>2, <3>2 DEF Busy
    <3> QED BY <3>1, <3>2
  <2> QED BY <1>1, <1>2, <2>3, QuietStep
<1> QED BY <1>3, <1>4 DEF ProcStep, InitStep, InitOpenFifo, InitRootfs, InitOpenedLate, InitExec,
      ProcExit, KernelExit, Reap, OtherFork

LEMMA InvokeStep ==
    ASSUME SInv, NEW c \in Calls, NEW op \in Commands, NEW i \in Ids, Invoke(c, op, i)
    PROVE  Books'
<1> DEFINE b == [op |-> op, id |-> i, pc |-> IF op = "create" THEN "mkdir" ELSE "read",
                 fifo |-> None, pid |-> None, st |-> None]
<1>1. /\ call' = [call EXCEPT ![c] = b] /\ UNCHANGED <<disk, proc>>
      /\ caller' = [caller EXCEPT ![i] = Pending(op, i)] /\ MayInvoke(op, i)
  BY DEF Invoke
<1>2. TypeInv /\ call'[c] = b /\ OnlyCall(c) /\ OnlyId(i)
  BY <1>1 DEF SInv, Common, TypeInv, TypeOK, OnlyCall, OnlyId
<1>3. \A j \in Ids : LiveOf(j)' = LiveOf(j) /\ (Released(j)' <=> Released(j)) /\ Shrinks(j)
  BY <1>1 DEF LiveOf, Released, Shrinks
<1>4. b.op = op /\ b.id = i /\ b.pc = IF op = "create" THEN "mkdir" ELSE "read"
  OBVIOUS
<1>5. ShimOK(caller[i], disk[i], LiveOf(i), Released(i))
  BY DEF SInv, Books
<1>6. CASE op = "kill"
  <2>1. caller' = caller
    BY <1>1, <1>2, <1>6 DEF Pending, TypeInv, TypeOK
  <2> QED BY <1>1, <1>2, <1>3, <1>4, <1>6, <2>1, QuietStep DEF OnlyCall
<1>7. CASE op # "kill"
  <2>1. \A d \in Calls : d # c /\ call[d].id = i => call[d].op \notin Commands \ {"kill"}
    BY <1>1, <1>7 DEF MayInvoke, Serial
  <2>2. caller'[i] = Pending(op, i) /\ Pending(op, i) \in {"creating", "starting", "deleting"}
    BY <1>1, <1>2, <1>7 DEF Pending, TypeInv, TypeOK
  <2>3. ShimOK(caller'[i], disk'[i], LiveOf(i)', Released(i)')
    BY <1>1, <1>3, <1>5, <2>2 DEF ShimOK
  <2>4. CallOK(call'[c], disk'[i], LiveOf(i)', Released(i)')
    <3> HIDE DEF b
    <3>1. CASE op = "create"
      <4>1. LiveOf(i) = {} /\ disk[i].file = None
        BY <1>1, <1>5, <3>1 DEF MayInvoke, ShimOK
      <4>2. CreateOK(b, disk[i], LiveOf(i))
        BY <1>4, <3>1, <4>1, RecordAssumption DEF CreateOK
      <4> QED BY <1>1, <1>2, <1>3, <1>4, <3>1, <4>2 DEF CallOK, Deletes
    <3>2. CASE op = "start"
      <4>1. disk[i].dir /\ Recorded(disk[i], LiveOf(i))
        BY <1>1, <1>5, <3>2 DEF MayInvoke, ShimOK
      <4>2. StartOK(b, disk[i], LiveOf(i), Released(i)')
        BY <1>4, <3>2, <4>1 DEF StartOK
      <4> QED BY <1>1, <1>2, <1>3, <1>4, <3>2, <4>2 DEF CallOK, Deletes
    <3>3. CASE op \in Deletes
      <4>1. Recorded(disk[i], LiveOf(i))
        BY <1>1, <1>5, <3>3 DEF MayInvoke, ShimOK
      <4>2. op = "delete" => LiveOf(i) = {}
        BY <1>1 DEF MayInvoke, LiveOf, GoneStates, ContainerStates, SetupStates, ReleasedStates
      <4>3. DeleteOK(b, disk[i], LiveOf(i))
        BY <1>4, <3>3, <4>1, <4>2 DEF DeleteOK, Deletes
      <4> QED BY <1>1, <1>2, <1>3, <1>4, <3>3, <4>3 DEF CallOK, Deletes
    <3> QED BY <1>7, <3>1, <3>2, <3>3 DEF Commands, Deletes
  <2>5. call'[c].id = i
    BY <1>2, <1>4
  <2> QED BY <1>2, <1>3, <2>1, <2>3, <2>4, <2>5, Assemble
<1> QED BY <1>6, <1>7

\* A start that the shim waits for does not go away without an answer.
LEMMA WaitingStep ==
    ASSUME SInv, [Next]_vars
    PROVE  Waiting'
<1>0. TypeInv /\ Owned /\ call \in [Calls -> Busy \cup {Idle}] /\ caller \in [Ids -> CallerStates]
  BY DEF SInv, Common, TypeInv, TypeOK
<1>1. CASE /\ \A d \in Calls : call'[d].op = call[d].op /\ call'[d].id = call[d].id
           /\ UNCHANGED caller
  BY <1>1 DEF SInv, Waiting
<1>2. ASSUME NEW c \in Calls, NEW ok \in BOOLEAN, Return(c, ok) PROVE Waiting'
  <2> SUFFICES ASSUME NEW i \in Ids, caller'[i] = "starting"
               PROVE  \E d \in Calls : call'[d].op = "start" /\ call'[d].id = i
    BY DEF Waiting
  <2>1. caller[i] = "starting" /\ (call[c].op = "kill" \/ call[c].id # i)
    BY <1>0, <1>2 DEF Return, Concluded
  <2>2. PICK d \in Calls : call[d].op = "start" /\ call[d].id = i
    BY <2>1 DEF SInv, Waiting
  <2>3. call'[d] = call[d]
    BY <1>0, <1>2, <2>1, <2>2 DEF Return
  <2> QED BY <2>2, <2>3
<1>3. ASSUME NEW c \in Calls, NEW op \in Commands, NEW i \in Ids, Invoke(c, op, i) PROVE Waiting'
  <2> SUFFICES ASSUME NEW j \in Ids, caller'[j] = "starting"
               PROVE  \E d \in Calls : call'[d].op = "start" /\ call'[d].id = j
    BY DEF Waiting
  <2>1. call[c] = Idle /\ call'[c].op = op /\ call'[c].id = i /\ (\A d \in Calls : d # c => call'[d] = call[d])
    BY <1>0, <1>3 DEF Invoke, InFlight
  <2>2. (op = "start" /\ i = j) \/ caller[j] = "starting"
    BY <1>0, <1>3 DEF Invoke, Pending
  <2>3. CASE caller[j] = "starting"
    <3>1. PICK d \in Calls : call[d].op = "start" /\ call[d].id = j
      BY <2>3 DEF SInv, Waiting
    <3> QED BY <2>1, <3>1 DEF Idle
  <2> QED BY <2>1, <2>2, <2>3
<1> QED BY <1>0, <1>1, <1>2, <1>3, StepShape

LEMMA SInvStep ==
    ASSUME SInv, "io" \notin Faults, "crash" \notin Faults, [Next]_vars
    PROVE  SInv'
<1>1. Common' /\ Waiting'
  BY CommonStep, WaitingStep DEF SInv
<1>2. Books'
  <2>1. CASE UNCHANGED vars
    BY <2>1 DEF vars, SInv, Books, CallOK, CreateOK, StartOK, DeleteOK, ShimOK, Recorded, LiveOf,
       Released
  <2>2. ASSUME NEW c \in Calls, CallStep(c) PROVE Books'
    BY <2>2, CreateStep, WriteStep, StartStep, KillStep, DeleteStep DEF CallStep
  <2>3. ASSUME NEW c \in Calls, Fault(c) PROVE Books'
    BY <2>3, StartStep DEF Fault, IoError, Crash
  <2> QED BY <2>1, <2>2, <2>3, InvokeStep, ProcBooks DEF Next
<1> QED BY <1>1, <1>2 DEF SInv

LEMMA CommonInit == Init => Common
<1>1. Init => TypeInv
  BY TypeInit
<1>2. Init => Owned
  BY DEF Init, Owned, Unused, ContainerStates, SetupStates, ReleasedStates
<1>3. Init => CallerAgrees /\ Serialised /\ Programs
  BY DEF Init, CallerAgrees, Serialised, Programs, Program, Idle, Commands, Deletes
<1> QED BY <1>1, <1>2, <1>3 DEF Common

LEMMA SInvInit == Init => SInv
<1> SUFFICES ASSUME Init PROVE SInv
  OBVIOUS
<1>1. \A i \in Ids : LiveOf(i) = {}
  BY DEF Init, LiveOf, Unused, ContainerStates, SetupStates, ReleasedStates
<1>2. \A i \in Ids : disk[i].file = None /\ ~disk[i].dir /\ disk[i].fifo = None
  BY DEF Init, EmptyDisk
<1>3. Books
  <2>1. \A c \in Calls : call[c].id \notin Ids
    BY ConstantsAssumption DEF Init, Idle
  <2>2. \A i \in Ids : ShimOK(caller[i], disk[i], LiveOf(i), Released(i))
    BY <1>1, <1>2, RecordAssumption DEF Init, ShimOK
  <2> QED BY <2>1, <2>2 DEF Books
<1>4. Waiting
  BY DEF Init, Waiting
<1> QED BY <1>3, <1>4, CommonInit DEF SInv

LEMMA SInvariant ==
    ASSUME "io" \notin Faults, "crash" \notin Faults
    PROVE  Spec => []SInv
<1>1. SInv /\ [Next]_vars => SInv'
  BY SInvStep
<1> QED BY <1>1, SInvInit, PTL DEF Spec

\* cmdCreate, cmdStart: as long as no call fails half way and no invocation is
\* killed, every process of a container that was created is the one its record
\* names, or the one a start in flight is about to write back.
THEOREM RecordTracks ==
    ASSUME "io" \notin Faults, "crash" \notin Faults
    PROVE  Spec => []Tracked
<1>1. SInv => Tracked
  <2> SUFFICES ASSUME SInv, NEW i \in Ids, caller[i] \in {"created", "starting", "running"},
                      NEW p \in LiveOf(i)
               PROVE  \/ readState(i) /\ disk[i].file.InitPid = p
                      \/ \E c \in Calls : /\ call[c].op = "start" /\ call[c].id = i
                                          /\ call[c].pc \in {"trunc", "write"}
                                          /\ call[c].st.InitPid = p
    BY DEF Tracked
  <2>1. CASE caller[i] \in {"created", "running"}
    BY <2>1 DEF SInv, Books, ShimOK, Recorded, readState
  <2>2. CASE caller[i] = "starting"
    <3>1. PICK c \in Calls : call[c].op = "start" /\ call[c].id = i
      BY <2>2 DEF SInv, Waiting
    <3>2. StartOK(call[c], disk[i], LiveOf(i), Released(i))
      BY <3>1 DEF SInv, Books, CallOK
    <3> QED BY <3>1, <3>2 DEF StartOK, Recorded, readState
  <2> QED BY <2>1, <2>2
<1> QED BY <1>1, SInvariant, PTL

\* cmdStart, cmdState: what `state` reports as running was let go by the start.
THEOREM RunningWasReleased ==
    ASSUME "io" \notin Faults, "crash" \notin Faults
    PROVE  Spec => []RunningMeansReleased
<1>1. SInv => RunningMeansReleased
  <2> SUFFICES ASSUME SInv, NEW i \in Ids, cmdState(i) = "running",
                      disk[i].file.InitPid \in LiveOf(i)
               PROVE  proc[disk[i].file.InitPid].st \in ReleasedStates
    BY DEF RunningMeansReleased
  <2>1. disk[i].file \in containerState /\ disk[i].file.Status = "running"
    BY DEF cmdState, readState
  <2>2. Released(i)
    BY <2>1 DEF SInv, Books, ShimOK
  <2> QED BY <2>2 DEF Released
<1> QED BY <1>1, SInvariant, PTL

\* cmdDelete: a delete that reports success leaves no process of the container, no
\* state directory and no file of it.
THEOREM DeleteIsComplete ==
    ASSUME "io" \notin Faults, "crash" \notin Faults
    PROVE  Spec => []DeletedMeansGone
<1>1. SInv => DeletedMeansGone
  BY DEF SInv, Books, ShimOK, DeletedMeansGone, NoProcessLeft
<1> QED BY <1>1, SInvariant, PTL
-----------------------------------------------------------------------------
(* Whatever fails: a record names only processes that applyCgroup has seen. *)

LEMMA PlacedKept ==
    ASSUME \A p \in Pids : KeptProc(p), NEW i
    PROVE  Unplaced(i)' \subseteq Unplaced(i)
  BY DEF KeptProc, Unplaced, LiveOf

LEMMA CallPlacedKept ==
    ASSUME NEW b, NEW d, NEW U, NEW V, CallPlaced(b, d, U), V \subseteq U
    PROVE  CallPlaced(b, d, V)
  BY DEF CallPlaced

LEMMA ShimPlacedKept ==
    ASSUME NEW k, NEW d, NEW U, NEW V, ShimPlaced(k, d, U), V \subseteq U
    PROVE  ShimPlaced(k, d, V)
  BY DEF ShimPlaced

LEMMA AssemblePlaced ==
    ASSUME RInv, NEW c \in Calls, NEW i \in Ids, OnlyCall(c), OnlyId(i),
           \A j \in Ids \ {i} : Unplaced(j)' \subseteq Unplaced(j),
           \A d \in Calls : d # c /\ call[d].id = i => call[d].op \notin Commands \ {"kill"},
           call'[c].id \in Ids => call'[c].id = i,
           call'[c].id = i => CallPlaced(call'[c], disk'[i], Unplaced(i)'),
           ShimPlaced(caller'[i], disk'[i], Unplaced(i)')
    PROVE  RecordInv'
<1>1. ASSUME NEW d \in Calls, NEW j \in Ids, call'[d].id = j
      PROVE  CallPlaced(call'[d], disk'[j], Unplaced(j)')
  <2>1. CASE d = c
    BY <1>1, <2>1
  <2>2. CASE d # c /\ j = i
    <3>1. call'[d].op \notin Commands \ {"kill"}
      BY <1>1, <2>2 DEF OnlyCall
    <3> QED BY <3>1 DEF CallPlaced, Commands
  <2>3. CASE d # c /\ j # i
    <3>1. call'[d] = call[d] /\ disk'[j] = disk[j]
      BY <2>3 DEF OnlyCall, OnlyId
    <3>2. CallPlaced(call[d], disk[j], Unplaced(j))
      BY <1>1, <3>1 DEF RInv, RecordInv
    <3> QED BY <2>3, <3>1, <3>2, CallPlacedKept
  <2> QED BY <2>1, <2>2, <2>3
<1>2. ASSUME NEW j \in Ids
      PROVE  ShimPlaced(caller'[j], disk'[j], Unplaced(j)')
  <2>1. CASE j # i
    <3>1. caller'[j] = caller[j] /\ disk'[j] = disk[j]
      BY <2>1 DEF OnlyId
    <3>2. ShimPlaced(caller[j], disk[j], Unplaced(j))
      BY DEF RInv, RecordInv
    <3> QED BY <2>1, <3>1, <3>2, ShimPlacedKept
  <2> QED BY <2>1
<1> QED BY <1>1, <1>2 DEF RecordInv

\* A step of a command other than kill, not the fork.
LEMMA PlacedContext ==
    ASSUME RInv, NEW c \in Calls, call[c].op \in Commands \ {"kill"}, CallStep(c) \/ Fault(c),
           ~CreateFork(c), NEW i \in Ids, i = call[c].id,
           call'[c].id \in Ids => call'[c].id = i,
           call'[c].id = i => CallPlaced(call'[c], disk'[i], Unplaced(i)'),
           ShimPlaced(caller'[i], disk'[i], Unplaced(i)')
    PROVE  RecordInv'
<1>1. OnlyCall(c) /\ OnlyId(i)
  BY CallOnly DEF RInv, Common
<1>2. \A j \in Ids \ {i} : Unplaced(j)' \subseteq Unplaced(j)
  BY CallKeeps, PlacedKept DEF RInv, Common
<1>3. \A d \in Calls : d # c /\ call[d].id = i => call[d].op \notin Commands \ {"kill"}
  BY DEF RInv, Common, Serialised
<1> QED BY <1>1, <1>2, <1>3, AssemblePlaced

\* It returns: the record on the disk is the one that was there, one it may have
\* written, or none; and none if the shim is to forget the container.
LEMMA PlacedReturn ==
    ASSUME RInv, NEW c \in Calls, call[c].op \in Commands \ {"kill"}, CallStep(c) \/ Fault(c),
           ~CreateFork(c), NEW i \in Ids, i = call[c].id, NEW ok \in BOOLEAN, Return(c, ok),
           disk'[i].file \in containerState => disk'[i].file.InitPid \notin Unplaced(i),
           Concluded(call[c].op, ok) = "absent" => disk'[i].file \notin containerState
    PROVE  RecordInv'
<1>1. call'[c] = Idle /\ caller'[i] = Concluded(call[c].op, ok)
  BY DEF RInv, Common, TypeInv, TypeOK, Return
<1>2. call'[c].id \notin Ids /\ call'[c].id # i
  BY <1>1, ConstantsAssumption DEF Idle
<1>3. Unplaced(i)' \subseteq Unplaced(i)
  BY CallKeeps, PlacedKept DEF RInv, Common
<1>4. ShimPlaced(caller'[i], disk'[i], Unplaced(i)')
  BY <1>1, <1>3 DEF ShimPlaced
<1> QED BY <1>1, <1>2, <1>4, PlacedContext

LEMMA ActingPlaced ==
    ASSUME RInv, NEW c \in Calls, call[c].op \in Commands \ {"kill"}
    PROVE  /\ TypeInv /\ call[c] \in Busy /\ call[c].id \in Ids /\ InFlight(c)
           /\ disk[call[c].id] \in Disk
           /\ CallPlaced(call[c], disk[call[c].id], Unplaced(call[c].id))
           /\ ShimPlaced(caller[call[c].id], disk[call[c].id], Unplaced(call[c].id))
           /\ caller[call[c].id] # "absent"
           /\ disk \in [Ids -> Disk]
<1>1. TypeInv /\ call[c] \in Busy /\ call[c].id \in Ids /\ InFlight(c)
  BY DEF RInv, Common, TypeInv, TypeOK, Idle, Busy, Commands, InFlight
<1>2. disk[call[c].id] \in Disk /\ disk \in [Ids -> Disk]
  BY <1>1 DEF TypeInv, TypeOK
<1>3. caller[call[c].id] # "absent"
  BY DEF RInv, Common, CallerAgrees, Commands, Deletes
<1> QED BY <1>1, <1>2, <1>3 DEF RInv, RecordInv

\* cmdCreate: until it writes its record there is none, so the process it forks,
\* and places, is named by nothing else.
LEMMA CreatePlaces ==
    ASSUME RInv, NEW c \in Calls,
           \/ CreateMkdir(c) \/ CreateMkfifo(c) \/ CreateFork(c) \/ CreateCgroup(c)
           \/ CreatePidFile(c)
    PROVE  RecordInv'
<1>0. PICK i : i = call[c].id
  OBVIOUS
<1>1. call[c].op = "create" /\ call[c].op \in Commands \ {"kill"} /\ CallStep(c)
  BY DEF CreateMkdir, CreateMkfifo, CreateFork, CreateCgroup, CreatePidFile, At, Commands, CallStep
<1>2. /\ TypeInv /\ call[c] \in Busy /\ i \in Ids /\ InFlight(c) /\ disk[i] \in Disk
      /\ CallPlaced(call[c], disk[i], Unplaced(i)) /\ ShimPlaced(caller[i], disk[i], Unplaced(i))
      /\ caller[i] # "absent" /\ disk \in [Ids -> Disk]
  BY <1>0, <1>1, ActingPlaced
<1>3. ~CreateFork(c) => Unplaced(i)' \subseteq Unplaced(i)
  BY <1>1, <1>2, CallKeeps, PlacedKept
<1>4. ASSUME ~CreateFork(c), call'[c].op = "create", call'[c].id = i,
             call'[c].pc \in {"mkfifo", "fork", "trunc"},
             call'[c].pc = "trunc" => call'[c].st \in containerState
                                      /\ call'[c].st.InitPid \notin Unplaced(i)',
             disk'[i].file = disk[i].file, call[c].pc # "pidfile"
      PROVE  RecordInv'
  <2>1. disk'[i].file \notin containerState
    BY <1>1, <1>2, <1>4 DEF CallPlaced
  <2>2. CallPlaced(call'[c], disk'[i], Unplaced(i)')
    BY <1>4, <2>1 DEF CallPlaced
  <2>3. ShimPlaced(caller'[i], disk'[i], Unplaced(i)')
    BY <2>1 DEF ShimPlaced
  <2> QED BY <1>0, <1>1, <1>2, <1>4, <2>2, <2>3, PlacedContext
<1>5. CASE CreateMkdir(c)
  <2>1. /\ call[c].pc = "mkdir" /\ Goto(c, "mkfifo")
        /\ disk' = [disk EXCEPT ![i] = [disk[i] EXCEPT !.dir = TRUE]]
    BY <1>0, <1>5 DEF CreateMkdir, At
  <2>2. disk'[i].file = disk[i].file
    BY <1>2, <2>1 DEF Disk
  <2>3. call'[c].pc = "mkfifo" /\ call'[c].op = "create" /\ call'[c].id = i
    BY <1>0, <1>1, <1>2, <2>1, GotoRecord
  <2> QED BY <1>4, <2>1, <2>2, <2>3 DEF CreateFork, At
<1>6. CASE CreateMkfifo(c)
  <2>1. /\ call[c].pc = "mkfifo" /\ Goto(c, "fork")
        /\ \E f : disk' = [disk EXCEPT ![i] = [disk[i] EXCEPT !.fifo = f]]
    BY <1>0, <1>6 DEF CreateMkfifo, At
  <2>2. disk'[i].file = disk[i].file
    BY <1>2, <2>1 DEF Disk
  <2>3. call'[c].pc = "fork" /\ call'[c].op = "create" /\ call'[c].id = i
    BY <1>0, <1>1, <1>2, <2>1, GotoRecord
  <2> QED BY <1>4, <2>1, <2>2, <2>3 DEF CreateFork, At
<1>7. CASE CreateFork(c)
  <2>1. call[c].pc = "fork" /\ UNCHANGED <<disk, caller>>
    BY <1>7 DEF CreateFork, At
  <2>2. PICK q \in Pids :
            /\ call' = [call EXCEPT ![c] = [call[c] EXCEPT !.pc = "cgroup", !.pid = q]]
            /\ proc'[q].id = i /\ \A p \in Pids \ {q} : proc'[p] = proc[p]
    BY <1>0, <1>2, <1>7, ForkKeeps
  <2>3. call'[c].pc = "cgroup" /\ call'[c].op = "create" /\ call'[c].id = i
    <3>1. call'[c] = [call[c] EXCEPT !.pc = "cgroup", !.pid = q]
      BY <1>2, <2>2, Moves
    <3> QED BY <1>0, <1>1, <1>2, <3>1 DEF Busy
  <2>4. disk'[i].file \notin containerState
    BY <1>1, <1>2, <2>1 DEF CallPlaced
  <2>5. CallPlaced(call'[c], disk'[i], Unplaced(i)')
    BY <2>3, <2>4 DEF CallPlaced
  <2>6. ShimPlaced(caller'[i], disk'[i], Unplaced(i)')
    BY <2>4 DEF ShimPlaced
  <2>7. OnlyCall(c) /\ OnlyId(i)
    BY <1>0, <1>1, <1>2, CallOnly
  <2>8. \A j \in Ids \ {i} : Unplaced(j)' \subseteq Unplaced(j)
    BY <2>2 DEF Unplaced, LiveOf
  <2>9. \A d \in Calls : d # c /\ call[d].id = i => call[d].op \notin Commands \ {"kill"}
    BY <1>0, <1>1 DEF RInv, Common, Serialised
  <2> QED BY <1>2, <2>3, <2>5, <2>6, <2>7, <2>8, <2>9, AssemblePlaced
<1>8. CASE CreateCgroup(c)
  <2> DEFINE r(m) == [InitPid |-> call[c].pid, Status |-> "created", CgroupPath |-> m]
  <2>1. call[c].pc = "cgroup" /\ ~CreateFork(c) /\ call[c].pid \in Pids
    BY <1>1, <1>2, <1>8 DEF CreateCgroup, CreateFork, At, TypeInv, InHand
  <2>2. PICK m \in BOOLEAN, g \in {"in", "failed"} :
            /\ disk' = [disk EXCEPT ![call[c].id].cg = @ \/ m]
            /\ proc' = [proc EXCEPT ![call[c].pid].cg = g]
            /\ call' = [call EXCEPT ![c].pc = "trunc", ![c].st = r(m)]
    BY <1>8, Zenon DEF CreateCgroup
  <2>3. r(m) \in containerState /\ r(m).InitPid = call[c].pid
    BY <2>1 DEF containerState, Statuses
  <2> HIDE DEF r
  <2>4. call'[c] = [call[c] EXCEPT !.pc = "trunc", !.st = r(m)]
    BY <1>2, <2>2 DEF TypeInv, TypeOK
  <2>5. call'[c].pc = "trunc" /\ call'[c].op = "create" /\ call'[c].id = i /\ call'[c].st = r(m)
    BY <1>0, <1>1, <1>2, <2>4 DEF Busy
  <2>6. disk'[i].file = disk[i].file
    BY <1>0, <1>2, <2>2 DEF Disk
  <2>7. proc'[call[c].pid].cg # "none"
    BY <1>2, <2>1, <2>2 DEF TypeInv, TypeOK, Proc
  <2>8. call[c].pid \notin Unplaced(i)'
    BY <2>7 DEF Unplaced
  <2> QED BY <1>4, <2>1, <2>3, <2>5, <2>6, <2>8
<1>9. CASE CreatePidFile(c)
  <2>1. call[c].pc = "pidfile" /\ Return(c, TRUE) /\ disk' = disk
    BY <1>9 DEF CreatePidFile, At
  <2>2. ~CreateFork(c)
    BY <2>1 DEF CreateFork, At
  <2>3. Concluded(call[c].op, TRUE) # "absent"
    BY <1>1 DEF Concluded
  <2> QED BY <1>0, <1>1, <1>2, <2>1, <2>2, <2>3, PlacedReturn DEF ShimPlaced
<1> QED BY <1>5, <1>6, <1>7, <1>8, <1>9

\* writeState truncates, which leaves no record, and writes the one it has.
LEMMA WritePlaces ==
    ASSUME RInv, NEW c \in Calls, WriteTrunc(c) \/ WriteBody(c)
    PROVE  RecordInv'
<1>0. PICK i : i = call[c].id
  OBVIOUS
<1>1. /\ call[c].pc \in {"trunc", "write"} /\ call[c] \in Busy /\ CallStep(c)
      /\ call[c].op \in {"create", "start"} /\ call[c].op \in Commands \ {"kill"} /\ ~CreateFork(c)
  <2>1. call[c].pc \in {"trunc", "write"} /\ CallStep(c) /\ ~CreateFork(c)
    BY DEF WriteTrunc, WriteBody, CallStep, CreateFork, At
  <2>2. call[c] \in Busy
    BY <2>1, InFlightBusy DEF PCs, RInv, Common
  <2>3. call[c].op \in {"create", "start"}
    BY <2>1, <2>2 DEF RInv, Common, Programs, Program, Busy, Commands, Deletes
  <2> QED BY <2>1, <2>2, <2>3 DEF Commands
<1>2. /\ TypeInv /\ i \in Ids /\ InFlight(c) /\ disk[i] \in Disk
      /\ CallPlaced(call[c], disk[i], Unplaced(i)) /\ ShimPlaced(caller[i], disk[i], Unplaced(i))
      /\ caller[i] # "absent" /\ disk \in [Ids -> Disk]
  BY <1>0, <1>1, ActingPlaced
<1>3. Unplaced(i)' \subseteq Unplaced(i)
  BY <1>1, <1>2, CallKeeps, PlacedKept
<1>4. call[c].st.InitPid \notin Unplaced(i)
  BY <1>1, <1>2 DEF CallPlaced
<1>5. \A ok \in BOOLEAN : Concluded(call[c].op, ok) # "absent"
  BY <1>1 DEF Concluded
<1>6. CASE WriteTrunc(c) /\ ~disk[i].dir
  <2>1. Return(c, FALSE) /\ disk' = disk
    BY <1>0, <1>6 DEF WriteTrunc
  <2> QED BY <1>0, <1>1, <1>2, <1>5, <2>1, PlacedReturn DEF ShimPlaced
<1>7. CASE WriteTrunc(c) /\ disk[i].dir
  <2>1. /\ call[c].pc = "trunc" /\ Goto(c, "write")
        /\ disk' = [disk EXCEPT ![i] = [disk[i] EXCEPT !.file = Torn]]
    BY <1>0, <1>7 DEF WriteTrunc
  <2>2. disk'[i].file \notin containerState
    BY <1>2, <2>1, RecordAssumption DEF Disk
  <2>3. /\ call'[c].pc = "write" /\ call'[c].op = call[c].op /\ call'[c].id = i
        /\ call'[c].st = call[c].st
    BY <1>0, <1>2, <2>1, GotoRecord
  <2>4. CallPlaced(call'[c], disk'[i], Unplaced(i)')
    BY <1>2, <1>3, <2>1, <2>2, <2>3 DEF CallPlaced
  <2>5. ShimPlaced(caller'[i], disk'[i], Unplaced(i)')
    BY <2>2 DEF ShimPlaced
  <2> QED BY <1>0, <1>1, <1>2, <2>3, <2>4, <2>5, PlacedContext
<1>8. CASE WriteBody(c)
  <2>1. call[c].pc = "write" /\ disk' = [disk EXCEPT ![i] = [disk[i] EXCEPT !.file = call[c].st]]
    BY <1>0, <1>8 DEF WriteBody
  <2>2. disk'[i].file = call[c].st
    BY <1>2, <2>1 DEF Disk
  <2>3. CASE call[c].op = "create"
    <3>1. Goto(c, "pidfile") /\ caller' = caller
      BY <1>8, <2>3 DEF WriteBody
    <3>2. call'[c].pc = "pidfile" /\ call'[c].op = "create" /\ call'[c].id = i
      BY <1>0, <1>2, <2>3, <3>1, GotoRecord
    <3>3. CallPlaced(call'[c], disk'[i], Unplaced(i)')
      BY <3>2 DEF CallPlaced
    <3>4. ShimPlaced(caller'[i], disk'[i], Unplaced(i)')
      BY <1>2, <1>3, <1>4, <2>2, <3>1 DEF ShimPlaced
    <3> QED BY <1>0, <1>1, <1>2, <3>2, <3>3, <3>4, PlacedContext
  <2>4. CASE call[c].op # "create"
    <3>1. Return(c, TRUE)
      BY <1>8, <2>4 DEF WriteBody
    <3> QED BY <1>0, <1>1, <1>2, <1>4, <1>5, <2>2, <3>1, PlacedReturn
  <2> QED BY <2>3, <2>4
<1> QED BY <1>6, <1>7, <1>8

\* cmdStart carries the pid of the record it has read.
LEMMA StartPlaces ==
    ASSUME RInv, NEW c \in Calls,
           \/ StartRead(c) \/ StartOpen(c) \/ StartOpened(c) \/ StartReadByte(c) \/ StartUnlink(c)
    PROVE  RecordInv'
<1>0. PICK i : i = call[c].id
  OBVIOUS
<1>1. /\ call[c].op = "start" /\ call[c].op \in Commands \ {"kill"} /\ ~CreateFork(c) /\ CallStep(c)
  BY DEF StartRead, StartOpen, StartOpened, StartReadByte, StartUnlink, At, CreateFork, Commands,
     CallStep
<1>2. /\ TypeInv /\ call[c] \in Busy /\ i \in Ids /\ InFlight(c) /\ disk[i] \in Disk
      /\ CallPlaced(call[c], disk[i], Unplaced(i)) /\ ShimPlaced(caller[i], disk[i], Unplaced(i))
      /\ caller[i] # "absent" /\ disk \in [Ids -> Disk]
  BY <1>0, <1>1, ActingPlaced
<1>3. Unplaced(i)' \subseteq Unplaced(i)
  BY <1>1, <1>2, CallKeeps, PlacedKept
<1>4. call[c].pc # "read" => /\ call[c].st.InitPid \notin Unplaced(i)
                             /\ call[c].st \in containerState
  BY <1>1, <1>2 DEF CallPlaced, TypeInv, InHand
<1>5. ASSUME call'[c].op = "start", call'[c].id = i, UNCHANGED caller,
             disk'[i].file = disk[i].file, call'[c].st.InitPid \notin Unplaced(i)
      PROVE  RecordInv'
  <2>1. CallPlaced(call'[c], disk'[i], Unplaced(i)')
    BY <1>3, <1>5 DEF CallPlaced
  <2>2. ShimPlaced(caller'[i], disk'[i], Unplaced(i)')
    BY <1>2, <1>3, <1>5 DEF ShimPlaced
  <2> QED BY <1>0, <1>1, <1>2, <1>5, <2>1, <2>2, PlacedContext
<1>6. CASE Return(c, FALSE) /\ UNCHANGED disk
  <2>1. Concluded(call[c].op, FALSE) # "absent"
    BY DEF Concluded
  <2> QED BY <1>0, <1>1, <1>2, <1>6, <2>1, PlacedReturn DEF ShimPlaced
<1>7. CASE StartRead(c) /\ readState(i)
  <2>1. /\ call' = [call EXCEPT ![c] = [call[c] EXCEPT !.pc = "open", !.st = disk[i].file]]
        /\ UNCHANGED <<disk, caller>>
    BY <1>0, <1>7 DEF StartRead
  <2>2. call'[c] = [call[c] EXCEPT !.pc = "open", !.st = disk[i].file]
    BY <1>2, <2>1, Moves
  <2>3. call'[c].op = "start" /\ call'[c].id = i /\ call'[c].st = disk[i].file
    BY <1>0, <1>1, <1>2, <2>2 DEF Busy
  <2>4. disk[i].file.InitPid \notin Unplaced(i)
    BY <1>2, <1>7 DEF ShimPlaced, readState
  <2> QED BY <1>5, <2>1, <2>3, <2>4
<1>8. CASE (StartOpen(c) /\ ~Return(c, FALSE)) \/ StartReadByte(c)
  <2>1. PICK l, f : call' = [call EXCEPT ![c] = [call[c] EXCEPT !.pc = l, !.fifo = f]]
    <3>1. CASE StartOpen(c) /\ ~Return(c, FALSE)
      <4>1. call' = [call EXCEPT ![c] = [call[c] EXCEPT !.pc = "opening", !.fifo = disk[call[c].id].fifo]]
        BY <3>1 DEF StartOpen
      <4> QED BY <4>1, Zenon
    <3>2. CASE StartReadByte(c)
      <4>1. call' = [call EXCEPT ![c] = [call[c] EXCEPT !.pc = "unlink", !.fifo = None]]
        BY <3>2 DEF StartReadByte
      <4> QED BY <4>1, Zenon
    <3> QED BY <1>8, <3>1, <3>2
  <2>2. call[c].pc # "read" /\ UNCHANGED <<disk, caller>>
    BY <1>8 DEF StartOpen, StartReadByte, At
  <2>3. call'[c] = [call[c] EXCEPT !.pc = l, !.fifo = f]
    BY <1>2, <2>1, Moves
  <2>4. call'[c].op = "start" /\ call'[c].id = i /\ call'[c].st = call[c].st
    BY <1>0, <1>1, <1>2, <2>3 DEF Busy
  <2> QED BY <1>4, <1>5, <2>2, <2>4
<1>9. CASE StartOpened(c)
  <2>1. call[c].pc = "opening" /\ UNCHANGED <<disk, caller>> /\ Goto(c, "reading")
    BY <1>9 DEF StartOpened, At
  <2>2. call'[c].op = "start" /\ call'[c].id = i /\ call'[c].st = call[c].st
    BY <1>0, <1>1, <1>2, <2>1, GotoRecord
  <2> QED BY <1>4, <1>5, <2>1, <2>2
<1>10. CASE StartUnlink(c)
  <2> DEFINE r == [call[c].st EXCEPT !.Status = "running"]
  <2>1. /\ call[c].pc = "unlink" /\ UNCHANGED caller
        /\ call' = [call EXCEPT ![c] = [call[c] EXCEPT !.pc = "trunc", !.st = r]]
        /\ disk' = [disk EXCEPT ![i] = [disk[i] EXCEPT !.fifo = None]]
    BY <1>0, <1>10, ZenonT(40) DEF StartUnlink, At
  <2>2. r.InitPid = call[c].st.InitPid
    BY <1>4, <2>1 DEF containerState
  <2> HIDE DEF r
  <2>3. call'[c] = [call[c] EXCEPT !.pc = "trunc", !.st = r]
    BY <1>2, <2>1, Moves
  <2>4. call'[c].op = "start" /\ call'[c].id = i /\ call'[c].st = r
    BY <1>0, <1>1, <1>2, <2>3 DEF Busy
  <2>5. disk'[i].file = disk[i].file
    BY <1>2, <2>1 DEF Disk
  <2> QED BY <1>4, <1>5, <2>1, <2>2, <2>4, <2>5
<1> QED BY <1>0, <1>6, <1>7, <1>8, <1>9, <1>10 DEF StartRead, StartOpen

\* cmdDelete writes no record.
LEMMA DeletePlaces ==
    ASSUME RInv, NEW c \in Calls,
           \/ DeleteRead(c) \/ DeleteSignal(c) \/ DeleteCgroup(c) \/ DeleteEntry(c) \/ DeleteDir(c)
    PROVE  RecordInv'
<1>0. PICK i : i = call[c].id
  OBVIOUS
<1>1. /\ call[c].op \in Deletes /\ call[c].op \in Commands \ {"kill"} /\ ~CreateFork(c) /\ CallStep(c)
  BY DEF DeleteRead, DeleteSignal, DeleteCgroup, DeleteEntry, DeleteDir, At, CreateFork, Commands,
     Deletes, CallStep
<1>2. /\ TypeInv /\ call[c] \in Busy /\ i \in Ids /\ InFlight(c) /\ disk[i] \in Disk
      /\ ShimPlaced(caller[i], disk[i], Unplaced(i))
      /\ caller[i] # "absent" /\ disk \in [Ids -> Disk]
  BY <1>0, <1>1, ActingPlaced
<1>3. Unplaced(i)' \subseteq Unplaced(i)
  BY <1>1, <1>2, CallKeeps, PlacedKept
<1>4. ASSUME call'[c].op \in Deletes, call'[c].id = i, UNCHANGED caller,
             disk'[i].file \in {disk[i].file, None}
      PROVE  RecordInv'
  <2>1. CallPlaced(call'[c], disk'[i], Unplaced(i)')
    BY <1>4 DEF CallPlaced, Deletes
  <2>2. ShimPlaced(caller'[i], disk'[i], Unplaced(i)')
    BY <1>2, <1>3, <1>4, RecordAssumption DEF ShimPlaced
  <2> QED BY <1>0, <1>1, <1>2, <1>4, <2>1, <2>2, PlacedContext
<1>5. CASE DeleteRead(c) /\ readState(i)
  <2>1. /\ call' = [call EXCEPT ![c] = [call[c] EXCEPT !.pc = "signal", !.st = disk[i].file]]
        /\ UNCHANGED <<disk, caller>>
    BY <1>0, <1>5 DEF DeleteRead
  <2>2. call'[c] = [call[c] EXCEPT !.pc = "signal", !.st = disk[i].file]
    BY <1>2, <2>1, Moves
  <2>3. call'[c].op = call[c].op /\ call'[c].id = i
    BY <1>0, <1>2, <2>2 DEF Busy
  <2> QED BY <1>1, <1>4, <2>1, <2>3
<1>6. CASE DeleteRead(c) /\ ~readState(i)
  <2>1. Return(c, TRUE) /\ disk' = disk /\ disk[i].file \notin containerState
    BY <1>0, <1>6 DEF DeleteRead, readState
  <2> QED BY <1>0, <1>1, <1>2, <2>1, PlacedReturn
<1>7. CASE DeleteSignal(c)
  <2>1. Goto(c, "rmcg") /\ UNCHANGED <<disk, caller>>
    BY <1>7 DEF DeleteSignal
  <2> QED BY <1>0, <1>1, <1>2, <1>4, <2>1, GotoRecord
<1>8. CASE DeleteCgroup(c)
  <2>1. PICK g : disk' = [disk EXCEPT ![i] = [disk[i] EXCEPT !.cg = g]]
    BY <1>0, <1>8 DEF DeleteCgroup
  <2>2. Goto(c, "rmall") /\ UNCHANGED caller
    BY <1>8 DEF DeleteCgroup
  <2>3. disk'[i].file = disk[i].file
    BY <1>2, <2>1 DEF Disk
  <2> QED BY <1>0, <1>1, <1>2, <1>4, <2>2, <2>3, GotoRecord
<1>9. CASE DeleteEntry(c)
  <2>1. /\ UNCHANGED <<call, caller>>
        /\ \/ disk' = [disk EXCEPT ![i] = [disk[i] EXCEPT !.fifo = None]]
           \/ disk' = [disk EXCEPT ![i] = [disk[i] EXCEPT !.file = None]]
    BY <1>0, <1>9 DEF DeleteEntry
  <2>2. disk'[i].file \in {disk[i].file, None}
    BY <1>2, <2>1 DEF Disk
  <2> QED BY <1>0, <1>1, <1>4, <2>1, <2>2
<1>10. CASE DeleteDir(c)
  <2>1. /\ Return(c, TRUE) /\ disk[i].file = None
        /\ disk' = [disk EXCEPT ![i] = [disk[i] EXCEPT !.dir = FALSE]]
    BY <1>0, <1>10 DEF DeleteDir
  <2>2. disk'[i].file \notin containerState
    BY <1>2, <2>1, RecordAssumption DEF Disk
  <2> QED BY <1>0, <1>1, <1>2, <2>1, <2>2, PlacedReturn
<1> QED BY <1>5, <1>6, <1>7, <1>8, <1>9, <1>10

\* A failure leaves the disk as it is; the shim takes the container for failed.
LEMMA FaultPlaces ==
    ASSUME RInv, NEW c \in Calls, Fault(c), call[c].op \in Commands \ {"kill"}
    PROVE  RecordInv'
<1>0. PICK i : i = call[c].id
  OBVIOUS
<1>1. Return(c, FALSE) /\ UNCHANGED <<disk, proc>>
  BY DEF Fault, IoError, Crash, StartTimeout
<1>2. TypeInv /\ i \in Ids /\ ShimPlaced(caller[i], disk[i], Unplaced(i))
      /\ call \in [Calls -> Busy \cup {Idle}] /\ call[c] \in Busy
  BY <1>0, ActingPlaced DEF TypeInv, TypeOK
<1>3. ~CreateFork(c)
  <2>1. call'[c] = Idle
    BY <1>1, <1>2 DEF Return
  <2>2. CreateFork(c) => call'[c].pc = "cgroup"
    BY <1>2 DEF CreateFork, Busy
  <2> QED BY <2>1, <2>2 DEF Idle
<1>4. Concluded(call[c].op, FALSE) # "absent"
  BY DEF Concluded
<1> QED BY <1>0, <1>1, <1>2, <1>3, <1>4, PlacedReturn DEF ShimPlaced

LEMMA QuietPlaces ==
    ASSUME RInv, UNCHANGED <<disk, caller>>, \A i \in Ids : Unplaced(i)' \subseteq Unplaced(i),
           \A c \in Calls : \/ /\ call'[c].id = call[c].id /\ call'[c].op = call[c].op
                               /\ call'[c].st = call[c].st
                               /\ \/ call'[c].pc = call[c].pc
                                  \/ call[c].op = "start" /\ call[c].pc # "read"
                            \/ call'[c].op \notin {"create", "start"}
    PROVE  RecordInv'
<1>1. ASSUME NEW c \in Calls, NEW i \in Ids, call'[c].id = i
      PROVE  CallPlaced(call'[c], disk'[i], Unplaced(i)')
  <2>1. CASE call'[c].op \notin {"create", "start"}
    BY <2>1 DEF CallPlaced
  <2>2. CASE call'[c].op \in {"create", "start"}
    <3>1. CallPlaced(call[c], disk[i], Unplaced(i))
      BY <1>1, <2>2 DEF RInv, RecordInv
    <3>2. CallPlaced(call'[c], disk[i], Unplaced(i))
      BY <2>2, <3>1 DEF CallPlaced
    <3> QED BY <3>2, CallPlacedKept
  <2> QED BY <2>1, <2>2
<1>2. ASSUME NEW i \in Ids PROVE ShimPlaced(caller'[i], disk'[i], Unplaced(i)')
  <2>1. ShimPlaced(caller[i], disk[i], Unplaced(i))
    BY DEF RInv, RecordInv
  <2> QED BY <2>1, ShimPlacedKept
<1> QED BY <1>1, <1>2 DEF RecordInv

LEMMA KillPlaces ==
    ASSUME RInv, NEW c \in Calls, KillRead(c) \/ KillSignal(c) \/ (Fault(c) /\ call[c].op = "kill")
    PROVE  RecordInv'
<1>1. call[c].op = "kill" /\ UNCHANGED <<disk, caller>>
  BY DEF KillRead, KillSignal, At, Fault, IoError, Crash, StartTimeout, Return
<1>2. TypeInv /\ OnlyCall(c) /\ ~CreateFork(c) /\ (CallStep(c) \/ Fault(c))
      /\ call \in [Calls -> Busy \cup {Idle}]
  <2>1. ~CreateFork(c) /\ (CallStep(c) \/ Fault(c))
    BY <1>1 DEF CallStep, CreateFork, At
  <2> QED BY <2>1, CallOnly DEF RInv, Common, TypeInv, TypeOK
<1>3. \A i \in Ids : Unplaced(i)' \subseteq Unplaced(i)
  BY <1>2, CallKeeps, PlacedKept
<1>4. call'[c].op \notin {"create", "start"}
  <2>1. CASE Return(c, TRUE) \/ Return(c, FALSE)
    <3>1. call'[c] = Idle
      BY <1>2, <2>1 DEF Return
    <3> QED BY <3>1 DEF Idle
  <2>2. CASE call' = [call EXCEPT ![c].pc = "signal", ![c].st = disk[call[c].id].file]
    <3>1. call'[c] = [call[c] EXCEPT !.pc = "signal", !.st = disk[call[c].id].file]
      BY <1>2, <2>2
    <3>2. call[c] \in Busy
      BY <1>1, <1>2 DEF Idle
    <3>3. call'[c].op = "kill"
      BY <1>1, <3>1, <3>2 DEF Busy
    <3> QED BY <3>3
  <2> QED BY <2>1, <2>2 DEF KillRead, KillSignal, Fault, IoError, Crash, StartTimeout
<1> QED BY <1>1, <1>2, <1>3, <1>4, QuietPlaces DEF OnlyCall

LEMMA ProcPlaces ==
    ASSUME RInv, NEW p \in Pids, ProcStep(p)
    PROVE  RecordInv'
<1>1. TypeInv /\ UNCHANGED <<disk, caller>>
  BY DEF RInv, Common, ProcStep, InitStep, InitOpenFifo, InitRootfs, InitOpenedLate, InitWrite,
     InitExec, ProcExit, KernelExit, Reap, OtherFork
<1>2. \A i \in Ids : Unplaced(i)' \subseteq Unplaced(i)
  BY <1>1, ProcKeeps, PlacedKept
<1>3. CASE UNCHANGED call
  BY <1>1, <1>2, <1>3, QuietPlaces
<1>4. CASE InitWrite(p) /\ ~UNCHANGED call
  <2> DEFINE R == Readers(proc[p].id, proc[p].fifo)
  <2>1. call' = [c \in Calls |-> IF c \in R THEN [call[c] EXCEPT !.pc = "gotbyte"] ELSE call[c]]
    BY <1>4 DEF InitWrite
  <2>2. ASSUME NEW c \in R
        PROVE  /\ c \in Calls /\ call[c] \in Busy /\ call[c].op = "start"
               /\ call[c].pc \in {"reading", "gotbyte"}
    BY <1>1, InFlightBusy DEF Readers, PCs
  <2> HIDE DEF R
  <2>3. ASSUME NEW c \in Calls
        PROVE  /\ call'[c].id = call[c].id /\ call'[c].op = call[c].op /\ call'[c].st = call[c].st
               /\ \/ call'[c].pc = call[c].pc
                  \/ call[c].op = "start" /\ call[c].pc # "read"
    <3>1. CASE c \notin R
      BY <2>1, <3>1
    <3>2. CASE c \in R
      BY <2>1, <2>2, <3>2 DEF Busy
    <3> QED BY <3>1, <3>2
  <2> QED BY <1>1, <1>2, <2>3, QuietPlaces
<1> QED BY <1>3, <1>4 DEF ProcStep, InitStep, InitOpenFifo, InitRootfs, InitOpenedLate, InitExec,
      ProcExit, KernelExit, Reap, OtherFork

LEMMA InvokePlaces ==
    ASSUME RInv, NEW c \in Calls, NEW op \in Commands, NEW i \in Ids, Invoke(c, op, i)
    PROVE  RecordInv'
<1> DEFINE b == [op |-> op, id |-> i, pc |-> IF op = "create" THEN "mkdir" ELSE "read",
                 fifo |-> None, pid |-> None, st |-> None]
<1>1. /\ call' = [call EXCEPT ![c] = b] /\ UNCHANGED <<disk, proc>>
      /\ caller' = [caller EXCEPT ![i] = Pending(op, i)] /\ MayInvoke(op, i)
  BY DEF Invoke
<1>2. TypeInv /\ call'[c] = b /\ OnlyCall(c) /\ OnlyId(i)
  BY <1>1 DEF RInv, Common, TypeInv, TypeOK, OnlyCall, OnlyId
<1>3. \A j \in Ids : Unplaced(j)' = Unplaced(j)
  BY <1>1 DEF LiveOf, Unplaced
<1>4. b.op = op /\ b.id = i /\ b.pc = IF op = "create" THEN "mkdir" ELSE "read"
  OBVIOUS
<1>5. ShimPlaced(caller[i], disk[i], Unplaced(i))
  BY DEF RInv, RecordInv
<1> HIDE DEF b
<1>6. CASE op = "kill"
  <2>1. caller' = caller
    BY <1>1, <1>2, <1>6 DEF Pending, TypeInv, TypeOK
  <2> QED BY <1>1, <1>2, <1>3, <1>4, <1>6, <2>1, QuietPlaces DEF OnlyCall
<1>7. CASE op # "kill"
  <2>1. \A d \in Calls : d # c /\ call[d].id = i => call[d].op \notin Commands \ {"kill"}
    BY <1>1, <1>7 DEF MayInvoke, Serial
  <2>2. caller'[i] \in {"creating", "starting", "deleting"}
    BY <1>1, <1>2, <1>7 DEF Pending, TypeInv, TypeOK
  <2>3. ShimPlaced(caller'[i], disk'[i], Unplaced(i)')
    BY <1>1, <1>3, <1>5, <2>2 DEF ShimPlaced
  <2>4. op = "create" => disk[i].file \notin containerState
    BY <1>1, <1>5 DEF MayInvoke, ShimPlaced
  <2>5. CallPlaced(b, disk[i], Unplaced(i))
    BY <1>4, <2>4 DEF CallPlaced
  <2>6. call'[c].id = i /\ CallPlaced(call'[c], disk'[i], Unplaced(i)')
    BY <1>1, <1>2, <1>3, <1>4, <2>5
  <2> QED BY <1>2, <1>3, <2>1, <2>3, <2>6, AssemblePlaced
<1> QED BY <1>6, <1>7

LEMMA RInvStep ==
    ASSUME RInv, [Next]_vars
    PROVE  RInv'
<1>1. Common'
  BY CommonStep DEF RInv
<1>2. RecordInv'
  <2>1. CASE UNCHANGED vars
    BY <2>1 DEF vars, RInv, RecordInv, CallPlaced, ShimPlaced, Unplaced, LiveOf
  <2>2. ASSUME NEW c \in Calls, CallStep(c) PROVE RecordInv'
    BY <2>2, CreatePlaces, WritePlaces, StartPlaces, KillPlaces, DeletePlaces DEF CallStep
  <2>3. ASSUME NEW c \in Calls, Fault(c) PROVE RecordInv'
    <3>1. call[c] \in Busy /\ call[c].op \in Commands
      <4>1. call[c] # Idle
        <5>1. call[c].pc # "idle" \/ InFlight(c)
          BY <2>3 DEF Fault, IoError, Crash, StartTimeout, At
        <5>2. Idle.pc = "idle"
          BY DEF Idle
        <5> QED BY <5>1, <5>2 DEF InFlight
      <4>2. call[c] \in Busy
        BY <4>1 DEF RInv, Common, TypeInv, TypeOK
      <4> QED BY <4>2 DEF Busy
    <3> QED BY <2>3, <3>1, FaultPlaces, KillPlaces
  <2> QED BY <2>1, <2>2, <2>3, InvokePlaces, ProcPlaces DEF Next
<1> QED BY <1>1, <1>2 DEF RInv

LEMMA RInvInit == Init => RInv
<1> SUFFICES ASSUME Init PROVE RInv
  OBVIOUS
<1>1. \A c \in Calls : call[c].id \notin Ids
  BY ConstantsAssumption DEF Init, Idle
<1>2. \A i \in Ids : disk[i].file = None
  BY DEF Init, EmptyDisk
<1>3. RecordInv
  BY <1>1, <1>2, RecordAssumption DEF RecordInv, ShimPlaced
<1> QED BY <1>3, CommonInit DEF RInv

\* cmdCreate, writeState: whatever call fails and whichever invocation is killed
\* between two of its steps, a state.json that can be read back names no process of
\* its container that did not go through applyCgroup.
THEOREM RecordedIsPlaced == Spec => []RecordedPlaced
<1>1. RInv => RecordedPlaced
  BY DEF RInv, RecordInv, ShimPlaced, Unplaced, RecordedPlaced, readState
<1>2. RInv /\ [Next]_vars => RInv'
  BY RInvStep
<1> QED BY <1>1, <1>2, RInvInit, PTL DEF Spec
-----------------------------------------------------------------------------
(* The lifecycle: the refinement mapping of OciRuntime, step by step.      *)

\* What PhaseOf is computed from.
St(i) == {proc[p].st : p \in LiveOf(i)}
Forking(i) == \E c \in Calls : call[c].id = i /\ call[c].pc \in {"mkdir", "mkfifo", "fork"}

Ph(k, S, e) ==
    IF k = "absent" THEN "absent"
    ELSE IF "user" \in S THEN "running"
    ELSE IF S \cap {"write", "exec"} # {} THEN "released"
    ELSE IF k = "creating" /\ (S # {} \/ e) THEN "creating"
    ELSE IF S # {} THEN "created"
    ELSE "stopped"

\* A container has one process at a time, and none is let go before its start.
Single == \A i \in Ids : \A p, q \in LiveOf(i) : p = q
Held == \A i \in Ids : caller[i] \in {"creating", "created"} =>
            \A p \in LiveOf(i) : proc[p].st \notin ReleasedStates

LInv == SInv /\ Single /\ Held

LEMMA PhaseIs ==
    ASSUME NEW i
    PROVE  /\ PhaseOf(i) = Ph(caller[i], St(i), Forking(i))
           /\ PhaseOf(i)' = Ph(caller'[i], St(i)', Forking(i)')
  BY DEF PhaseOf, Ph, St, Forking

\* A live process is its container's only one, and the container is past the fork.
LEMMA LiveFacts ==
    ASSUME LInv, NEW q \in Pids, proc[q].st \in ContainerStates
    PROVE  LET i == proc[q].id IN
           /\ i \in Ids /\ LiveOf(i) = {q} /\ St(i) = {proc[q].st}
           /\ caller[i] # "absent" /\ ~Forking(i)
<1>0. PICK i : i = proc[q].id
  OBVIOUS
<1>1. i \in Ids /\ q \in LiveOf(i)
  BY <1>0 DEF LInv, SInv, Common, Owned, LiveOf
<1>2. LiveOf(i) = {q}
  BY <1>1 DEF LInv, Single
<1>3. St(i) = {proc[q].st}
  BY <1>2 DEF St
<1>4. caller[i] # "absent"
  BY <1>1 DEF LInv, SInv, Books, ShimOK
<1>5. ASSUME NEW c \in Calls, call[c].id = i, call[c].pc \in {"mkdir", "mkfifo", "fork"}
      PROVE  FALSE
  <2>1. call[c] \in Busy
    BY <1>5, InFlightBusy DEF LInv, SInv, Common, PCs
  <2>2. call[c].op = "create"
    BY <1>5, <2>1 DEF LInv, SInv, Common, Programs, Program, Busy, Commands, Deletes
  <2>3. LiveOf(i) = {}
    BY <1>1, <1>5, <2>2 DEF LInv, SInv, Books, CallOK, CreateOK
  <2> QED BY <1>1, <2>3
<1> QED BY <1>0, <1>1, <1>2, <1>3, <1>4, <1>5 DEF Forking

\* The abstract steps of one container.
LStep(f, s, g, t) ==
    \/ g = f /\ t = s
    \/ /\ t = s
       /\ \/ f = "absent" /\ g = "creating"
          \/ f = "creating" /\ g = "created"
          \/ f = "created" /\ g = "released" /\ s = "pending"
          \/ f = "released" /\ g = "running"
          \/ f \in {"creating", "created", "released", "running"} /\ g = "stopped"
    \/ f = "stopped" /\ s # "pending" /\ g = "absent" /\ t = "none"
    \/ /\ g = f
       /\ \/ s = "none" /\ f \in {"created", "stopped"} /\ t = "pending"
          \/ s = "pending" /\ f \in {"released", "running", "stopped"} /\ t = "done"
          \/ s \in {"pending", "done"} /\ t = "none"

LEMMA Maps ==
    ASSUME NEW i \in Ids,
           \A j \in Ids \ {i} : PhaseOf(j)' = PhaseOf(j) /\ StartOf(j)' = StartOf(j),
           LStep(PhaseOf(i), StartOf(i), PhaseOf(i)', StartOf(i)')
    PROVE  [Lifecycle!LNext]_(Lifecycle!lvars)
<1> DEFINE f == [j \in Ids |-> PhaseOf(j)]
           s == [j \in Ids |-> StartOf(j)]
           g == [j \in Ids |-> PhaseOf(j)']
           t == [j \in Ids |-> StartOf(j)']
<1>1. g = [f EXCEPT ![i] = PhaseOf(i)'] /\ t = [s EXCEPT ![i] = StartOf(i)']
  OBVIOUS
<1>2. f[i] = PhaseOf(i) /\ s[i] = StartOf(i) /\ f = [f EXCEPT ![i] = f[i]] /\ s = [s EXCEPT ![i] = s[i]]
  OBVIOUS
<1>3. f' = g /\ s' = t
  OBVIOUS
<1> HIDE DEF f, s, g, t
<1> USE DEF LStep
<1>4. CASE PhaseOf(i)' = PhaseOf(i) /\ StartOf(i)' = StartOf(i)
  <2>1. f' = f /\ s' = s
    BY <1>1, <1>2, <1>3, <1>4
  <2> QED BY <2>1 DEF Lifecycle!lvars, f, s
<1>5. ASSUME StartOf(i)' = StartOf(i), NEW from, f[i] \in from
      PROVE  Lifecycle!Move(i, from, PhaseOf(i)')
  <2>1. f' = [f EXCEPT ![i] = PhaseOf(i)'] /\ s' = s
    BY <1>1, <1>2, <1>3, <1>5
  <2> QED BY <1>5, <2>1 DEF Lifecycle!Move, f, s
<1>6. ASSUME StartOf(i)' = StartOf(i), PhaseOf(i)' # PhaseOf(i), PhaseOf(i)' # "absent" PROVE Lifecycle!LNext
  <2>1. CASE PhaseOf(i) = "absent"
    BY <1>2, <1>5, <1>6, <2>1 DEF Lifecycle!LNext, Lifecycle!Create
  <2>2. CASE PhaseOf(i) = "creating" /\ PhaseOf(i)' = "created"
    BY <1>2, <1>5, <1>6, <2>2 DEF Lifecycle!LNext, Lifecycle!Created
  <2>3. CASE PhaseOf(i) = "created" /\ PhaseOf(i)' = "released"
    <3>1. s[i] = "pending"
      BY <1>2, <1>6, <2>3
    <3> QED BY <1>2, <1>5, <1>6, <2>3, <3>1 DEF Lifecycle!LNext, Lifecycle!Release, s
  <2>4. CASE PhaseOf(i) = "released" /\ PhaseOf(i)' = "running"
    BY <1>2, <1>5, <1>6, <2>4 DEF Lifecycle!LNext, Lifecycle!Run
  <2>5. CASE PhaseOf(i) \in {"creating", "created", "released", "running"} /\ PhaseOf(i)' = "stopped"
    BY <1>2, <1>5, <1>6, <2>5 DEF Lifecycle!LNext, Lifecycle!Stop, Lifecycle!Phases
  <2> QED BY <1>6, <2>1, <2>2, <2>3, <2>4, <2>5
<1>7. CASE PhaseOf(i) = "stopped" /\ StartOf(i) # "pending" /\ PhaseOf(i)' = "absent" /\ StartOf(i)' = "none"
  <2>1. f' = [f EXCEPT ![i] = "absent"] /\ s' = [s EXCEPT ![i] = "none"] /\ f[i] = "stopped" /\ s[i] # "pending"
    BY <1>1, <1>2, <1>3, <1>7
  <2> QED BY <2>1 DEF Lifecycle!LNext, Lifecycle!Delete, f, s
<1>8. CASE PhaseOf(i)' = PhaseOf(i) /\ StartOf(i)' # StartOf(i)
  <2>1. f' = f /\ s' = [s EXCEPT ![i] = StartOf(i)'] /\ f[i] = PhaseOf(i) /\ s[i] = StartOf(i)
    BY <1>1, <1>2, <1>3, <1>8
  <2>2. CASE StartOf(i) = "none"
    BY <1>8, <2>1, <2>2 DEF Lifecycle!LNext, Lifecycle!Start, f, s
  <2>3. CASE StartOf(i)' = "done"
    BY <1>8, <2>1, <2>3 DEF Lifecycle!LNext, Lifecycle!StartDone, f, s
  <2>4. CASE StartOf(i)' = "none"
    BY <1>8, <2>1, <2>4 DEF Lifecycle!LNext, Lifecycle!StartOver, f, s
  <2> QED BY <1>8, <2>2, <2>3, <2>4
<1> QED BY <1>4, <1>6, <1>7, <1>8

-----------------------------------------------------------------------------
(* One process per container, held back until its start.                   *)

LEMMA StepShrinks ==
    ASSUME TypeInv, [Next]_vars, NEW i \in Ids
    PROVE  Shrinks(i) \/ \E c \in Calls : CreateFork(c) /\ call[c].id = i
<1>1. ASSUME UNCHANGED proc PROVE Shrinks(i)
  BY <1>1 DEF Shrinks, LiveOf, Released
<1>2. ASSUME NEW c \in Calls, CallStep(c) \/ Fault(c), ~(CreateFork(c) /\ call[c].id = i)
      PROVE  Shrinks(i)
  BY <1>2, CallKeeps, KeptShrinks, ForkShrinks
<1>3. ASSUME NEW p \in Pids, ProcStep(p) PROVE Shrinks(i)
  BY <1>3, ProcKeeps, KeptShrinks
<1> QED BY <1>1, <1>2, <1>3 DEF Next, Invoke, vars

\* Nothing lives in a container before the fork.
LEMMA ForkAlone ==
    ASSUME SInv, NEW c \in Calls, CreateFork(c), NEW i, i = call[c].id
    PROVE  \E q \in Pids : LiveOf(i)' \subseteq {q} /\ proc'[q].st \notin ReleasedStates
<1>1. call[c].op = "create" /\ call[c].pc = "fork" /\ TypeInv
  BY DEF CreateFork, At, SInv, Common
<1>2. LiveOf(i) = {}
  BY <1>1, Acting DEF CallOK, CreateOK, Commands
<1>3. PICK q \in Pids : /\ proc'[q].st \notin ReleasedStates
                        /\ \A p \in Pids \ {q} : proc'[p] = proc[p]
  BY <1>1, ForkKeeps
<1> QED BY <1>2, <1>3 DEF LiveOf

LEMMA SingleStep ==
    ASSUME SInv, Single, [Next]_vars
    PROVE  Single'
<1> SUFFICES ASSUME NEW i \in Ids, NEW p \in LiveOf(i)', NEW q \in LiveOf(i)'
             PROVE  p = q
  BY DEF Single
<1>1. CASE Shrinks(i)
  BY <1>1 DEF Shrinks, Single
<1>2. CASE \E c \in Calls : CreateFork(c) /\ call[c].id = i
  BY <1>2, ForkAlone
<1> QED BY <1>1, <1>2, StepShrinks DEF SInv, Common

\* Only a start lets a process go.
LEMMA NewlyReleased ==
    ASSUME TypeInv, [Next]_vars, NEW p \in Pids,
           proc'[p].st \in ReleasedStates, proc[p].st \notin ReleasedStates
    PROVE  /\ caller' = caller
           /\ \E c \in Calls : call[c].op = "start" /\ call[c].id = proc[p].id
<1>0. proc \in [Pids -> Proc]
  BY DEF TypeInv, TypeOK
<1>1. UNCHANGED proc => FALSE
  OBVIOUS
<1>2. ASSUME NEW q, proc' = proc \/ proc' = Killed(q) PROVE FALSE
  BY <1>0, <1>2 DEF Killed, Proc, ReleasedStates
<1>3. ASSUME NEW c \in Calls, CallStep(c) \/ Fault(c), ~StartOpened(c) PROVE FALSE
  <2>1. CASE CreateFork(c)
    BY <2>1, ForkKeeps
  <2>2. CASE CreateCgroup(c)
    BY <1>0, <2>2 DEF CreateCgroup, Proc
  <2>3. CASE KillSignal(c) \/ DeleteSignal(c)
    BY <1>2, <2>3 DEF KillSignal, DeleteSignal
  <2> QED BY <1>1, <1>3, <2>1, <2>2, <2>3 DEF CallStep, Fault, IoError, Crash, StartTimeout, CreateMkdir,
        CreateMkfifo, CreatePidFile, WriteTrunc, WriteBody, StartRead, StartOpen, StartReadByte,
        StartUnlink, KillRead, DeleteRead, DeleteCgroup, DeleteEntry, DeleteDir
<1>4. ASSUME NEW c \in Calls, StartOpened(c)
      PROVE  call[c].op = "start" /\ call[c].id = proc[p].id /\ caller' = caller
  BY <1>0, <1>4 DEF StartOpened, Writers, At
<1>5. ASSUME NEW q \in Pids, ProcStep(q)
      PROVE  /\ caller' = caller
             /\ \E c \in Calls : call[c].op = "start" /\ call[c].id = proc[p].id
  <2>1. CASE InitOpenedLate(q)
    BY <1>0, <2>1 DEF InitOpenedLate, Readers
  <2>2. CASE InitOpenFifo(q) \/ InitRootfs(q) \/ InitExec(q) \/ InitWrite(q)
    BY <1>0, <2>2 DEF InitOpenFifo, InitRootfs, InitWrite, InitExec, Exit, ReleasedStates, Proc
  <2>3. CASE ProcExit(q) \/ KernelExit(q) \/ Reap(q) \/ OtherFork(q)
    BY <1>0, <2>3 DEF ProcExit, KernelExit, Reap, OtherFork, Exit, Unused, ReleasedStates, Proc
  <2> QED BY <1>5, <2>1, <2>2, <2>3 DEF ProcStep, InitStep
<1> QED BY <1>1, <1>3, <1>4, <1>5 DEF Next, Invoke, vars

LEMMA HeldStep ==
    ASSUME SInv, Held, [Next]_vars
    PROVE  Held'
<1> SUFFICES ASSUME NEW i \in Ids, caller'[i] \in {"creating", "created"}, NEW p \in LiveOf(i)',
                    proc'[p].st \in ReleasedStates
             PROVE  FALSE
  BY DEF Held
<1>0. TypeInv /\ Owned /\ caller \in [Ids -> CallerStates] /\ p \in Pids
  BY DEF SInv, Common, TypeInv, TypeOK, LiveOf
<1>1. p \in LiveOf(i)
  BY <1>0, StepShrinks, ForkAlone DEF Shrinks
<1>2. proc[p].id = i
  BY <1>1 DEF LiveOf
<1>3. caller[i] \in {"creating", "created"}
  <2>1. CASE UNCHANGED caller
    BY <2>1
  <2>2. ASSUME NEW c \in Calls, NEW ok \in BOOLEAN, Return(c, ok)
        PROVE  caller[i] \in {"creating", "created"}
    BY <1>0, <2>2 DEF Return, Concluded, SInv, Common, CallerAgrees
  <2>3. ASSUME NEW c \in Calls, NEW op \in Commands, NEW j \in Ids, Invoke(c, op, j)
        PROVE  caller[i] \in {"creating", "created"}
    <3>1. caller[i] # "absent"
      BY <1>1 DEF SInv, Books, ShimOK
    <3> QED BY <1>0, <2>3, <3>1 DEF Invoke, Pending, MayInvoke
  <2> QED BY <1>0, <2>1, <2>2, <2>3, StepShape
<1>4. proc[p].st \notin ReleasedStates
  BY <1>1, <1>3 DEF Held
<1>5. PICK c \in Calls : call[c].op = "start" /\ call[c].id = i
  BY <1>0, <1>2, <1>4, NewlyReleased
<1> QED BY <1>3, <1>5 DEF SInv, Common, CallerAgrees

-----------------------------------------------------------------------------
(* Every step is a step of the lifecycle, or none.                         *)

Simulated == [Lifecycle!LNext]_(Lifecycle!lvars)

Same(i) == PhaseOf(i)' = PhaseOf(i) /\ StartOf(i)' = StartOf(i)

LEMMA Unmoved ==
    ASSUME NEW i, caller'[i] = caller[i], St(i)' = St(i), Forking(i)' <=> Forking(i)
    PROVE  Same(i)
<1>1. Ph(caller'[i], St(i)', Forking(i)') = Ph(caller[i], St(i), Forking(i))
  BY DEF Ph
<1> QED BY <1>1, PhaseIs DEF Same, StartOf

LEMMA AllSame ==
    ASSUME \A i \in Ids : Same(i)
    PROVE  Simulated
<1>1. [i \in Ids |-> PhaseOf(i)'] = [i \in Ids |-> PhaseOf(i)]
      /\ [i \in Ids |-> StartOf(i)'] = [i \in Ids |-> StartOf(i)]
  BY DEF Same
<1> QED BY <1>1 DEF Simulated, Lifecycle!lvars

LEMMA OneMoves ==
    ASSUME NEW i \in Ids, \A j \in Ids \ {i} : Same(j),
           LStep(PhaseOf(i), StartOf(i), PhaseOf(i)', StartOf(i)')
    PROVE  Simulated
  BY Maps DEF Same, Simulated

\* The step of one process: its container stops, its program starts to run, or
\* nothing is to be seen.
LEMMA PidStep ==
    ASSUME LInv, caller' = caller, \A j \in Ids : Forking(j)' <=> Forking(j),
           NEW q \in Pids, \A p \in Pids \ {q} : proc'[p] = proc[p],
           proc'[q].st \in ContainerStates =>
               /\ proc[q].st \in ContainerStates /\ proc'[q].id = proc[q].id
               /\ \/ proc[q].st \in SetupStates /\ proc'[q].st \in SetupStates
                  \/ proc[q].st \in {"write", "exec"} /\ proc'[q].st \in {"write", "exec", "user"}
                  \/ proc[q].st = "user" /\ proc'[q].st = "user"
    PROVE  Simulated
<1>1. ASSUME NEW j \in Ids, proc[q].st \in ContainerStates => j # proc[q].id
      PROVE  Same(j)
  <2>1. LiveOf(j)' = LiveOf(j) /\ q \notin LiveOf(j)
    BY <1>1 DEF LiveOf
  <2>2. \A p \in LiveOf(j) : proc'[p] = proc[p]
    BY <2>1 DEF LiveOf
  <2>3. St(j)' = St(j)
    BY <2>1, <2>2 DEF St
  <2> QED BY <1>1, <2>3, Unmoved
<1>2. CASE proc[q].st \notin ContainerStates
  BY <1>1, <1>2, AllSame
<1>3. CASE proc[q].st \in ContainerStates
  <2>0. PICK i : i = proc[q].id
    OBVIOUS
  <2>1. /\ i \in Ids /\ LiveOf(i) = {q} /\ St(i) = {proc[q].st}
        /\ caller[i] # "absent" /\ ~Forking(i) /\ ~Forking(i)'
    BY <1>3, <2>0, LiveFacts
  <2>2. StartOf(i)' = StartOf(i)
    BY DEF StartOf
  <2>3. \A j \in Ids \ {i} : Same(j)
    BY <1>1, <2>0
  <2>4. CASE proc'[q].st \notin ContainerStates
    <3>1. LiveOf(i)' = {}
      BY <2>1, <2>4 DEF LiveOf
    <3>2. St(i)' = {}
      BY <3>1 DEF St
    <3>3. PhaseOf(i)' = "stopped"
      BY <2>1, <3>2, PhaseIs DEF Ph
    <3>4. PhaseOf(i) \in {"creating", "created", "released", "running"}
      BY <2>1, PhaseIs DEF Ph
    <3> QED BY <2>1, <2>2, <2>3, <3>3, <3>4, OneMoves DEF LStep
  <2>5. CASE proc'[q].st \in ContainerStates
    <3>1. LiveOf(i)' = {q}
      <4>1. \A p \in Pids \ {q} : p \notin LiveOf(i)
        BY <2>1
      <4> QED BY <2>0, <2>5, <4>1 DEF LiveOf
    <3>2. St(i)' = {proc'[q].st}
      BY <3>1 DEF St
    <3>3. CASE proc[q].st \in SetupStates /\ proc'[q].st \in SetupStates
      <4>1. PhaseOf(i)' = PhaseOf(i)
        BY <2>1, <3>2, <3>3, PhaseIs DEF Ph, SetupStates
      <4> QED BY <2>1, <2>2, <2>3, <4>1, OneMoves DEF LStep
    <3>4. CASE proc[q].st \in {"write", "exec"}
      <4>1. PhaseOf(i) = "released" /\ PhaseOf(i)' \in {"released", "running"}
        BY <2>1, <2>5, <3>2, <3>4, PhaseIs DEF Ph, SetupStates
      <4> QED BY <2>1, <2>2, <2>3, <4>1, OneMoves DEF LStep
    <3>5. CASE proc[q].st = "user"
      <4>1. PhaseOf(i) = "running" /\ PhaseOf(i)' = "running"
        BY <2>1, <2>5, <3>2, <3>5, PhaseIs DEF Ph, SetupStates
      <4> QED BY <2>1, <2>2, <2>3, <4>1, OneMoves DEF LStep
    <3> QED BY <2>5, <3>3, <3>4, <3>5
  <2> QED BY <2>4, <2>5
<1> QED BY <1>2, <1>3

\* The processes of the container, and the subreaper.
LEMMA ProcSim ==
    ASSUME LInv, NEW q \in Pids, ProcStep(q)
    PROVE  Simulated
<1>0. TypeInv /\ proc \in [Pids -> Proc] /\ proc[q] \in Proc /\ caller' = caller
  <2>1. TypeInv /\ proc \in [Pids -> Proc]
    BY DEF LInv, SInv, Common, TypeInv, TypeOK
  <2> QED BY <2>1 DEF ProcStep, InitStep, InitOpenFifo, InitRootfs, InitOpenedLate, InitWrite,
        InitExec, ProcExit, KernelExit, Reap, OtherFork
<1>1. \A j \in Ids : Forking(j)' <=> Forking(j)
  <2>1. CASE UNCHANGED call
    BY <2>1 DEF Forking
  <2>2. CASE InitWrite(q) /\ ~UNCHANGED call
    <3> DEFINE R == Readers(proc[q].id, proc[q].fifo)
    <3>1. call' = [c \in Calls |-> IF c \in R THEN [call[c] EXCEPT !.pc = "gotbyte"] ELSE call[c]]
      BY <2>2 DEF InitWrite
    <3>2. \A c \in R : c \in Calls /\ call[c] \in Busy /\ call[c].pc \in {"reading", "gotbyte"}
      BY <1>0, InFlightBusy DEF Readers, PCs
    <3> HIDE DEF R
    <3>3. ASSUME NEW c \in Calls, NEW j
          PROVE  (call'[c].id = j /\ call'[c].pc \in {"mkdir", "mkfifo", "fork"})
                 <=> (call[c].id = j /\ call[c].pc \in {"mkdir", "mkfifo", "fork"})
      <4>1. CASE c \notin R
        BY <3>1, <4>1
      <4>2. CASE c \in R
        BY <3>1, <3>2, <4>2 DEF Busy
      <4> QED BY <4>1, <4>2
    <3> QED BY <3>3 DEF Forking
  <2> QED BY <2>1, <2>2 DEF ProcStep, InitStep, InitOpenFifo, InitRootfs, InitOpenedLate, InitExec,
        ProcExit, KernelExit, Reap, OtherFork
<1>2. \A p \in Pids \ {q} : proc'[p] = proc[p]
  BY <1>0 DEF ProcStep, InitStep, InitOpenFifo, InitRootfs, InitOpenedLate, InitWrite,
     InitExec, ProcExit, KernelExit, Reap, OtherFork, Exit
<1>3. ~InitOpenedLate(q)
  <2> SUFFICES ASSUME InitOpenedLate(q) PROVE FALSE
    OBVIOUS
  <2>1. PICK c \in Calls : call[c].op = "start" /\ call[c].id = proc[q].id
                           /\ call[c].pc \in {"reading", "gotbyte"}
    BY DEF InitOpenedLate, Readers
  <2>2. Released(proc[q].id)
    BY <2>1, Acting DEF LInv, CallOK, StartOK, Commands
  <2>3. proc[q].st = "block" /\ q \in LiveOf(proc[q].id)
    BY DEF InitOpenedLate, LiveOf, ContainerStates, SetupStates
  <2> QED BY <2>2, <2>3 DEF Released, ReleasedStates
<1> DEFINE Fits == proc'[q].st \in ContainerStates =>
               /\ proc[q].st \in ContainerStates /\ proc'[q].id = proc[q].id
               /\ \/ proc[q].st \in SetupStates /\ proc'[q].st \in SetupStates
                  \/ proc[q].st \in {"write", "exec"} /\ proc'[q].st \in {"write", "exec", "user"}
                  \/ proc[q].st = "user" /\ proc'[q].st = "user"
<1>4. Fits
  <2> USE DEF ContainerStates, SetupStates, ReleasedStates
  <2>1. ASSUME Exit(q) PROVE Fits
    BY <1>0, <2>1 DEF Exit, Proc
  <2>2. ASSUME InitOpenFifo(q), ~Exit(q) PROVE Fits
    <3>1. PICK f : proc' = [proc EXCEPT ![q] = [proc[q] EXCEPT !.st = "rootfs", !.fifo = f]]
      BY <2>2 DEF InitOpenFifo
    <3>2. proc'[q].st = "rootfs" /\ proc'[q].id = proc[q].id
      BY <1>0, <3>1 DEF Proc
    <3> QED BY <2>2, <3>2 DEF InitOpenFifo
  <2>3. ASSUME InitRootfs(q) PROVE Fits
    BY <1>0, <2>3 DEF InitRootfs, Proc
  <2>4. ASSUME InitWrite(q), ~Exit(q) PROVE Fits
    <3>1. proc' = [proc EXCEPT ![q] = [proc[q] EXCEPT !.st = "exec", !.fifo = None]]
      BY <2>4 DEF InitWrite
    <3>2. proc'[q].st = "exec" /\ proc'[q].id = proc[q].id
      BY <1>0, <3>1 DEF Proc
    <3> QED BY <2>4, <3>2 DEF InitWrite
  <2>5. ASSUME InitExec(q) PROVE Fits
    BY <1>0, <2>5 DEF InitExec, Proc
  <2>6. ASSUME Reap(q) \/ OtherFork(q) PROVE Fits
    BY <1>0, <2>6 DEF Reap, OtherFork, Unused, Proc
  <2> HIDE DEF Fits
  <2> QED BY <1>3, <2>1, <2>2, <2>3, <2>4, <2>5, <2>6 DEF ProcStep, InitStep, ProcExit, KernelExit
<1> QED BY <1>0, <1>1, <1>2, <1>4, PidStep

LEMMA ForkingKept ==
    ASSUME NEW c \in Calls, OnlyCall(c), NEW j,
           (call'[c].id = j /\ call'[c].pc \in {"mkdir", "mkfifo", "fork"})
              <=> (call[c].id = j /\ call[c].pc \in {"mkdir", "mkfifo", "fork"})
    PROVE  Forking(j)' <=> Forking(j)
  BY DEF OnlyCall, Forking

\* A command past the fork: its container is forking for nobody.
LEMMA NotForking ==
    ASSUME LInv, NEW c \in Calls, call[c].op \in Commands \ {"kill"},
           call[c].pc \notin {"mkdir", "mkfifo", "fork"}
    PROVE  ~Forking(call[c].id)
<1> SUFFICES ASSUME NEW d \in Calls, call[d].id = call[c].id,
                    call[d].pc \in {"mkdir", "mkfifo", "fork"}
             PROVE  FALSE
  BY DEF Forking
<1>1. call[d].op \notin Commands \ {"kill"}
  BY Acting DEF LInv
<1>2. call[d] \in Busy
  BY InFlightBusy DEF LInv, SInv, Common, PCs
<1>3. call[d].op = "kill"
  BY <1>1, <1>2 DEF Busy
<1> QED BY <1>3 DEF LInv, SInv, Common, Programs, Program

\* A signal, to whoever has the pid now.
LEMMA SignalSim ==
    ASSUME LInv, NEW c \in Calls, KillSignal(c) \/ DeleteSignal(c)
    PROVE  Simulated
<1>0. TypeInv /\ proc \in [Pids -> Proc] /\ call \in [Calls -> Busy \cup {Idle}]
  BY DEF LInv, SInv, Common, TypeInv, TypeOK
<1>1. call[c].pc = "signal" /\ OnlyCall(c) /\ caller' = caller
  BY <1>0, CallOnly DEF KillSignal, DeleteSignal, At, Return, CallStep
<1>2. call'[c].pc \in {"idle", "rmcg"}
  <2>1. CASE Return(c, TRUE)
    <3>1. call'[c] = Idle
      BY <1>0, <2>1 DEF Return
    <3> QED BY <3>1 DEF Idle
  <2>2. CASE Goto(c, "rmcg")
    <3>1. InFlight(c)
      BY <1>0, <1>1, InFlightBusy DEF PCs
    <3> QED BY <1>0, <2>2, <3>1, GotoRecord
  <2> QED BY <2>1, <2>2 DEF KillSignal, DeleteSignal
<1>3. \A j \in Ids : Forking(j)' <=> Forking(j)
  BY <1>1, <1>2, ForkingKept
<1>4. CASE proc' = proc
  <2>1. \A j \in Ids : St(j)' = St(j)
    BY <1>4 DEF St, LiveOf
  <2> QED BY <1>1, <1>3, <2>1, Unmoved, AllSame
<1>5. ASSUME NEW q, proc' = Killed(q), proc' # proc PROVE Simulated
  <2>1. proc' = [proc EXCEPT ![q].st = "dying"] /\ q \in Pids
    BY <1>0, <1>5 DEF Killed
  <2>2. \A p \in Pids \ {q} : proc'[p] = proc[p]
    BY <1>0, <2>1
  <2>3. proc'[q].st = "dying"
    BY <1>0, <2>1 DEF Proc
  <2>4. proc'[q].st \notin ContainerStates
    BY <2>3 DEF ContainerStates, SetupStates, ReleasedStates
  <2> QED BY <1>1, <1>3, <2>1, <2>2, <2>4, PidStep
<1> QED BY <1>4, <1>5 DEF KillSignal, DeleteSignal

\* The fork: the container is being created, before and after.
LEMMA ForkSim ==
    ASSUME LInv, NEW c \in Calls, CreateFork(c)
    PROVE  Simulated
<1>0. PICK i : i = call[c].id
  OBVIOUS
<1>1. TypeInv /\ SInv /\ call[c].op = "create" /\ call[c].pc = "fork" /\ call[c].op \in Commands \ {"kill"}
  BY DEF LInv, SInv, Common, CreateFork, At, Commands
<1>2. i \in Ids /\ call[c] \in Busy /\ LiveOf(i) = {} /\ caller[i] = "creating" /\ caller' = caller
  BY <1>0, <1>1, Acting DEF CallOK, CreateOK, SInv, Common, CallerAgrees, CreateFork
<1>3. PICK q \in FreePids :
          /\ proc' = [proc EXCEPT ![q] = [st |-> "init", id |-> call[c].id, fifo |-> None, cg |-> "none"]]
          /\ call' = [call EXCEPT ![c].pc = "cgroup", ![c].pid = q]
  BY DEF CreateFork
<1>4. q \in Pids /\ proc \in [Pids -> Proc] /\ proc[q].st \notin ContainerStates
  BY <1>1 DEF FreePids, TypeInv, TypeOK, ContainerStates, SetupStates, ReleasedStates
<1>5. proc'[q].st = "init" /\ proc'[q].id = i /\ \A p \in Pids \ {q} : proc'[p] = proc[p]
  BY <1>0, <1>3, <1>4
<1>6. ASSUME NEW j \in Ids \ {i} PROVE Same(j)
  <2>1. LiveOf(j)' = LiveOf(j) /\ \A p \in LiveOf(j) : proc'[p] = proc[p]
    BY <1>4, <1>5 DEF LiveOf
  <2>2. St(j)' = St(j)
    BY <2>1 DEF St
  <2>3. Forking(j)' <=> Forking(j)
    <3>1. call'[c] = [call[c] EXCEPT !.pc = "cgroup", !.pid = q]
      BY <1>1, <1>3 DEF TypeInv, TypeOK
    <3>2. call'[c].id = i
      BY <1>0, <1>2, <3>1 DEF Busy
    <3>3. OnlyCall(c)
      BY <1>1, CallOnly DEF CallStep
    <3> QED BY <1>0, <3>2, <3>3, ForkingKept
  <2> QED BY <1>2, <2>2, <2>3, Unmoved
<1>7. LiveOf(i)' = {q}
  BY <1>2, <1>4, <1>5 DEF LiveOf, ContainerStates, SetupStates
<1>8. St(i)' = {"init"} /\ St(i) = {} /\ Forking(i)
  <2>1. St(i)' = {"init"}
    BY <1>5, <1>7 DEF St
  <2>2. St(i) = {}
    BY <1>2 DEF St
  <2> QED BY <1>0, <1>1, <2>1, <2>2 DEF Forking
<1>9. PhaseOf(i) = "creating" /\ PhaseOf(i)' = "creating"
  BY <1>2, <1>8, PhaseIs DEF Ph
<1>10. StartOf(i)' = StartOf(i)
  BY <1>2 DEF StartOf
<1> QED BY <1>2, <1>6, <1>9, <1>10, OneMoves DEF LStep

\* The start meets the init on the fifo.
LEMMA OpenedSim ==
    ASSUME LInv, NEW c \in Calls, StartOpened(c)
    PROVE  Simulated
<1>0. PICK i : i = call[c].id
  OBVIOUS
<1> DEFINE woken == Writers(i, call[c].fifo)
<1>1. /\ TypeInv /\ SInv /\ call[c].op = "start" /\ call[c].pc = "opening"
      /\ call[c].op \in Commands \ {"kill"} /\ caller' = caller /\ Goto(c, "reading")
      /\ woken # {}
      /\ proc' = [p \in Pids |-> IF p \in woken THEN [proc[p] EXCEPT !.st = "write"] ELSE proc[p]]
  BY <1>0 DEF LInv, SInv, Common, StartOpened, At, Commands
<1>2. i \in Ids /\ call[c] \in Busy /\ InFlight(c) /\ caller[i] = "starting" /\ proc \in [Pids -> Proc]
  BY <1>0, <1>1, InFlightBusy DEF PCs, SInv, Common, CallerAgrees, TypeInv, TypeOK
<1>3. PICK q \in Pids : q \in woken
  BY <1>1 DEF Writers
<1>4. proc[q].id = i /\ proc[q].st = "block"
  BY <1>3 DEF Writers
<1>5. LiveOf(i) = {q} /\ St(i) = {"block"}
  BY <1>4, LiveFacts DEF ContainerStates, SetupStates
<1>6. woken = {q}
  BY <1>3, <1>5 DEF Writers, LiveOf, ContainerStates, SetupStates
<1> HIDE DEF woken
<1>7. \A p \in Pids \ {q} : proc'[p] = proc[p]
  BY <1>1, <1>6
<1>8. proc'[q].st = "write" /\ proc'[q].id = i
  <2>1. proc[q] \in Proc /\ proc'[q] = [proc[q] EXCEPT !.st = "write"]
    BY <1>1, <1>2, <1>3
  <2> QED BY <1>4, <2>1 DEF Proc
<1>9. LiveOf(i)' = {q}
  BY <1>5, <1>7, <1>8 DEF LiveOf, ContainerStates, ReleasedStates
<1>10. St(i)' = {"write"}
  BY <1>8, <1>9 DEF St
<1>11. PhaseOf(i) = "created" /\ PhaseOf(i)' = "released"
  BY <1>1, <1>2, <1>5, <1>10, PhaseIs DEF Ph
<1>12. StartOf(i) = "pending" /\ StartOf(i)' = "pending"
  BY <1>1, <1>2 DEF StartOf
<1>13. ASSUME NEW j \in Ids \ {i} PROVE Same(j)
  <2>1. LiveOf(j)' = LiveOf(j) /\ \A p \in LiveOf(j) : proc'[p] = proc[p]
    BY <1>4, <1>7, <1>8 DEF LiveOf
  <2>2. St(j)' = St(j)
    BY <2>1 DEF St
  <2>3. Forking(j)' <=> Forking(j)
    <3>1. call'[c].id = i /\ OnlyCall(c)
      BY <1>0, <1>1, <1>2, GotoRecord, CallOnly DEF CallStep
    <3> QED BY <1>0, <3>1, ForkingKept
  <2> QED BY <1>1, <2>2, <2>3, Unmoved
<1> QED BY <1>2, <1>11, <1>12, <1>13, OneMoves DEF LStep

\* A command that moves no process: what is to be seen is in its own container.
LEMMA OwnSim ==
    ASSUME LInv, NEW c \in Calls, CallStep(c) \/ Fault(c), NEW i \in Ids, i = call[c].id,
           call'[c].id \in {i, None}, \A j \in Ids : St(j)' = St(j),
           LStep(PhaseOf(i), StartOf(i), PhaseOf(i)', StartOf(i)')
    PROVE  Simulated
<1>1. OnlyCall(c) /\ OnlyId(i)
  BY CallOnly DEF LInv, SInv, Common
<1>2. None \notin Ids
  BY ConstantsAssumption
<1>3. ASSUME NEW j \in Ids \ {i} PROVE Same(j)
  <2>1. Forking(j)' <=> Forking(j)
    BY <1>1, <1>2, <1>3, ForkingKept
  <2>2. caller'[j] = caller[j]
    BY <1>1, <1>3 DEF OnlyId
  <2> QED BY <2>1, <2>2, Unmoved
<1> QED BY <1>3, OneMoves

LEMMA GoesOn ==
    ASSUME LInv, NEW c \in Calls, CallStep(c) \/ Fault(c), NEW i \in Ids, i = call[c].id,
           call'[c].id \in {i, None}, \A j \in Ids : St(j)' = St(j), caller' = caller,
           (call'[c].id = i /\ call'[c].pc \in {"mkdir", "mkfifo", "fork"})
              <=> call[c].pc \in {"mkdir", "mkfifo", "fork"}
    PROVE  Simulated
<1>1. OnlyCall(c)
  BY CallOnly DEF LInv, SInv, Common
<1>2. Forking(i)' <=> Forking(i)
  BY <1>1, ForkingKept
<1>3. Same(i)
  BY <1>2, Unmoved
<1> QED BY <1>3, OwnSim DEF Same, LStep

LEMMA ReturnSim ==
    ASSUME LInv, NEW c \in Calls, CallStep(c) \/ Fault(c), UNCHANGED proc,
           call[c].op \in Commands \ {"kill"}, call[c].pc \notin {"mkdir", "mkfifo", "fork"},
           NEW ok \in BOOLEAN, Return(c, ok),
           ok \/ call[c].op = "start",
           ok /\ call[c].op = "start" => Released(call[c].id),
           call[c].op \in Deletes => LiveOf(call[c].id) = {}
    PROVE  Simulated
<1>0. PICK i : i = call[c].id
  OBVIOUS
<1>1. /\ TypeInv /\ i \in Ids /\ OnlyCall(c) /\ call \in [Calls -> Busy \cup {Idle}]
      /\ caller \in [Ids -> CallerStates] /\ call[c] \in Busy
  BY <1>0, Acting, CallOnly DEF LInv, SInv, Common, TypeInv, TypeOK
<1>2. call'[c] = Idle /\ caller'[i] = Concluded(call[c].op, ok)
  BY <1>0, <1>1 DEF Return
<1>3. call'[c].id = None /\ call'[c].pc = "idle"
  BY <1>2 DEF Idle
<1>4. ~Forking(i) /\ ~Forking(i)'
  BY <1>0, <1>1, <1>3, NotForking, ForkingKept
<1>5. \A j \in Ids : St(j)' = St(j)
  BY DEF St, LiveOf
<1>6. LStep(PhaseOf(i), StartOf(i), PhaseOf(i)', StartOf(i)')
  <2>1. CASE call[c].op = "create"
    <3>1. caller[i] = "creating" /\ caller'[i] = "created"
      BY <1>0, <1>2, <2>1 DEF Concluded, LInv, SInv, Common, CallerAgrees
    <3>2. St(i) \cap {"write", "exec", "user"} = {}
      BY <1>1, <3>1 DEF LInv, Held, St, ReleasedStates
    <3>3. PhaseOf(i) = IF St(i) = {} THEN "stopped" ELSE "creating"
      BY <1>4, <3>1, <3>2, PhaseIs DEF Ph
    <3>4. PhaseOf(i)' = IF St(i) = {} THEN "stopped" ELSE "created"
      BY <1>1, <1>4, <1>5, <3>1, <3>2, PhaseIs DEF Ph
    <3>5. StartOf(i)' = StartOf(i)
      BY <3>1 DEF StartOf
    <3> QED BY <3>3, <3>4, <3>5 DEF LStep
  <2>2. CASE call[c].op = "start"
    <3>1. caller[i] = "starting" /\ caller'[i] = IF ok THEN "running" ELSE "failed"
      BY <1>0, <1>2, <2>2 DEF Concluded, LInv, SInv, Common, CallerAgrees
    <3>2. PhaseOf(i)' = PhaseOf(i)
      BY <1>1, <1>4, <1>5, <3>1, PhaseIs DEF Ph
    <3>3. StartOf(i) = "pending" /\ StartOf(i)' = IF ok THEN "done" ELSE "none"
      BY <3>1 DEF StartOf
    <3>4. ok => PhaseOf(i) \in {"released", "running", "stopped"}
      <4>1. ok => St(i) \subseteq ReleasedStates
        BY <1>0, <2>2 DEF Released, St
      <4> QED BY <3>1, <4>1, PhaseIs DEF Ph, ReleasedStates
    <3> QED BY <3>2, <3>3, <3>4 DEF LStep
  <2>3. CASE call[c].op \in Deletes
    <3>1. caller[i] = "deleting" /\ caller'[i] = "absent"
      BY <1>0, <1>2, <2>3 DEF Concluded, LInv, SInv, Common, CallerAgrees, Deletes
    <3>2. St(i) = {}
      BY <1>0, <2>3 DEF St
    <3>3. PhaseOf(i) = "stopped" /\ PhaseOf(i)' = "absent"
      BY <3>1, <3>2, PhaseIs DEF Ph
    <3>4. StartOf(i) = "none" /\ StartOf(i)' = "none"
      BY <3>1 DEF StartOf
    <3> QED BY <3>3, <3>4 DEF LStep
  <2> QED BY <2>1, <2>2, <2>3 DEF Commands, Deletes
<1> QED BY <1>0, <1>1, <1>3, <1>5, <1>6, OwnSim

LEMMA CreateSim ==
    ASSUME LInv, NEW c \in Calls,
           CreateMkdir(c) \/ CreateMkfifo(c) \/ CreateCgroup(c) \/ CreatePidFile(c)
    PROVE  Simulated
<1>0. PICK i : i = call[c].id
  OBVIOUS
<1>1. call[c].op = "create" /\ call[c].op \in Commands \ {"kill"} /\ CallStep(c)
  BY DEF CreateMkdir, CreateMkfifo, CreateCgroup, CreatePidFile, At, Commands, CallStep
<1>2. /\ TypeInv /\ i \in Ids /\ InFlight(c) /\ call[c] \in Busy
      /\ proc \in [Pids -> Proc] /\ call \in [Calls -> Busy \cup {Idle}]
  BY <1>0, <1>1, Acting DEF LInv, SInv, Common, TypeInv, TypeOK, InFlight, Idle
<1>3. UNCHANGED proc => \A j \in Ids : St(j)' = St(j)
  BY DEF St, LiveOf
<1>4. CASE CreateMkdir(c) \/ CreateMkfifo(c)
  <2>1. /\ call[c].pc \in {"mkdir", "mkfifo"} /\ UNCHANGED <<proc, caller>>
        /\ Goto(c, "mkfifo") \/ Goto(c, "fork")
    BY <1>4 DEF CreateMkdir, CreateMkfifo, At
  <2>2. call'[c].id = i /\ call'[c].pc \in {"mkfifo", "fork"}
    BY <1>0, <1>2, <2>1, GotoRecord
  <2> QED BY <1>0, <1>1, <1>2, <1>3, <2>1, <2>2, GoesOn
<1>5. CASE CreateCgroup(c)
  <2> DEFINE r(m) == [InitPid |-> call[c].pid, Status |-> "created", CgroupPath |-> m]
  <2>1. call[c].pc = "cgroup" /\ UNCHANGED caller /\ call[c].pid \in Pids
    BY <1>1, <1>2, <1>5 DEF CreateCgroup, At, TypeInv, InHand
  <2>2. PICK m \in BOOLEAN, g \in {"in", "failed"} :
            /\ proc' = [proc EXCEPT ![call[c].pid].cg = g]
            /\ call' = [call EXCEPT ![c].pc = "trunc", ![c].st = r(m)]
    BY <1>5, Zenon DEF CreateCgroup
  <2> HIDE DEF r
  <2>3. call'[c] = [call[c] EXCEPT !.pc = "trunc", !.st = r(m)]
    BY <1>2, <2>2
  <2>4. call'[c].id = i /\ call'[c].pc = "trunc"
    BY <1>0, <1>2, <2>3 DEF Busy
  <2>5. \A p \in Pids : proc'[p].st = proc[p].st /\ proc'[p].id = proc[p].id
    BY <1>2, <2>1, <2>2 DEF Proc
  <2>6. ASSUME NEW j \in Ids PROVE St(j)' = St(j)
    <3>1. LiveOf(j)' = LiveOf(j)
      BY <2>5 DEF LiveOf
    <3> QED BY <2>5, <3>1 DEF St, LiveOf
  <2> QED BY <1>0, <1>1, <1>2, <2>1, <2>4, <2>6, GoesOn
<1>6. CASE CreatePidFile(c)
  <2>1. call[c].pc = "pidfile" /\ Return(c, TRUE) /\ UNCHANGED proc
    BY <1>6 DEF CreatePidFile, At
  <2> QED BY <1>1, <2>1, ReturnSim DEF Deletes
<1> QED BY <1>4, <1>5, <1>6

LEMMA WriteSim ==
    ASSUME LInv, NEW c \in Calls, WriteTrunc(c) \/ WriteBody(c)
    PROVE  Simulated
<1>0. PICK i : i = call[c].id
  OBVIOUS
<1>1. /\ call[c].pc \in {"trunc", "write"} /\ CallStep(c) /\ TypeInv /\ SInv /\ UNCHANGED proc
      /\ call[c] \in Busy /\ i \in Ids /\ InFlight(c)
  BY <1>0, InFlightBusy DEF WriteTrunc, WriteBody, PCs, LInv, SInv, Common, CallStep
<1>2. call[c].op \in {"create", "start"} /\ call[c].op \in Commands \ {"kill"}
  BY <1>1 DEF SInv, Common, Programs, Program, Busy, Commands, Deletes
<1>3. CallOK(call[c], disk[i], LiveOf(i), Released(i))
  BY <1>0, <1>1, <1>2, Acting
<1>4. disk[i].dir
  BY <1>1, <1>2, <1>3 DEF CallOK, CreateOK, StartOK
<1>5. \A j \in Ids : St(j)' = St(j)
  BY <1>1 DEF St, LiveOf
<1>6. ASSUME NEW l \in {"write", "pidfile"}, Goto(c, l), caller' = caller PROVE Simulated
  <2>1. call'[c].id = i /\ call'[c].pc = l
    BY <1>0, <1>1, <1>6, GotoRecord
  <2> QED BY <1>0, <1>1, <1>5, <1>6, <2>1, GoesOn
<1>7. CASE WriteTrunc(c)
  BY <1>0, <1>4, <1>6, <1>7 DEF WriteTrunc
<1>8. CASE WriteBody(c) /\ call[c].op = "create"
  BY <1>6, <1>8 DEF WriteBody
<1>9. CASE WriteBody(c) /\ call[c].op = "start"
  <2>1. Return(c, TRUE) /\ call[c].pc = "write"
    BY <1>9 DEF WriteBody
  <2>2. Released(i)
    BY <1>3, <1>9, <2>1 DEF CallOK, StartOK
  <2> QED BY <1>0, <1>1, <1>2, <1>9, <2>1, <2>2, ReturnSim DEF Deletes
<1> QED BY <1>2, <1>7, <1>8, <1>9

LEMMA StartSim ==
    ASSUME LInv, NEW c \in Calls,
           \/ StartRead(c) \/ StartOpen(c) \/ StartReadByte(c) \/ StartUnlink(c) \/ StartTimeout(c)
    PROVE  Simulated
<1>0. PICK i : i = call[c].id
  OBVIOUS
<1>1. /\ call[c].op = "start" /\ call[c].op \in Commands \ {"kill"} /\ (CallStep(c) \/ Fault(c))
      /\ call[c].pc \in {"read", "open", "opening", "reading", "gotbyte", "unlink"} /\ UNCHANGED proc
  BY DEF StartRead, StartOpen, StartReadByte, StartUnlink, StartTimeout, At, Commands, CallStep, Fault
<1>2. /\ TypeInv /\ i \in Ids /\ call[c] \in Busy
      /\ StartOK(call[c], disk[i], LiveOf(i), Released(i))
  BY <1>0, <1>1, Acting DEF LInv, SInv, Common, CallOK
<1>3. \A j \in Ids : St(j)' = St(j)
  BY <1>1 DEF St, LiveOf
<1>4. CASE Return(c, FALSE)
  BY <1>1, <1>4, ReturnSim DEF Deletes
<1>5. ASSUME NEW l \in {"open", "opening", "unlink", "trunc"}, NEW v, caller' = caller,
             \/ call' = [call EXCEPT ![c] = [call[c] EXCEPT !.pc = l, !.fifo = v]]
             \/ call' = [call EXCEPT ![c] = [call[c] EXCEPT !.pc = l, !.st = v]]
      PROVE  Simulated
  <2>1. \/ call'[c] = [call[c] EXCEPT !.pc = l, !.fifo = v]
        \/ call'[c] = [call[c] EXCEPT !.pc = l, !.st = v]
    BY <1>2, <1>5, Moves
  <2>2. call'[c].id = i /\ call'[c].pc = l
    BY <1>0, <1>2, <2>1 DEF Busy
  <2> QED BY <1>0, <1>1, <1>2, <1>3, <1>5, <2>2, GoesOn
<1>6. CASE StartRead(c) /\ ~Return(c, FALSE)
  <2>1. /\ call' = [call EXCEPT ![c] = [call[c] EXCEPT !.pc = "open", !.st = disk[call[c].id].file]]
        /\ caller' = caller
    BY <1>6 DEF StartRead
  <2> QED BY <1>5, <2>1
<1>7. CASE StartOpen(c) /\ ~Return(c, FALSE)
  BY <1>5, <1>7, ZenonT(40) DEF StartOpen
<1>8. CASE StartReadByte(c)
  BY <1>5, <1>8 DEF StartReadByte
<1>9. CASE StartUnlink(c)
  <2>1. PICK r : call' = [call EXCEPT ![c] = [call[c] EXCEPT !.pc = "trunc", !.st = r]]
    BY <1>9 DEF StartUnlink
  <2>2. caller' = caller
    BY <1>9 DEF StartUnlink
  <2> QED BY <1>5, <2>1, <2>2
<1> QED BY <1>4, <1>6, <1>7, <1>8, <1>9 DEF StartTimeout

LEMMA KillReadSim ==
    ASSUME LInv, NEW c \in Calls, KillRead(c)
    PROVE  Simulated
<1>0. PICK i : i = call[c].id
  OBVIOUS
<1>1. /\ call[c].op = "kill" /\ call[c].pc = "read" /\ UNCHANGED <<proc, caller>> /\ CallStep(c)
      /\ TypeInv
  BY DEF KillRead, At, Return, CallStep, LInv, SInv, Common
<1>2. call[c] \in Busy /\ i \in Ids /\ call \in [Calls -> Busy \cup {Idle}]
  BY <1>0, <1>1, InFlightBusy DEF PCs, TypeInv, TypeOK
<1>3. \A j \in Ids : St(j)' = St(j)
  BY <1>1 DEF St, LiveOf
<1>4. call'[c].id \in {i, None} /\ call'[c].pc \in {"idle", "signal"}
  <2>1. CASE Return(c, FALSE)
    <3>1. call'[c] = Idle
      BY <1>2, <2>1 DEF Return
    <3> QED BY <3>1 DEF Idle
  <2>2. CASE call' = [call EXCEPT ![c].pc = "signal", ![c].st = disk[call[c].id].file]
    <3>1. call'[c] = [call[c] EXCEPT !.pc = "signal", !.st = disk[call[c].id].file]
      BY <1>2, <2>2
    <3> QED BY <1>0, <1>2, <3>1 DEF Busy
  <2> QED BY <2>1, <2>2 DEF KillRead
<1> QED BY <1>0, <1>1, <1>2, <1>3, <1>4, GoesOn

LEMMA DeleteSim ==
    ASSUME LInv, NEW c \in Calls,
           DeleteRead(c) \/ DeleteCgroup(c) \/ DeleteEntry(c) \/ DeleteDir(c)
    PROVE  Simulated
<1>0. PICK i : i = call[c].id
  OBVIOUS
<1>1. /\ call[c].op \in Deletes /\ call[c].op \in Commands \ {"kill"} /\ CallStep(c)
      /\ call[c].pc \in {"read", "rmcg", "rmall"} /\ UNCHANGED proc
  BY DEF DeleteRead, DeleteCgroup, DeleteEntry, DeleteDir, Commands, Deletes, CallStep
<1>2. /\ TypeInv /\ i \in Ids /\ call[c] \in Busy /\ InFlight(c)
      /\ DeleteOK(call[c], disk[i], LiveOf(i))
  BY <1>0, <1>1, Acting DEF LInv, SInv, Common, CallOK, InFlight, Idle, Deletes
<1>3. \A j \in Ids : St(j)' = St(j)
  BY <1>1 DEF St, LiveOf
<1>4. CASE DeleteRead(c)
  <2>1. readState(i)
    BY <1>2, <1>4 DEF DeleteRead, DeleteOK, Recorded, readState
  <2>2. call' = [call EXCEPT ![c] = [call[c] EXCEPT !.pc = "signal", !.st = disk[i].file]]
        /\ UNCHANGED caller
    BY <1>0, <1>4, <2>1 DEF DeleteRead
  <2>3. call'[c] = [call[c] EXCEPT !.pc = "signal", !.st = disk[i].file]
    BY <1>2, <2>2, Moves
  <2>4. call'[c].id = i /\ call'[c].pc = "signal"
    BY <1>0, <1>2, <2>3 DEF Busy
  <2> QED BY <1>0, <1>1, <1>2, <1>3, <2>2, <2>4, GoesOn
<1>5. CASE DeleteCgroup(c)
  <2>1. Goto(c, "rmall") /\ UNCHANGED caller
    BY <1>5 DEF DeleteCgroup
  <2>2. call'[c].id = i /\ call'[c].pc = "rmall"
    BY <1>0, <1>2, <2>1, GotoRecord
  <2> QED BY <1>0, <1>1, <1>2, <1>3, <2>1, <2>2, GoesOn
<1>6. CASE DeleteEntry(c)
  <2>1. UNCHANGED <<call, caller>>
    BY <1>6 DEF DeleteEntry
  <2> QED BY <1>0, <1>1, <1>2, <1>3, <2>1, GoesOn
<1>7. CASE DeleteDir(c)
  <2>1. Return(c, TRUE) /\ call[c].pc = "rmall"
    BY <1>7 DEF DeleteDir
  <2>2. LiveOf(i) = {}
    BY <1>2, <2>1 DEF DeleteOK
  <2> QED BY <1>0, <1>1, <2>1, <2>2, ReturnSim DEF Deletes
<1> QED BY <1>4, <1>5, <1>6, <1>7

\* The shim calls create, start or delete.
LEMMA InvokeSim ==
    ASSUME LInv, NEW c \in Calls, NEW op \in Commands, NEW i \in Ids, Invoke(c, op, i)
    PROVE  Simulated
<1> DEFINE b == [op |-> op, id |-> i, pc |-> IF op = "create" THEN "mkdir" ELSE "read",
                 fifo |-> None, pid |-> None, st |-> None]
<1>1. /\ call' = [call EXCEPT ![c] = b] /\ UNCHANGED <<disk, proc>>
      /\ caller' = [caller EXCEPT ![i] = Pending(op, i)] /\ MayInvoke(op, i) /\ call[c] = Idle
  BY DEF Invoke, InFlight
<1>2. TypeInv /\ call'[c] = b /\ OnlyCall(c) /\ OnlyId(i) /\ caller'[i] = Pending(op, i)
  BY <1>1 DEF LInv, SInv, Common, TypeInv, TypeOK, OnlyCall, OnlyId
<1>3. b.op = op /\ b.id = i /\ b.pc = IF op = "create" THEN "mkdir" ELSE "read"
  OBVIOUS
<1> HIDE DEF b
<1>4. call[c].id \notin Ids /\ call[c].pc = "idle"
  BY <1>1, ConstantsAssumption DEF Idle
<1>5. \A j \in Ids : St(j)' = St(j)
  BY <1>1 DEF St, LiveOf
<1>6. ASSUME NEW j \in Ids, j # i PROVE Same(j)
  <2>1. Forking(j)' <=> Forking(j)
    BY <1>2, <1>3, <1>4, <1>6, ForkingKept
  <2>2. caller'[j] = caller[j]
    BY <1>2, <1>6 DEF OnlyId
  <2> QED BY <1>5, <2>1, <2>2, Unmoved
<1>7. op # "create" => (Forking(i)' <=> Forking(i))
  BY <1>2, <1>3, <1>4, ForkingKept
<1>8. LStep(PhaseOf(i), StartOf(i), PhaseOf(i)', StartOf(i)')
  <2>1. CASE op = "create"
    <3>1. caller[i] = "absent" /\ caller'[i] = "creating" /\ Forking(i)'
      BY <1>1, <1>2, <1>3, <2>1 DEF MayInvoke, Pending, Forking
    <3>2. LiveOf(i) = {}
      BY <3>1 DEF LInv, SInv, Books, ShimOK
    <3>3. St(i) = {}
      BY <3>2 DEF St
    <3>4. PhaseOf(i) = "absent" /\ PhaseOf(i)' = "creating"
      BY <1>5, <3>1, <3>3, PhaseIs DEF Ph
    <3>5. StartOf(i)' = StartOf(i)
      BY <3>1 DEF StartOf
    <3> QED BY <3>4, <3>5 DEF LStep
  <2>2. CASE op = "start"
    <3>1. caller[i] = "created" /\ caller'[i] = "starting"
      BY <1>1, <1>2, <2>2 DEF MayInvoke, Pending
    <3>2. St(i) \cap {"write", "exec", "user"} = {}
      BY <3>1 DEF LInv, Held, St, ReleasedStates
    <3>3. PhaseOf(i) \in {"created", "stopped"} /\ PhaseOf(i)' = PhaseOf(i)
      BY <1>5, <3>1, <3>2, PhaseIs DEF Ph
    <3>4. StartOf(i) = "none" /\ StartOf(i)' = "pending"
      BY <3>1 DEF StartOf
    <3> QED BY <3>3, <3>4 DEF LStep
  <2>3. CASE op \in Deletes
    <3>1. caller[i] \in {"created", "running", "failed"} /\ caller'[i] = "deleting"
      BY <1>1, <1>2, <2>3 DEF MayInvoke, Pending, Deletes
    <3>2. PhaseOf(i)' = PhaseOf(i)
      BY <1>5, <3>1, PhaseIs DEF Ph
    <3>3. StartOf(i) \in {"none", "done"} /\ StartOf(i)' = "none"
      BY <3>1 DEF StartOf
    <3> QED BY <3>2, <3>3 DEF LStep
  <2>4. CASE op = "kill"
    <3>1. caller'[i] = caller[i]
      BY <1>2, <2>4 DEF Pending
    <3>2. Same(i)
      BY <1>5, <1>7, <2>4, <3>1, Unmoved
    <3> QED BY <3>2 DEF Same, LStep
  <2> QED BY <2>1, <2>2, <2>3, <2>4 DEF Commands, Deletes
<1> QED BY <1>6, <1>8, OneMoves

LEMMA NextSim ==
    ASSUME LInv, "io" \notin Faults, "crash" \notin Faults, [Next]_vars
    PROVE  Simulated
<1>1. CASE UNCHANGED vars
  <2>1. \A i \in Ids : Same(i)
    BY <1>1 DEF vars, Same, PhaseOf, StartOf, LiveOf
  <2> QED BY <2>1, AllSame
<1>2. ASSUME NEW c \in Calls, CallStep(c) PROVE Simulated
  BY <1>2, CreateSim, ForkSim, WriteSim, StartSim, OpenedSim, KillReadSim, SignalSim, DeleteSim
     DEF CallStep
<1>3. ASSUME NEW c \in Calls, Fault(c) PROVE Simulated
  BY <1>3, StartSim DEF Fault, IoError, Crash
<1> QED BY <1>1, <1>2, <1>3, InvokeSim, ProcSim DEF Next

LEMMA LInvInit == Init => LInv
<1>1. Init => \A i \in Ids : LiveOf(i) = {}
  BY DEF Init, LiveOf, Unused, ContainerStates, SetupStates, ReleasedStates
<1> QED BY <1>1, SInvInit DEF LInv, Single, Held

LEMMA LifecycleInit == Init => Lifecycle!LInit
<1> SUFFICES ASSUME Init PROVE Lifecycle!LInit
  OBVIOUS
<1>1. \A i \in Ids : PhaseOf(i) = "absent" /\ StartOf(i) = "none"
  BY DEF Init, PhaseOf, StartOf
<1> QED BY <1>1 DEF Lifecycle!LInit

\* cmdCreate, cmdStart, cmdKill, cmdDelete and runcInit implement the container
\* lifecycle the shim relies on, as long as no call fails half way and no invocation
\* is killed: no program before its start, no successful start of an init that was
\* not let go, no delete while something runs.
THEOREM RuntimeImplementsLifecycle ==
    ASSUME "io" \notin Faults, "crash" \notin Faults
    PROVE  Spec => ImplementsLifecycle
<1>1. LInv /\ [Next]_vars => LInv'
  BY SInvStep, SingleStep, HeldStep DEF LInv
<1>2. LInv /\ [Next]_vars => [Lifecycle!LNext]_(Lifecycle!lvars)
  BY NextSim DEF Simulated
<1> QED BY <1>1, <1>2, LInvInit, LifecycleInit, PTL DEF Spec, ImplementsLifecycle, Lifecycle!LSpec
=============================================================================
