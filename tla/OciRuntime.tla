----------------------------- MODULE OciRuntime -----------------------------
(***************************************************************************)
(* The OCI runtime of ociruntime_linux.go: the processes that an           *)
(* invocation of `runc create|start|kill|delete` and the container init it *)
(* forks turn into, over the state they share (the state directory, the    *)
(* exec fifo, state.json, the cgroup and the kernel's pid table).          *)
(*                                                                         *)
(* One action is one system call, or several that touch nothing another    *)
(* process of the model can see.  Every invocation and every init has a    *)
(* program counter of its own, so all their interleavings are explored.    *)
(*                                                                         *)
(* The caller is containerd's shim (external).  It serialises create,      *)
(* start and delete of one container, sends kill whenever it likes, and    *)
(* deletes without --force only after it has reaped the init.              *)
(***************************************************************************)
EXTENDS Naturals, FiniteSets

CONSTANTS
    Ids,      \* container ids
    Calls,    \* runtime invocations that can be in flight at once
    Pids,     \* pids of the kernel's process table
    Fifos,    \* identities (inodes) an exec.fifo can have
    None,     \* absence of a pid, a fifo, a record or an id
    Torn,     \* a state.json that os.WriteFile truncated and has not filled
    PidReuse, \* TRUE iff the kernel gives a reaped pid to a new process
    Faults    \* which of "io", "crash" and "timeout" can happen

ASSUME ConstantsAssumption ==
    /\ None \notin Ids \cup Pids \cup Fifos
    /\ PidReuse \in BOOLEAN
    /\ Faults \subseteq {"io", "crash", "timeout"}

VARIABLES
    disk,   \* per id: the state directory, its files and the cgroup
    proc,   \* per pid: the process that has it
    call,   \* per invocation: where it is in its command
    caller  \* per id: what the shim knows of the container

vars == <<disk, proc, call, caller>>

-----------------------------------------------------------------------------
(* Values.                                                                 *)

Statuses == {"created", "running"}

\* The fields of containerState that the commands read back.
containerState ==
    [InitPid : Pids, Status : Statuses, CgroupPath : BOOLEAN]

\* json.Unmarshal accepts neither an empty file nor a missing one.
ASSUME RecordAssumption == None \notin containerState /\ Torn \notin containerState

Disk == [dir  : BOOLEAN,
         fifo : Fifos \cup {None},
         file : containerState \cup {None, Torn},
         cg   : BOOLEAN]

\* runcInit by the call it is about to make: it still has to open the fifo, to
\* set the rootfs up, it waits in the open for writing, writes, execs.
SetupStates == {"init", "rootfs", "block"}
ReleasedStates == {"write", "exec", "user"}
ContainerStates == SetupStates \cup ReleasedStates
LiveStates == ContainerStates \cup {"other"}
GoneStates == {"unused", "reaped"}
ProcStates == LiveStates \cup GoneStates \cup {"dying", "zombie"}

Proc == [st   : ProcStates,
         id   : Ids \cup {None},
         fifo : Fifos \cup {None},
         cg   : {"none", "in", "failed"}]

Commands == {"create", "start", "kill", "delete", "delete_force"}
Deletes == {"delete", "delete_force"}
PCs == {"mkdir", "mkfifo", "fork", "cgroup", "trunc", "write", "pidfile",
        "read", "open", "opening", "reading", "gotbyte", "unlink",
        "signal", "rmcg", "rmall"}

Idle == [op |-> "none", id |-> None, pc |-> "idle", fifo |-> None,
         pid |-> None, st |-> None]
Busy == [op   : Commands,
         id   : Ids,
         pc   : PCs,
         fifo : Fifos \cup {None},
         pid  : Pids \cup {None},
         st   : containerState \cup {None}]

CallerStates == {"absent", "creating", "created", "starting", "running",
                 "deleting", "failed"}

EmptyDisk == [dir |-> FALSE, fifo |-> None, file |-> None, cg |-> FALSE]
Unused == [st |-> "unused", id |-> None, fifo |-> None, cg |-> "none"]

-----------------------------------------------------------------------------
(* Helpers.                                                                *)

InFlight(c) == call[c] # Idle

At(c, op, pc) == call[c].op = op /\ call[c].pc = pc

Goto(c, pc) == call' = [call EXCEPT ![c].pc = pc]

\* Processes of container i that run its code: the init or what it exec'd.
LiveOf(i) == {p \in Pids : proc[p].id = i /\ proc[p].st \in ContainerStates}

\* kill(pid, 0) succeeds for everything in the process table, zombies included.
pidAlive(p) == proc[p].st \notin GoneStates

\* readState succeeds: the file is there and json.Unmarshal accepts it.
readState(i) == disk[i].file \in containerState

\* Sending SIGKILL: the process runs no more of its code, and exits later.
Killed(p) == IF proc[p].st \in LiveStates
             THEN [proc EXCEPT ![p].st = "dying"]
             ELSE proc

\* An init that returns 1 (or a user process that exits).
Exit(p) == proc' = [proc EXCEPT ![p].st = "zombie"]

\* What the shim concludes when a command returns.
Concluded(op, ok) ==
    IF ~ok THEN "failed"
    ELSE IF op = "create" THEN "created"
    ELSE IF op = "start" THEN "running" ELSE "absent"

\* The command returns (runOCIRuntime's exit status is ok).
Return(c, ok) ==
    /\ call' = [call EXCEPT ![c] = Idle]
    /\ caller' = IF call[c].op = "kill" THEN caller
                 ELSE [caller EXCEPT ![call[c].id] = Concluded(call[c].op, ok)]

FreshFifos(i) ==
    Fifos \ ({disk[i].fifo} \cup {proc[p].fifo : p \in {q \in Pids : proc[q].id = i}}
             \cup {call[c].fifo : c \in {d \in Calls : call[d].id = i}})

FreePids == {p \in Pids : \/ proc[p].st = "unused"
                          \/ PidReuse /\ proc[p].st = "reaped"}

-----------------------------------------------------------------------------
(* The shim (external): which command it runs, and when.                   *)

Serial(i) == \A c \in Calls : call[c].id = i => call[c].op = "kill"

\* The pid table is never full: a create finds a pid (bound of the model).
PidLeft == Cardinality({c \in Calls : call[c].op = "create" /\ call[c].pid = None})
              < Cardinality(FreePids)

\* What the shim has seen of the container before it runs the command.
MayInvoke(op, i) ==
    /\ op # "kill" => Serial(i)
    /\ op = "create" => caller[i] = "absent" /\ PidLeft
    /\ op = "start" => caller[i] = "created"
    /\ op = "kill" => caller[i] \notin {"absent", "creating"}
    /\ op \in Deletes => caller[i] \in {"created", "running", "failed"}
    /\ op = "delete" => \A p \in Pids : proc[p].id = i => proc[p].st \in GoneStates

Pending(op, i) ==
    IF op = "create" THEN "creating"
    ELSE IF op = "start" THEN "starting"
    ELSE IF op = "kill" THEN caller[i] ELSE "deleting"

\* runOCIRuntime parses the flags and dispatches on the subcommand.
Invoke(c, op, i) ==
    /\ ~InFlight(c)
    /\ MayInvoke(op, i)
    /\ call' = [call EXCEPT ![c] =
          [op |-> op, id |-> i, pc |-> IF op = "create" THEN "mkdir" ELSE "read",
           fifo |-> None, pid |-> None, st |-> None]]
    /\ caller' = [caller EXCEPT ![i] = Pending(op, i)]
    /\ UNCHANGED <<disk, proc>>

-----------------------------------------------------------------------------
(* cmdCreate.                                                              *)

\* os.MkdirAll(stateDir): a directory that is already there is no error, and
\* whatever it holds is kept.
CreateMkdir(c) ==
    /\ At(c, "create", "mkdir")
    /\ disk' = [disk EXCEPT ![call[c].id].dir = TRUE]
    /\ Goto(c, "mkfifo")
    /\ UNCHANGED <<proc, caller>>

\* os.Remove(fifo) and syscall.Mkfifo: the name now denotes a new inode.
CreateMkfifo(c) ==
    /\ At(c, "create", "mkfifo")
    /\ \E f \in FreshFifos(call[c].id) :
          disk' = [disk EXCEPT ![call[c].id].fifo = f]
    /\ Goto(c, "fork")
    /\ UNCHANGED <<proc, caller>>

\* Mutant of CreateFork: the cgroup is left for later, the state written at once.
CreateForkNoCgroup(c) ==
    /\ At(c, "create", "fork")
    /\ \E p \in FreePids :
          /\ proc' = [proc EXCEPT ![p] = [st |-> "init", id |-> call[c].id,
                                          fifo |-> None, cg |-> "none"]]
          /\ call' = [call EXCEPT ![c].pc = "trunc", ![c].pid = p,
                         ![c].st = [InitPid |-> p, Status |-> "created",
                                    CgroupPath |-> FALSE]]
    /\ UNCHANGED <<disk, caller>>

\* os.StartProcess of `runc __runc_init`, which runs from here on.
CreateFork(c) ==
    /\ At(c, "create", "fork")
    /\ \E p \in FreePids :
          /\ proc' = [proc EXCEPT ![p] = [st |-> "init", id |-> call[c].id,
                                          fifo |-> None, cg |-> "none"]]
          /\ call' = [call EXCEPT ![c].pc = "cgroup", ![c].pid = p]
    /\ UNCHANGED <<disk, caller>>

\* applyCgroup: the path is "" when the spec has no Linux section or mkdir
\* fails; the write to cgroup.procs may fail, and does when the init is dead,
\* and its error is ignored.  The record the command is going to write is now
\* known.
CreateCgroup(c) ==
    /\ At(c, "create", "cgroup")
    /\ \E made \in BOOLEAN, cg \in {"in", "failed"} :
          LET p == call[c].pid IN
          /\ cg = "in" => made /\ proc[p].st \in LiveStates
          /\ cg = "failed" => ~made \/ proc[p].st \notin LiveStates \/ "io" \in Faults
          /\ disk' = [disk EXCEPT ![call[c].id].cg = @ \/ made]
          /\ proc' = [proc EXCEPT ![p].cg = cg]
          /\ call' = [call EXCEPT ![c].pc = "trunc",
                         ![c].st = [InitPid |-> p, Status |-> "created",
                                    CgroupPath |-> made]]
    /\ UNCHANGED caller

\* The pid-file is written and the process handle released.
CreatePidFile(c) ==
    /\ At(c, "create", "pidfile")
    /\ Return(c, TRUE)
    /\ UNCHANGED <<disk, proc>>

-----------------------------------------------------------------------------
(* writeState, in cmdCreate and cmdStart: os.WriteFile opens with O_TRUNC  *)
(* and then writes.                                                        *)

WriteTrunc(c) ==
    /\ call[c].pc = "trunc"
    /\ IF disk[call[c].id].dir
       THEN /\ disk' = [disk EXCEPT ![call[c].id].file = Torn]
            /\ Goto(c, "write")
            /\ UNCHANGED caller
       ELSE Return(c, FALSE) /\ UNCHANGED disk
    /\ UNCHANGED proc

WriteBody(c) ==
    /\ call[c].pc = "write"
    /\ disk' = [disk EXCEPT ![call[c].id].file = call[c].st]
    /\ IF call[c].op = "create"
       THEN Goto(c, "pidfile") /\ UNCHANGED caller
       ELSE Return(c, TRUE)
    /\ UNCHANGED proc

-----------------------------------------------------------------------------
(* cmdStart.                                                               *)

StartRead(c) ==
    /\ At(c, "start", "read")
    /\ IF readState(call[c].id)
       THEN /\ call' = [call EXCEPT ![c].pc = "open", ![c].st = disk[call[c].id].file]
            /\ UNCHANGED caller
       ELSE Return(c, FALSE)
    /\ UNCHANGED <<disk, proc>>

\* Mutant of StartOpen: opened O_RDWR (which never blocks) and not read.
StartOpenNoWait(c) ==
    /\ At(c, "start", "open")
    /\ call' = [call EXCEPT ![c].pc = "unlink", ![c].fifo = disk[call[c].id].fifo]
    /\ UNCHANGED <<disk, proc, caller>>

\* os.OpenFile(fifo, O_RDONLY) looks the name up ...
StartOpen(c) ==
    /\ At(c, "start", "open")
    /\ IF disk[call[c].id].fifo # None
       THEN /\ call' = [call EXCEPT ![c].pc = "opening", ![c].fifo = disk[call[c].id].fifo]
            /\ UNCHANGED caller
       ELSE Return(c, FALSE)
    /\ UNCHANGED <<disk, proc>>

Writers(i, f) == {p \in Pids : proc[p].id = i /\ proc[p].fifo = f
                                /\ proc[p].st = "block"}

\* ... and blocks until the fifo has a writer; every init that waits in its own
\* open of the same inode is woken by it.
StartOpened(c) ==
    LET woken == Writers(call[c].id, call[c].fifo) IN
    /\ At(c, "start", "opening")
    /\ woken # {}
    /\ proc' = [p \in Pids |-> IF p \in woken
                               THEN [proc[p] EXCEPT !.st = "write"] ELSE proc[p]]
    /\ Goto(c, "reading")
    /\ UNCHANGED <<disk, caller>>

\* f.Read returns with the byte, or at end of file when every writer is gone:
\* its result is ignored.
StartReadByte(c) ==
    /\ \/ At(c, "start", "gotbyte")
       \/ /\ At(c, "start", "reading")
          /\ \A p \in Pids : proc[p].id = call[c].id /\ proc[p].fifo = call[c].fifo
                => proc[p].st # "write"
    /\ call' = [call EXCEPT ![c].pc = "unlink", ![c].fifo = None]
    /\ UNCHANGED <<disk, proc, caller>>

\* Mutant of StartUnlink: a status the other commands do not know.
StartUnlinkStarted(c) ==
    /\ At(c, "start", "unlink")
    /\ disk' = [disk EXCEPT ![call[c].id].fifo = None]
    /\ call' = [call EXCEPT ![c].pc = "trunc", ![c].st.Status = "started"]
    /\ UNCHANGED <<proc, caller>>

\* os.Remove(fifo), by name, and st.Status = "running".
StartUnlink(c) ==
    /\ At(c, "start", "unlink")
    /\ disk' = [disk EXCEPT ![call[c].id].fifo = None]
    /\ call' = [call EXCEPT ![c].pc = "trunc", ![c].st.Status = "running"]
    /\ UNCHANGED <<proc, caller>>

-----------------------------------------------------------------------------
(* cmdKill.                                                                *)

KillRead(c) ==
    /\ At(c, "kill", "read")
    /\ IF readState(call[c].id)
       THEN /\ call' = [call EXCEPT ![c].pc = "signal", ![c].st = disk[call[c].id].file]
            /\ UNCHANGED caller
       ELSE Return(c, FALSE)
    /\ UNCHANGED <<disk, proc>>

\* syscall.Kill of the pid that was read, whoever has it now; ESRCH is ignored.
\* A signal other than SIGKILL may be handled or ignored by the process.
KillSignal(c) ==
    /\ At(c, "kill", "signal")
    /\ proc' \in {proc, Killed(call[c].st.InitPid)}
    /\ Return(c, TRUE)
    /\ UNCHANGED disk

-----------------------------------------------------------------------------
(* cmdDelete.                                                              *)

\* Any error of readState is taken for "already gone", and is a success.
DeleteRead(c) ==
    /\ call[c].op \in Deletes /\ call[c].pc = "read"
    /\ IF readState(call[c].id)
       THEN /\ call' = [call EXCEPT ![c].pc = "signal", ![c].st = disk[call[c].id].file]
            /\ UNCHANGED caller
       ELSE Return(c, TRUE)
    /\ UNCHANGED <<disk, proc>>

\* Mutant of DeleteSignal: a container recorded as created is not killed.
DeleteSignalRunningOnly(c) ==
    /\ call[c].op \in Deletes /\ call[c].pc = "signal"
    /\ proc' = IF call[c].op = "delete_force" /\ call[c].st.Status = "running"
               THEN Killed(call[c].st.InitPid) ELSE proc
    /\ Goto(c, "rmcg")
    /\ UNCHANGED <<disk, caller>>

\* --force sends SIGKILL if the pid is alive, and does not wait.
DeleteSignal(c) ==
    /\ call[c].op \in Deletes /\ call[c].pc = "signal"
    /\ proc' = IF call[c].op = "delete_force" /\ pidAlive(call[c].st.InitPid)
               THEN Killed(call[c].st.InitPid) ELSE proc
    /\ Goto(c, "rmcg")
    /\ UNCHANGED <<disk, caller>>

\* os.Remove(st.CgroupPath) fails with EBUSY while a member has not exited; the
\* error is ignored and the cgroup stays.
DeleteCgroup(c) ==
    LET i == call[c].id
        members == {p \in Pids : /\ proc[p].id = i /\ proc[p].cg = "in"
                                 /\ proc[p].st \in LiveStates \cup {"dying"}} IN
    /\ call[c].op \in Deletes /\ call[c].pc = "rmcg"
    /\ disk' = [disk EXCEPT ![i].cg = @ /\ ~(call[c].st.CgroupPath /\ members = {})]
    /\ Goto(c, "rmall")
    /\ UNCHANGED <<proc, caller>>

\* os.RemoveAll unlinks the entries one by one, in directory order, and then the
\* directory.
DeleteEntry(c) ==
    LET i == call[c].id IN
    /\ call[c].op \in Deletes /\ call[c].pc = "rmall"
    /\ \/ /\ disk[i].fifo # None
          /\ disk' = [disk EXCEPT ![i].fifo = None]
       \/ /\ disk[i].file # None
          /\ disk' = [disk EXCEPT ![i].file = None]
    /\ UNCHANGED <<proc, call, caller>>

DeleteDir(c) ==
    LET i == call[c].id IN
    /\ call[c].op \in Deletes /\ call[c].pc = "rmall"
    /\ disk[i].fifo = None /\ disk[i].file = None
    /\ disk' = [disk EXCEPT ![i].dir = FALSE]
    /\ Return(c, TRUE)
    /\ UNCHANGED proc

-----------------------------------------------------------------------------
(* cmdState prints the recorded status, or "stopped" once kill(pid, 0)     *)
(* fails; it changes nothing.                                              *)

cmdState(i) ==
    CASE ~readState(i)                       -> "error"
      [] readState(i) /\ ~pidAlive(disk[i].file.InitPid) -> "stopped"
      [] OTHER                               -> disk[i].file.Status

-----------------------------------------------------------------------------
(* Failures of an invocation.                                              *)

\* A call that returns its error: mkdir, mkfifo, fork, the two halves of
\* writeState, the pid-file, RemoveAll.
IoError(c) ==
    /\ "io" \in Faults
    /\ call[c].pc \in {"mkdir", "mkfifo", "fork", "trunc", "write", "pidfile", "rmall"}
    /\ Return(c, FALSE)
    /\ UNCHANGED <<disk, proc>>

\* The invocation is killed between two steps.
Crash(c) ==
    /\ "crash" \in Faults
    /\ InFlight(c)
    /\ Return(c, FALSE)
    /\ UNCHANGED <<disk, proc>>

\* The shim's deadline expires on a start that waits for a writer.
StartTimeout(c) ==
    /\ "timeout" \in Faults
    /\ At(c, "start", "opening")
    /\ Return(c, FALSE)
    /\ UNCHANGED <<disk, proc>>

-----------------------------------------------------------------------------
(* runcInit, and what it execs.                                            *)

\* readSpec and joinNamespaces, then the O_PATH open, by name.
InitOpenFifo(p) ==
    /\ proc[p].st = "init"
    /\ IF disk[proc[p].id].fifo # None
       THEN proc' = [proc EXCEPT ![p].st = "rootfs", ![p].fifo = disk[proc[p].id].fifo]
       ELSE Exit(p)
    /\ UNCHANGED <<disk, call, caller>>

\* Mutant of InitRootfs: the init gives up on the fifo and execs at once.
InitRootfsNoFifo(p) ==
    /\ proc[p].st = "rootfs"
    /\ proc' = [proc EXCEPT ![p].st = "exec"]
    /\ UNCHANGED <<disk, call, caller>>

\* setupRootfs; then the blocking open of the inode for writing.
InitRootfs(p) ==
    /\ proc[p].st = "rootfs"
    /\ proc' = [proc EXCEPT ![p].st = "block"]
    /\ UNCHANGED <<disk, call, caller>>

Readers(i, f) == {c \in Calls : call[c].op = "start" /\ call[c].id = i
                    /\ call[c].fifo = f /\ call[c].pc \in {"reading", "gotbyte"}}

\* An init that comes to the fifo while a start already has it open.
InitOpenedLate(p) ==
    /\ proc[p].st = "block"
    /\ Readers(proc[p].id, proc[p].fifo) # {}
    /\ proc' = [proc EXCEPT ![p].st = "write"]
    /\ UNCHANGED <<disk, call, caller>>

\* wf.Write: EPIPE, and exit 1, when the reader is gone.
InitWrite(p) ==
    LET readers == Readers(proc[p].id, proc[p].fifo) IN
    /\ proc[p].st = "write"
    /\ IF readers # {}
       THEN /\ proc' = [proc EXCEPT ![p].st = "exec", ![p].fifo = None]
            /\ call' = [c \in Calls |-> IF c \in readers
                           THEN [call[c] EXCEPT !.pc = "gotbyte"] ELSE call[c]]
       ELSE Exit(p) /\ UNCHANGED call
    /\ UNCHANGED <<disk, caller>>

InitExec(p) ==
    /\ proc[p].st = "exec"
    /\ proc' = [proc EXCEPT ![p].st = "user"]
    /\ UNCHANGED <<disk, call, caller>>

\* An error of runcInit (spec, namespaces, rootfs, exec), or the end of the user
\* process.
ProcExit(p) ==
    /\ proc[p].st \in {"init", "rootfs", "exec", "user", "other"}
    /\ Exit(p)
    /\ UNCHANGED <<disk, call, caller>>

-----------------------------------------------------------------------------
(* The kernel and the subreaper (external).                                *)

KernelExit(p) ==
    /\ proc[p].st = "dying"
    /\ Exit(p)
    /\ UNCHANGED <<disk, call, caller>>

\* The shim reaps the init once it is its child: when the create that forked it
\* has exited.
Reap(p) ==
    /\ proc[p].st = "zombie"
    /\ \A c \in Calls : call[c].pid # p
    /\ proc' = [proc EXCEPT ![p] = [Unused EXCEPT !.st = "reaped"]]
    /\ UNCHANGED <<disk, call, caller>>

\* A process that has nothing to do with the runtime gets a recycled pid.
OtherFork(p) ==
    /\ PidReuse
    /\ proc[p].st = "reaped"
    /\ proc' = [proc EXCEPT ![p].st = "other"]
    /\ UNCHANGED <<disk, call, caller>>

-----------------------------------------------------------------------------
Init ==
    /\ disk = [i \in Ids |-> EmptyDisk]
    /\ proc = [p \in Pids |-> Unused]
    /\ call = [c \in Calls |-> Idle]
    /\ caller = [i \in Ids |-> "absent"]

CallStep(c) ==
    \/ CreateMkdir(c) \/ CreateMkfifo(c) \/ CreateFork(c) \/ CreateCgroup(c)
    \/ CreatePidFile(c) \/ WriteTrunc(c) \/ WriteBody(c)
    \/ StartRead(c) \/ StartOpen(c) \/ StartOpened(c) \/ StartReadByte(c) \/ StartUnlink(c)
    \/ KillRead(c) \/ KillSignal(c)
    \/ DeleteRead(c) \/ DeleteSignal(c) \/ DeleteCgroup(c) \/ DeleteEntry(c) \/ DeleteDir(c)

Fault(c) == IoError(c) \/ Crash(c) \/ StartTimeout(c)

InitStep(p) ==
    InitOpenFifo(p) \/ InitRootfs(p) \/ InitOpenedLate(p) \/ InitWrite(p) \/ InitExec(p)

ProcStep(p) == InitStep(p) \/ ProcExit(p) \/ KernelExit(p) \/ Reap(p) \/ OtherFork(p)

Next ==
    \/ \E c \in Calls, op \in Commands, i \in Ids : Invoke(c, op, i)
    \/ \E c \in Calls : CallStep(c) \/ Fault(c)
    \/ \E p \in Pids : ProcStep(p)

Spec == Init /\ [][Next]_vars

\* The kernel schedules every process that can run: an invocation, an init, a
\* process on its way out.  The shim need not call anything.
Fairness ==
    /\ \A c \in Calls : WF_vars(CallStep(c))
    /\ \A p \in Pids : WF_vars(InitStep(p)) /\ WF_vars(KernelExit(p)) /\ WF_vars(Reap(p))

FairSpec == Spec /\ Fairness

-----------------------------------------------------------------------------
(* Properties.                                                             *)

\* Every variable holds a value of its type: the records cmdCreate, cmdStart and
\* cmdDelete pass around always have the fields the next step reads.
TypeOK ==
    /\ disk \in [Ids -> Disk]
    /\ proc \in [Pids -> Proc]
    /\ call \in [Calls -> Busy \cup {Idle}]
    /\ caller \in [Ids -> CallerStates]

\* "The init is blocked, so it cannot escape its limits" (cmdCreate, at the call
\* of applyCgroup): an init is let go by a start, and the user process runs, only
\* after applyCgroup was through with its pid.
UserPlaced ==
    \A p \in Pids : proc[p].st \in ReleasedStates => proc[p].cg # "none"

\* Whatever fails or dies in between, the process a state.json names (and that
\* start, kill and delete therefore act on) went through applyCgroup.
RecordedPlaced ==
    \A i \in Ids :
        /\ readState(i)
        /\ disk[i].file.InitPid \in LiveOf(i)
        => proc[disk[i].file.InitPid].cg # "none"

\* Between a create that succeeded and the delete, every process of the container
\* is the one its record names, or the one a start in flight has read and is
\* about to write back: kill and delete reach all there is to reach.
Tracked ==
    \A i \in Ids : caller[i] \in {"created", "starting", "running"} =>
        \A p \in LiveOf(i) :
            \/ readState(i) /\ disk[i].file.InitPid = p
            \/ \E c \in Calls : /\ call[c].op = "start" /\ call[c].id = i
                                /\ call[c].pc \in {"trunc", "write"}
                                /\ call[c].st.InitPid = p

\* What `state` reports as running (cmdState reads what cmdStart wrote) was let go:
\* it is never an init that waits on a fifo which nobody can open any more.
RunningMeansReleased ==
    \A i \in Ids : cmdState(i) = "running" /\ disk[i].file.InitPid \in LiveOf(i)
        => proc[disk[i].file.InitPid].st \in ReleasedStates

\* "Already gone." (cmdDelete): a delete that reported success leaves no process
\* of the container but one that is exiting.
NoProcessLeft == \A i \in Ids : caller[i] = "absent" => LiveOf(i) = {}

\* A delete that reported success leaves no process, no state directory and no
\* file of it (the RemoveAll that ends cmdDelete).
DeletedMeansGone ==
    /\ NoProcessLeft
    /\ \A i \in Ids : caller[i] = "absent" =>
          ~disk[i].dir /\ disk[i].fifo = None /\ disk[i].file = None

\* A start that waits for the fifo's writer does not wait for ever while an init
\* that will write is alive (cmdStart and runcInit meet on the fifo).
StartMeetsInit ==
    \A c \in Calls, i \in Ids :
        (At(c, "start", "opening") /\ call[c].id = i)
            ~> (~At(c, "start", "opening") \/ LiveOf(i) = {})

\* A delete --force comes to an end, and with it everything the container ran:
\* SIGKILL is sent and not waited for (cmdDelete).
ForceDeleteEnds ==
    \A i \in Ids :
        (\E c \in Calls : call[c].op = "delete_force" /\ call[c].id = i)
            ~> (caller[i] = "absent" /\ LiveOf(i) = {})

\* The lifecycle this implements: the phase of a container is where its process
\* is, the pending start what the shim waits for.
PhaseOf(i) ==
    LET st == {proc[p].st : p \in LiveOf(i)}
        forking == \E c \in Calls : /\ call[c].id = i
                                    /\ call[c].pc \in {"mkdir", "mkfifo", "fork"} IN
    IF caller[i] = "absent" THEN "absent"
    ELSE IF "user" \in st THEN "running"
    ELSE IF st \cap {"write", "exec"} # {} THEN "released"
    ELSE IF caller[i] = "creating" /\ (st # {} \/ forking) THEN "creating"
    ELSE IF st # {} THEN "created"
    ELSE "stopped"

StartOf(i) == CASE caller[i] = "starting" -> "pending"
                [] caller[i] = "running"  -> "done"
                [] OTHER                  -> "none"

Lifecycle == INSTANCE OciLifecycle WITH
                phase <- [i \in Ids |-> PhaseOf(i)],
                start <- [i \in Ids |-> StartOf(i)]

\* The processes of cmdCreate, cmdStart, cmdKill, cmdDelete and runcInit implement
\* the container lifecycle: no program before its start, no successful start of an
\* init that was not let go, no delete while something runs.
ImplementsLifecycle == Lifecycle!LSpec
=============================================================================
