------------------------------- MODULE OciExec -------------------------------
(***************************************************************************)
(* `runc exec' (runc_exec_linux.go): a process is started inside a         *)
(* container that already runs.  cmdExec reads the container's record,     *)
(* joins the namespaces of the recorded init by way of /proc, mirrors the  *)
(* container's resolv.conf into the rootfs it chroots to, starts the       *)
(* process, and hands the terminal to the shim.                            *)
(*                                                                         *)
(* setns changes the namespaces of the calling thread only.  An invocation *)
(* is a Go process with several threads, its main goroutine is not locked  *)
(* to one of them, and the child inherits the namespaces of the thread     *)
(* that forks it.  Meanwhile the container's init may exit, be reaped and  *)
(* be deleted, and its pid may be given to another process.                *)
(***************************************************************************)
EXTENDS Naturals, Sequences, FiniteSets

CONSTANTS
    Execs,    \* invocations of `runc exec' on the container
    Threads,  \* threads of one invocation
    Main,     \* the one its goroutine starts on
    Order,    \* the namespaces in the order of the loop: net, ipc, uts, cgroup
    Files,    \* the resolv.conf files a container and the node may have (Confs)
    MaxMissed,  \* bound: how many invocations something goes wrong in that
                \* cmdExec passes over
    Faults    \* "io": reading the process spec, the pty, the start or the
              \* console socket fails; "setns": setns fails; "disk": the write
              \* of resolv.conf fails; "migrate": the scheduler moves the
              \* goroutine to another thread; "reuse": pids are reused

\* The container's resolv.conf is a bind mount, an empty or missing one, or the
\* file of the rootfs itself; the image may have brought one, and the node may
\* have one.
Confs == [ctr : {"mount", "empty", "rootfs"}, image : BOOLEAN, node : BOOLEAN]

ASSUME ExecAssumption ==
    /\ Main \in Threads
    /\ Files \subseteq Confs
    /\ MaxMissed \in Nat
    /\ Order \in Seq({"net", "ipc", "uts", "cgroup"}) /\ Order # <<>>
    /\ Faults \subseteq {"io", "setns", "disk", "migrate", "reuse"}

VARIABLES
    init,    \* who has the pid that the record names
    record,  \* state.json exists
    conf,    \* the resolv.conf files there are; no step changes it
    resolv,  \* etc/resolv.conf in the container's rootfs
    ex,      \* per invocation: where cmdExec is, and on which thread
    ns,      \* per invocation and thread: whose namespaces it is in
    child,   \* per invocation: the process it started
    result,  \* per invocation: how it returned
    missed   \* history, per invocation: what went wrong and was passed over

vars == <<init, record, conf, resolv, ex, ns, child, result, missed>>

-----------------------------------------------------------------------------
(* Values.                                                                 *)

\* The mount and pid namespaces are not joined.
Namespaces == {Order[k] : k \in DOMAIN Order}
Owners == {"host", "ctr", "other"}
HostNs == [n \in Namespaces |-> "host"]

PCs == {"idle", "read", "alive", "spec", "setns", "open", "trunc", "write", "pty",
        "fork", "console", "wait", "done"}

\* What a resolv.conf holds: nothing, what the image came with, what is mounted in
\* the container, what a stranger with its pid has, or what the node has.
Texts == {"none", "image", "ctr", "other", "node"}

\* The rootfs as the container was created, before any exec.
Unwritten == IF conf.image THEN "image" ELSE "none"

\* `from' is the resolv.conf that was read.
Ex == [pc : PCs, k : 1 .. Len(Order) + 1, thread : Threads,
       mode : {"tty", "detach", "wait"}, from : Texts]
Idle == [pc |-> "idle", k |-> 1, thread |-> Main, mode |-> "wait", from |-> "none"]
HostThreads == [t \in Threads |-> HostNs]

TypeOK ==
    /\ init \in {"run", "zombie", "gone", "reused"}
    /\ record \in BOOLEAN
    /\ conf \in Confs
    /\ resolv \in Texts \cup {"torn"}
    /\ ex \in [Execs -> Ex]
    /\ ns \in [Execs -> [Threads -> [Namespaces -> Owners]]]
    /\ child \in [Execs -> [st : {"none", "run", "hungup", "exited"},
                            ns : [Namespaces -> Owners]]]
    /\ result \in [Execs -> {"none", "ok", "error"}]
    /\ missed \in [Execs -> SUBSET {"setns", "disk", "thread"}]

Init ==
    /\ init = "run" /\ record = TRUE
    /\ conf \in Files /\ resolv = Unwritten
    /\ ex = [e \in Execs |-> Idle]
    /\ ns = [e \in Execs |-> HostThreads]
    /\ child = [e \in Execs |-> [st |-> "none", ns |-> HostNs]]
    /\ result = [e \in Execs |-> "none"]
    /\ missed = [e \in Execs |-> {}]

-----------------------------------------------------------------------------
(* Helpers.                                                                *)

At(e, l) == ex[e].pc = l
Goto(e, l) == ex' = [ex EXCEPT ![e].pc = l]
Miss(e, what) ==
    /\ Cardinality({d \in Execs \ {e} : missed[d] # {}}) < MaxMissed
    /\ what \notin missed[e]
    /\ missed' = [missed EXCEPT ![e] = @ \cup {what}]

\* The invocation ends, and its threads with it, or it goes on.
Return(e, r) ==
    /\ ex' = [ex EXCEPT ![e] = [Idle EXCEPT !.pc = "done"]]
    /\ ns' = [ns EXCEPT ![e] = HostThreads]
    /\ result' = [result EXCEPT ![e] = r]
GoOn(e, l) == Goto(e, l) /\ UNCHANGED <<ns, result>>

\* kill(pid, 0): a zombie and a stranger count.
pidAlive == init # "gone"

\* /proc/<pid>/ns and /proc/<pid>/root lead to what the process with the pid has.
Target == CASE init = "run" -> "ctr" [] init = "reused" -> "other" [] OTHER -> "none"

-----------------------------------------------------------------------------
(* cmdExec.                                                                *)

\* The shim runs exec on a container whose init it has not reaped.
Invoke(e) ==
    /\ At(e, "idle") /\ init \in {"run", "zombie"}
    /\ \E m \in {"tty", "detach", "wait"} :
           ex' = [ex EXCEPT ![e].pc = "read", ![e].mode = m]
    /\ UNCHANGED <<init, record, conf, resolv, ns, child, result, missed>>

ReadState(e) ==
    /\ At(e, "read")
    /\ IF record THEN GoOn(e, "alive") ELSE Return(e, "error")
    /\ UNCHANGED <<init, record, conf, resolv, child, missed>>

CheckAlive(e) ==
    /\ At(e, "alive")
    /\ IF pidAlive THEN GoOn(e, "spec") ELSE Return(e, "error")
    /\ UNCHANGED <<init, record, conf, resolv, child, missed>>

\* The process spec and resolveInRootfs.
resolveInRootfs(e) ==
    /\ At(e, "spec")
    /\ \/ GoOn(e, "setns")
       \/ "io" \in Faults /\ Return(e, "error")
    /\ UNCHANGED <<init, record, conf, resolv, child, missed>>

\* A variant for mutation: the last namespace is left out.
SetnsStopsEarly(e) ==
    /\ At(e, "setns") /\ Target # "none"
    /\ ex' = [ex EXCEPT ![e].k = @ + 1,
                        ![e].pc = IF ex[e].k = Len(Order) - 1 THEN "open" ELSE "setns"]
    /\ ns' = [ns EXCEPT ![e][ex[e].thread][Order[ex[e].k]] = Target]
    /\ UNCHANGED <<init, record, conf, resolv, child, result, missed>>

\* One round of the loop.  A namespace that cannot be opened is skipped, and the
\* error of setns is not looked at.
Setns(e) ==
    /\ At(e, "setns")
    /\ ex' = [ex EXCEPT ![e].k = @ + 1,
                        ![e].pc = IF ex[e].k = Len(Order) THEN "open" ELSE "setns"]
    /\ \/ /\ Target # "none"
          /\ ns' = [ns EXCEPT ![e][ex[e].thread][Order[ex[e].k]] = Target]
          /\ UNCHANGED missed
       \/ Target = "none" /\ UNCHANGED <<ns, missed>>
       \/ "setns" \in Faults /\ Target # "none" /\ Miss(e, "setns") /\ UNCHANGED ns
    /\ UNCHANGED <<init, record, conf, resolv, child, result>>

\* /proc/<pid>/root/etc/resolv.conf as os.ReadFile finds it now: in the rootfs it is
\* the very file that is rewritten, and a truncated one reads as empty.
InRoot ==
    CASE Target = "none" -> {"none"}
      [] Target = "other" -> {"none", "other"}
      [] Target = "ctr" -> {CASE conf.ctr = "mount" -> "ctr"
                              [] conf.ctr = "empty" -> "none"
                              [] conf.ctr = "rootfs" -> IF resolv = "torn" THEN "none" ELSE resolv}

\* What was read is about to be copied.
Copy(e, f) == ex' = [ex EXCEPT ![e].from = f, ![e].pc = "trunc"]

\* A variant for mutation: no fallback to the node's file.
MirrorReadOnce(e) ==
    /\ At(e, "open")
    /\ \E f \in InRoot : IF f # "none" THEN Copy(e, f) ELSE Goto(e, "pty")
    /\ UNCHANGED <<init, record, conf, resolv, ns, child, result, missed>>

\* The first of the two files that can be read and is not empty: the container's,
\* then the node's.  If there is none, nothing is copied.
MirrorRead(e) ==
    /\ At(e, "open")
    /\ \E f \in InRoot : CASE f # "none" -> Copy(e, f)
                           [] f = "none" /\ conf.node -> Copy(e, "node")
                           [] f = "none" /\ ~conf.node -> Goto(e, "pty")
    /\ UNCHANGED <<init, record, conf, resolv, ns, child, result, missed>>

\* An empty directory in its place is removed; os.WriteFile opens the copy in the
\* rootfs and truncates it.
MirrorOpen(e) ==
    /\ At(e, "trunc")
    /\ \/ Goto(e, "write") /\ resolv' = "torn" /\ UNCHANGED missed
       \/ "disk" \in Faults /\ Goto(e, "pty") /\ Miss(e, "disk") /\ UNCHANGED resolv
    /\ UNCHANGED <<init, record, conf, ns, child, result>>

\* os.WriteFile writes it; the error is not looked at.
MirrorWrite(e) ==
    /\ At(e, "write")
    /\ Goto(e, "pty")
    /\ \/ resolv' = ex[e].from /\ UNCHANGED missed
       \/ "disk" \in Faults /\ Miss(e, "disk") /\ UNCHANGED resolv
    /\ UNCHANGED <<init, record, conf, ns, child, result>>

\* openPTY and the slave, for a terminal.
openPTY(e) ==
    /\ At(e, "pty")
    /\ \/ GoOn(e, "fork")
       \/ "io" \in Faults /\ ex[e].mode = "tty" /\ Return(e, "error")
    /\ UNCHANGED <<init, record, conf, resolv, child, missed>>

\* The child has the namespaces of the thread that forks it.
Forked(e) == child' = [child EXCEPT ![e].st = "run", ![e].ns = ns[e][ex[e].thread]]

\* A variant for mutation: the error of the pid file is returned.
StartProcessPidFile(e) ==
    /\ At(e, "fork")
    /\ \/ /\ Forked(e)
          /\ CASE ex[e].mode = "tty" -> GoOn(e, "console")
               [] ex[e].mode = "detach" -> Return(e, "ok")
               [] ex[e].mode = "wait" -> GoOn(e, "wait")
       \/ "io" \in Faults /\ Forked(e) /\ Return(e, "error")
    /\ UNCHANGED <<init, record, conf, resolv, missed>>

\* os.StartProcess, then the pid file, whose error is not looked at.
StartProcess(e) ==
    /\ At(e, "fork")
    /\ \/ /\ Forked(e)
          /\ CASE ex[e].mode = "tty" -> GoOn(e, "console")
               [] ex[e].mode = "detach" -> Return(e, "ok")
               [] ex[e].mode = "wait" -> GoOn(e, "wait")
       \/ "io" \in Faults /\ Return(e, "error") /\ UNCHANGED child
    /\ UNCHANGED <<init, record, conf, resolv, missed>>

\* The master goes to the shim; if it cannot be sent it is closed, and the
\* session on the terminal is hung up.
sendTerminalFD(e) ==
    /\ At(e, "console")
    /\ \/ Return(e, "ok") /\ UNCHANGED child
       \/ /\ "io" \in Faults
          /\ Return(e, "error")
          /\ child' = [child EXCEPT ![e].st = IF @ = "run" THEN "hungup" ELSE @]
    /\ UNCHANGED <<init, record, conf, resolv, missed>>

\* Neither a terminal nor --detach: the exit status is the child's.
Wait(e) ==
    /\ At(e, "wait") /\ child[e].st = "exited"
    /\ \E r \in {"ok", "error"} : Return(e, r)
    /\ UNCHANGED <<init, record, conf, resolv, child, missed>>

-----------------------------------------------------------------------------
(* The scheduler, the processes and the shim (external).                   *)

\* The goroutine comes back from a system call, or from being preempted, on
\* another thread (once: the bound of the model).
Migrate(e, t) ==
    /\ "migrate" \in Faults /\ t # ex[e].thread
    /\ ex[e].pc \in {"setns", "open", "trunc", "write", "pty", "fork"} /\ ex[e].k > 1
    /\ ex' = [ex EXCEPT ![e].thread = t]
    /\ Miss(e, "thread")
    /\ UNCHANGED <<init, record, conf, resolv, ns, child, result>>

ChildExits(e) ==
    /\ child[e].st \in {"run", "hungup"}
    /\ child' = [child EXCEPT ![e].st = "exited"]
    /\ UNCHANGED <<init, record, conf, resolv, ex, ns, result, missed>>

\* The container's init exits, is reaped by the shim, and the kernel gives its
\* pid to another process.
InitEnds ==
    /\ \/ init = "run" /\ init' = "zombie"
       \/ init = "zombie" /\ init' = "gone"
       \/ "reuse" \in Faults /\ init = "gone" /\ init' = "reused"
    /\ UNCHANGED <<record, conf, resolv, ex, ns, child, result, missed>>

\* `runc delete' once the init is reaped.
Delete ==
    /\ init \in {"gone", "reused"} /\ record
    /\ record' = FALSE
    /\ UNCHANGED <<init, conf, resolv, ex, ns, child, result, missed>>

-----------------------------------------------------------------------------
(* The specification.                                                      *)

cmdExec(e) ==
    \/ ReadState(e) \/ CheckAlive(e) \/ resolveInRootfs(e) \/ Setns(e)
    \/ MirrorRead(e) \/ MirrorOpen(e) \/ MirrorWrite(e) \/ openPTY(e)
    \/ StartProcess(e) \/ sendTerminalFD(e) \/ Wait(e)

Next ==
    \/ \E e \in Execs : Invoke(e) \/ cmdExec(e) \/ ChildExits(e)
    \/ \E e \in Execs, t \in Threads : Migrate(e, t)
    \/ InitEnds
    \/ Delete

Spec == Init /\ [][Next]_vars

-----------------------------------------------------------------------------
(* Properties.                                                             *)

\* The process of e was started, and the container it was started in still runs.
Inside(e) == child[e].st # "none" /\ init = "run"
InContainer(e) == \A n \in Namespaces : child[e].ns[n] = "ctr"

\* cmdExec joins the net, ipc, uts and cgroup namespaces of the container: every
\* process it starts in a running container is in all four of them.
JoinsContainer == \A e \in Execs : Inside(e) => InContainer(e)

\* It is, when every setns succeeded and the goroutine stayed on one thread from
\* the first setns to the fork, however many invocations run at once.
JoinsUnlessMoved ==
    \A e \in Execs : Inside(e) /\ missed[e] \cap {"setns", "thread"} = {} => InContainer(e)

\* What the mirror has to leave: the file mounted in the container; without one the
\* node's; without that the file as it was.  A file of the image that the container
\* itself reads stays, unless an exec came while another one had it truncated: it
\* reads as empty then, and the node's takes its place for the container too.
Wanted ==
    CASE conf.ctr = "mount" -> {"ctr"}
      [] conf.ctr = "rootfs" /\ conf.image -> {"image", IF conf.node THEN "node" ELSE "image"}
      [] conf.ctr # "mount" /\ ~(conf.ctr = "rootfs" /\ conf.image) ->
             {IF conf.node THEN "node" ELSE Unwritten}

\* The session has the resolver it should: once a process was started in a
\* container that runs, and while no other invocation is rewriting the copy of
\* resolv.conf, the copy is one that the mirror has to leave, whatever files there
\* are.
ResolverMirrored ==
    /\ \E e \in Execs : Inside(e)
    /\ \A e \in Execs : ~At(e, "write") /\ "disk" \notin missed[e]
    => resolv \in Wanted

\* A session is in its container, with its namespaces and its resolver, in a
\* well-formed state (cmdExec's setns loop and resolv.conf mirror).
SessionInContainer == TypeOK /\ JoinsUnlessMoved /\ ResolverMirrored

\* An exec that fails leaves no process at work: none was started, it has ended,
\* or its terminal is gone.
FailedExecLeavesNothing == \A e \in Execs : result[e] = "error" => child[e].st # "run"

=============================================================================
