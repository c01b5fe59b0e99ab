------------------------------ MODULE TimedRun ------------------------------
(***************************************************************************)
(* A command run under a time limit, as PID 1 does it in two ways.         *)
(* combinedOutputTimeout (the kernel probes) starts the command itself and *)
(* leaves only the waiting to a goroutine; runWithTimeoutEnv (ctr, crictl) *)
(* and runcPhase1 leave the starting to the goroutine too, so that the     *)
(* time may be over before cmd.Process is set.                             *)
(***************************************************************************)
EXTENDS World

VARIABLES
    call,  \* the helper: where it is, and what it returned
    proc   \* the command

timedVars == <<call, proc>>

NoCall == [helper |-> "none", st |-> "idle", err |-> "none", out |-> "empty"]
NoProc == [st |-> "none", cg |-> "root", code |-> "good", signalled |-> FALSE]

TimedInit == call = NoCall /\ proc = NoProc

\* A variant for mutation: the timer runs while the command is being started.
TimedStartUnderTimer(helper) ==
    /\ call.st = "idle" /\ proc.st = "none"
    /\ call' = [NoCall EXCEPT !.helper = helper, !.st = "select"]
    /\ proc' = [NoProc EXCEPT !.st = "forking"]

\* The command is being started: for combinedOutputTimeout by the caller, which
\* sets no timer yet; for runWithTimeoutEnv by the goroutine, under the timer.
TimedStart(helper) ==
    /\ call.st = "idle" /\ proc.st = "none"
    /\ call' = [NoCall EXCEPT !.helper = helper,
                              !.st = IF helper = "combined" THEN "starting" ELSE "select"]
    /\ proc' = [NoProc EXCEPT !.st = "forking"]

\* Start returns: cmd.Process is set from now on.
ExecDone ==
    /\ proc.st = "forking"
    /\ proc' = [proc EXCEPT !.st = "running"]
    /\ call' = [call EXCEPT !.st = IF @ = "starting" THEN "select" ELSE @]
    /\ Works

\* Start returns an error, for combinedOutputTimeout to the caller at once.
ExecFails ==
    /\ proc.st = "forking" /\ call.st \in {"starting", "select"}
    /\ proc' = [proc EXCEPT !.st = "reaped"]
    /\ call' = [call EXCEPT !.st = "returned", !.err = "start"]

\* The command exits: with status 0 and the report that is hoped for or another
\* one, or killed by a signal.
ChildExits(code) ==
    /\ proc.st = "running"
    /\ proc' = [proc EXCEPT !.st = "exited", !.code = code, !.cg = "root"]
    /\ UNCHANGED call

\* <-done: the goroutine has read all the output and the status.
DoneReceived ==
    /\ call.st = "select" /\ proc.st = "exited"
    /\ proc' = [proc EXCEPT !.st = "reaped"]
    /\ call' = [call EXCEPT !.st = "returned", !.out = "all",
                            !.err = IF proc.code # "killed" THEN "none" ELSE "status"]
    /\ Works

\* <-time.After(d), which select may take also when the command has ended just
\* then.  cmd.Process.Kill() on a nil Process is a panic of PID 1.
TimerFires ==
    /\ call.st = "select"
    /\ Fails(<<"child", IF proc.st = "forking" THEN "slow exec" ELSE "slow">>)
    /\ CASE proc.st = "forking" -> call' = [call EXCEPT !.st = "panic"] /\ UNCHANGED proc
         [] proc.st # "forking" /\ call.helper = "combined" ->
              /\ call' = [call EXCEPT !.st = "grace"]
              /\ proc' = [proc EXCEPT !.st = IF @ = "running" THEN "dying" ELSE @, !.signalled = TRUE]
         [] OTHER ->
              \* `out' is read while the goroutine may be writing it.
              /\ \E seen \in {"empty", "torn", "all"} :
                    call' = [call EXCEPT !.st = "returned", !.err = "timeout", !.out = seen]
              /\ proc' = [proc EXCEPT !.st = IF @ = "running" THEN "dying" ELSE "reaped",
                                      !.signalled = TRUE]

\* combinedOutputTimeout waits for the goroutine, but not longer than 2 s.
GraceDone ==
    /\ call.st = "grace" /\ proc.st \in {"dying", "exited"}
    /\ proc' = [proc EXCEPT !.st = "reaped", !.cg = "root"]
    /\ call' = [call EXCEPT !.st = "returned", !.err = "timeout", !.out = "all"]
    /\ Works

GraceOver ==
    /\ call.st = "grace"
    /\ Fails(<<"child", "slow">>)
    /\ \E seen \in {"empty", "torn"} :
          call' = [call EXCEPT !.st = "returned", !.err = "timeout", !.out = seen]
    /\ UNCHANGED proc

TimedNext == DoneReceived \/ TimerFires \/ GraceDone \/ GraceOver
=============================================================================
