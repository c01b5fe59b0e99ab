---------------------------- MODULE OciLifecycle ----------------------------
(***************************************************************************)
(* What the OCI runtime promises of one container after the other: the     *)
(* lifecycle of the runtime specification, as the caller of `runc` relies  *)
(* on it.  A container's program runs only between a start and a delete,   *)
(* start succeeds only once the init was let go (or is dead), and a        *)
(* container is deleted only when nothing of it runs.                      *)
(***************************************************************************)
CONSTANT Ids

VARIABLES
    phase,  \* per id: absent, creating, created, released, running, stopped
    start   \* per id: none, pending, done

lvars == <<phase, start>>

Phases == {"absent", "creating", "created", "released", "running", "stopped"}

LInit == /\ phase = [i \in Ids |-> "absent"]
         /\ start = [i \in Ids |-> "none"]

Move(i, from, to) == /\ phase[i] \in from
                     /\ phase' = [phase EXCEPT ![i] = to]
                     /\ UNCHANGED start

Create(i)  == Move(i, {"absent"}, "creating")
Created(i) == Move(i, {"creating"}, "created")
Release(i) == start[i] = "pending" /\ Move(i, {"created"}, "released")
Run(i)     == Move(i, {"released"}, "running")
Stop(i)    == Move(i, Phases \ {"absent", "stopped"}, "stopped")

\* One step: a start that is over is forgotten with its container.
Delete(i)  == /\ phase[i] = "stopped" /\ start[i] # "pending"
              /\ phase' = [phase EXCEPT ![i] = "absent"]
              /\ start' = [start EXCEPT ![i] = "none"]

Start(i)      == /\ start[i] = "none" /\ phase[i] \in {"created", "stopped"}
                 /\ start' = [start EXCEPT ![i] = "pending"]
                 /\ UNCHANGED phase
StartDone(i)  == /\ start[i] = "pending" /\ phase[i] \in {"released", "running", "stopped"}
                 /\ start' = [start EXCEPT ![i] = "done"]
                 /\ UNCHANGED phase
\* A start that failed, or whose outcome no longer matters to the caller.
StartOver(i)  == /\ start[i] \in {"pending", "done"}
                 /\ start' = [start EXCEPT ![i] = "none"]
                 /\ UNCHANGED phase

LNext == \E i \in Ids :
            \/ Create(i) \/ Created(i) \/ Release(i) \/ Run(i) \/ Stop(i) \/ Delete(i)
            \/ Start(i) \/ StartDone(i) \/ StartOver(i)

LSpec == LInit /\ [][LNext]_lvars
=============================================================================
