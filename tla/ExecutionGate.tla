---------------------------- MODULE ExecutionGate ----------------------------
(***************************************************************************)
(* The execution gate of one novel in the orchestrator                     *)
(* (application/orchestrator.py): an asyncio.Lock, the asyncio task that   *)
(* was registered for it, and the age of the start that took it.           *)
(*                                                                         *)
(* The lock is not owned by a task.  It is taken by try_start before there *)
(* is a task to register, and released by finish, which anybody may call:  *)
(* with a task it only acts for the registered one, without a task it acts *)
(* always.  No operation here awaits anything before its last effect (the  *)
(* acquire of try_start finds the lock free), so each is one step of the   *)
(* event loop.                                                             *)
(***************************************************************************)

CONSTANTS
    Tasks,  \* asyncio tasks that may be registered
    None    \* no task is registered

VARIABLES
    locked,     \* _locks[key].locked()
    active,     \* _active_tasks.get(key)
    graceOver   \* _registration_grace_expired(key): 60 s since the last start

gateVars == <<locked, active, graceOver>>

GateTypeOK ==
    /\ locked \in BOOLEAN
    /\ active \in Tasks \cup {None}
    /\ graceOver \in BOOLEAN

\* An empty orchestrator: no snapshot, so no grace period that could be over.
GateInit ==
    /\ locked = FALSE
    /\ active = None
    /\ graceOver = FALSE

\* Variant: no grace for a start that has not registered its task yet.
OrphanedAtOnce(dead) == active \in dead \/ active = None

\* A held lock nobody will release, when the tasks in dead are done.
Orphaned(dead) == active \in dead \/ (active = None /\ graceOver)

CanStart(dead) == locked => Orphaned(dead)

\* An orphaned lock is released (finish) and taken again in one step; a task
\* left over on a free lock is not cleared.
TryStart(dead) ==
    /\ CanStart(dead)
    /\ locked' = TRUE
    /\ active' = IF locked THEN None ELSE active
    /\ graceOver' = FALSE

\* Variant: exclusive_operation does not register its task.
StartUnregistered(t, dead) == TryStart(dead)

\* exclusive_operation registers the calling task in the step of its start.
StartRegistered(t, dead) ==
    /\ CanStart(dead)
    /\ locked' = TRUE
    /\ active' = t
    /\ graceOver' = FALSE

Register(t) ==
    /\ active' = t
    /\ UNCHANGED <<locked, graceOver>>

\* finish(context, thread_id): whoever holds the lock.
FinishAny ==
    /\ locked' = FALSE
    /\ active' = None
    /\ UNCHANGED graceOver

\* Variant: finish does not ask whether the task is the registered one.
FinishUnguarded(t) == FinishAny

\* Variant: finish forgets the task and not the lock.
FinishKeepsLock(t) ==
    /\ active' = IF active = t THEN None ELSE active
    /\ UNCHANGED <<locked, graceOver>>

\* finish(context, thread_id, task=t)
Finish(t) == IF active = t THEN FinishAny ELSE UNCHANGED gateVars

\* The age of a start is only asked for while nothing is registered.
GraceElapses ==
    /\ locked
    /\ active = None
    /\ ~graceOver
    /\ graceOver' = TRUE
    /\ UNCHANGED <<locked, active>>
=============================================================================
