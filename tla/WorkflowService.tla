--------------------------- MODULE WorkflowService ---------------------------
(***************************************************************************)
(* The requests that change one novel, from the claim of their command to  *)
(* its settlement (api/routers/workflow_router.py, api/workflow_commands.py*)
(* and the chapter operations of api/routers/novel_router.py), in one      *)
(* process, over the idempotency store (CommandStore) and the execution    *)
(* gate of the novel (ExecutionGate).                                      *)
(*                                                                         *)
(* A request is of one of four kinds:                                      *)
(*   stream   POST /workflow/{id}/stream: its work runs in a task of its   *)
(*            own, which outlives the client that reads its events;        *)
(*   invoke   POST /workflow/{id}/invoke: works in the request's task;     *)
(*   rewrite  POST /novels/{id}/chapters/{id}/rewrite: the same, inside    *)
(*            exclusive_operation;                                         *)
(*   edit     PUT of a chapter and the batch delete: exclusive_operation   *)
(*            without a command.                                           *)
(* A request stands for the task that is registered for it, too.           *)
(***************************************************************************)
EXTENDS CommandStore, Naturals

CONSTANTS
    None,                   \* no task is registered
    KindOf,                 \* the kind of a request
    PreparationIsTimely,    \* TRUE: a start registers its task within the 60 s
                            \* of TASK_REGISTRATION_GRACE_SECONDS
    CancelIsTimely,         \* TRUE: a cancelled task ends in the 5 s cancel waits
    MaxCrashes              \* bound: restarts of the process

Kinds == {"stream", "invoke", "rewrite", "edit"}

ASSUME ServiceAssumption ==
    /\ KindOf \in [Requests -> Kinds]
    /\ None \notin Requests
    /\ PreparationIsTimely \in BOOLEAN
    /\ CancelIsTimely \in BOOLEAN
    /\ MaxCrashes \in Nat

VARIABLES
    locked, active, graceOver,  \* the gate
    pc,         \* how far every request is
    channel,    \* the event channel of a stream, as its client sees it
    cancelled,  \* tasks cancel() was called on
    waiting,    \* tasks a cancel request waits for
    effects,    \* history: requests whose work was completed or persisted
    crashes     \* how often the process was restarted

Gate == INSTANCE ExecutionGate WITH Tasks <- Requests

gateVars == <<locked, active, graceOver>>
cancelVars == <<cancelled, waiting>>
vars == <<storeVars, gateVars, pc, channel, cancelVars, effects, crashes>>

Phases == {"idle", "preparing", "scheduled", "running", "finalizing",
           "releasing", "unwinding", "closing", "done"}

Done == {r \in Requests : pc[r] = "done"}

TypeOK ==
    /\ StoreTypeOK
    /\ Gate!GateTypeOK
    /\ pc \in [Requests -> Phases]
    /\ channel \in [Requests -> {"none", "open", "left", "closed"}]
    /\ cancelled \in SUBSET Requests
    /\ waiting \in SUBSET Requests
    /\ effects \in SUBSET Requests
    /\ crashes \in 0 .. MaxCrashes

Init ==
    /\ StoreInit
    /\ Gate!GateInit
    /\ pc = [r \in Requests |-> "idle"]
    /\ channel = [r \in Requests |-> "none"]
    /\ cancelled = {}
    /\ waiting = {}
    /\ effects = {}
    /\ crashes = 0

Goto(r, phase) == pc' = [pc EXCEPT ![r] = phase]

restVars == <<channel, cancelVars, effects, crashes>>

-----------------------------------------------------------------------------
(* claim_command: an answer that grants nothing ends the request. *)

HasCommand(r) == KindOf[r] # "edit"

Claim(r) ==
    /\ pc[r] = "idle"
    /\ HasCommand(r)
    /\ ClaimAcquired(r) \/ ClaimRefused(r) \/ ClaimAnswered(r) \/ ClaimUnavailable(r)
    /\ IF view'[r] \in {"held", "refused"} THEN UNCHANGED pc ELSE Goto(r, "done")
    /\ UNCHANGED <<gateVars, restVars>>

\* The 5 s of the claim end, or its connection breaks, after the SET.
ClaimReplyLost(r) ==
    /\ pc[r] = "idle"
    /\ view[r] \in {"held", "refused"}
    /\ Abandon({r})
    /\ Goto(r, "done")
    /\ UNCHANGED <<gateVars, restVars>>

-----------------------------------------------------------------------------
(* Taking the gate. *)

MayStart(r) ==
    /\ pc[r] = "idle"
    /\ HasCommand(r) => view[r] = "held"

\* stream and invoke: the gate is held without a task while the command is
\* prepared (checkpoint reconciliation, validation, quota reservation).
StartPreparing(r) ==
    /\ MayStart(r)
    /\ KindOf[r] \in {"stream", "invoke"}
    /\ Gate!TryStart(Done)
    /\ Goto(r, "preparing")
    /\ UNCHANGED <<storeVars, restVars>>

\* rewrite and edit: exclusive_operation.
StartExclusive(r) ==
    /\ MayStart(r)
    /\ KindOf[r] \in {"rewrite", "edit"}
    /\ Gate!StartRegistered(r, Done)
    /\ Goto(r, "running")
    /\ UNCHANGED <<storeVars, restVars>>

Busy(r) ==
    /\ MayStart(r)
    /\ ~Gate!CanStart(Done)
    /\ Goto(r, IF HasCommand(r) THEN "unwinding" ELSE "done")
    /\ UNCHANGED <<storeVars, gateVars, restVars>>

Prepared(r) ==
    /\ pc[r] = "preparing"
    /\ Gate!Register(r)
    /\ IF KindOf[r] = "stream"
       THEN Goto(r, "scheduled") /\ channel' = [channel EXCEPT ![r] = "open"]
       ELSE Goto(r, "running") /\ UNCHANGED channel
    /\ UNCHANGED <<storeVars, cancelVars, effects, crashes>>

\* Variant: a preparation that fails does not finish.
PrepareFailsHolding(r) ==
    /\ pc[r] = "preparing"
    /\ Goto(r, "unwinding")
    /\ UNCHANGED <<storeVars, gateVars, restVars>>

\* The finish of this path names no task.
PrepareFails(r) ==
    /\ pc[r] = "preparing"
    /\ Gate!FinishAny
    /\ Goto(r, "unwinding")
    /\ UNCHANGED <<storeVars, restVars>>

-----------------------------------------------------------------------------
(* The work. *)

BodyStarts(r) ==
    /\ pc[r] = "scheduled"
    /\ r \notin cancelled
    /\ Goto(r, "running")
    /\ UNCHANGED <<storeVars, gateVars, restVars>>

\* A task cancelled before its first step never enters its coroutine: none of
\* the finally clauses of _run_stream_execution run.
NeverStarts(r) ==
    /\ pc[r] = "scheduled"
    /\ r \in cancelled
    /\ Abandon({r})
    /\ Goto(r, "done")
    /\ UNCHANGED <<gateVars, restVars>>

\* How the end of the work leaves the gate: a stream keeps it until its command
\* is settled, an invoke frees it whoever holds it, exclusive_operation frees
\* its own.
LeaveGate(r) ==
    \/ KindOf[r] = "stream" /\ UNCHANGED gateVars
    \/ KindOf[r] = "invoke" /\ Gate!FinishAny
    \/ KindOf[r] \in {"rewrite", "edit"} /\ Gate!Finish(r)

BodySucceeds(r) ==
    /\ pc[r] = "running"
    /\ r \notin cancelled
    /\ LeaveGate(r)
    /\ effects' = effects \cup {r}
    /\ Goto(r, IF HasCommand(r) THEN "finalizing" ELSE "done")
    /\ UNCHANGED <<storeVars, channel, cancelVars, crashes>>

BodyFails(r) ==
    /\ pc[r] = "running"
    /\ LeaveGate(r)
    /\ Goto(r, IF HasCommand(r) THEN "releasing" ELSE "done")
    /\ UNCHANGED <<storeVars, restVars>>

\* Variant: the failed rewrite releases its command all the same.
RewriteFailsReplayable(r) ==
    /\ pc[r] = "running"
    /\ KindOf[r] = "rewrite"
    /\ LeaveGate(r)
    /\ effects' = effects \cup {r}
    /\ Goto(r, "releasing")
    /\ UNCHANGED <<storeVars, channel, cancelVars, crashes>>

\* A rewrite that fails once its persistence has started keeps its command.
RewriteFailsPersisted(r) ==
    /\ pc[r] = "running"
    /\ KindOf[r] = "rewrite"
    /\ LeaveGate(r)
    /\ effects' = effects \cup {r}
    /\ Abandon({r})
    /\ Goto(r, "done")
    /\ UNCHANGED <<channel, cancelVars, crashes>>

-----------------------------------------------------------------------------
(* The settlement of the command. *)

Settling(r) == pc[r] \in {"finalizing", "releasing", "unwinding"}

AfterSettlement(r) ==
    Goto(r, IF KindOf[r] = "stream" /\ pc[r] # "unwinding" THEN "closing" ELSE "done")

Settle(r) ==
    /\ Settling(r)
    /\ IF pc[r] = "finalizing" THEN Finalize(r) ELSE Release(r)
    /\ AfterSettlement(r)
    /\ UNCHANGED <<gateVars, restVars>>

\* Variant: a settlement that fails deletes the key.
SettleFailsFreeing(r) ==
    /\ Settling(r)
    /\ lease' = [lease EXCEPT ![CommandOf[r]] = Free]
    /\ view' = [view EXCEPT ![r] = "unsettled"]
    /\ AfterSettlement(r)
    /\ UNCHANGED <<lapsed, gateVars, restVars>>

\* Redis is away, the 5 s end, or the task is cancelled once more.
SettleFails(r) ==
    /\ Settling(r)
    /\ Abandon({r})
    /\ AfterSettlement(r)
    /\ UNCHANGED <<gateVars, restVars>>

\* Variant: the None that ends the channel is not published.
CloseSilently(r) ==
    /\ pc[r] = "closing"
    /\ Gate!Finish(r)
    /\ Goto(r, "done")
    /\ UNCHANGED <<storeVars, restVars>>

\* The last finally of a stream: its own gate, then the end of its channel.
Close(r) ==
    /\ pc[r] = "closing"
    /\ Gate!Finish(r)
    /\ channel' = [channel EXCEPT ![r] = IF @ = "open" THEN "closed" ELSE @]
    /\ Goto(r, "done")
    /\ UNCHANGED <<storeVars, cancelVars, effects, crashes>>

\* The callback register_task added; a cancel or a later start that finds the
\* registered task done has the same effect on the gate.
DoneCallback(r) ==
    /\ pc[r] = "done"
    /\ active = r
    /\ Gate!Finish(r)
    /\ UNCHANGED <<storeVars, pc, restVars>>

-----------------------------------------------------------------------------
(* Cancellation, clients, time and crashes. *)

\* cancel() while a task is registered, up to its wait.
CancelTask(r) ==
    /\ active = r
    /\ pc[r] # "done"
    /\ cancelled' = cancelled \cup {r}
    /\ waiting' = waiting \cup {r}
    /\ UNCHANGED <<storeVars, gateVars, pc, channel, effects, crashes>>

\* The wait of cancel() ends: the task is done, or 5 s are over.
CancelReturns(r) ==
    /\ r \in waiting
    /\ CancelIsTimely => pc[r] = "done"
    /\ Gate!Finish(r)
    /\ waiting' = waiting \ {r}
    /\ UNCHANGED <<storeVars, pc, channel, cancelled, effects, crashes>>

\* cancel() while no task is registered, after the grace period.
CancelOrphan ==
    /\ active = None
    /\ graceOver
    /\ Gate!FinishAny
    /\ UNCHANGED <<storeVars, pc, restVars>>

GraceElapses ==
    /\ PreparationIsTimely => \A r \in Requests : pc[r] # "preparing"
    /\ Gate!GraceElapses
    /\ UNCHANGED <<storeVars, pc, restVars>>

\* The client of a stream goes away: the channel drops what follows.
Disconnect(r) ==
    /\ channel[r] = "open"
    /\ channel' = [channel EXCEPT ![r] = "left"]
    /\ UNCHANGED <<storeVars, gateVars, pc, cancelVars, effects, crashes>>

LeaseExpires(c) ==
    /\ Expire(c)
    /\ UNCHANGED <<gateVars, pc, restVars>>

\* The process dies and starts again: the gate and the tasks are gone, what
\* Redis holds stays.
Crash ==
    /\ crashes < MaxCrashes
    /\ crashes' = crashes + 1
    /\ Abandon(Requests)
    /\ pc' = [r \in Requests |->
                IF pc[r] = "idle" /\ view[r] = "none" THEN "idle" ELSE "done"]
    /\ channel' = [r \in Requests |->
                     IF channel[r] = "open" THEN "closed" ELSE channel[r]]
    /\ locked' = FALSE
    /\ active' = None
    /\ graceOver' = FALSE
    /\ cancelled' = {}
    /\ waiting' = {}
    /\ UNCHANGED effects

-----------------------------------------------------------------------------
\* What the code of a request does next, as opposed to what is done to it.
Step(r) ==
    \/ Claim(r) \/ ClaimReplyLost(r)
    \/ StartPreparing(r) \/ StartExclusive(r) \/ Busy(r)
    \/ Prepared(r) \/ PrepareFails(r)
    \/ BodyStarts(r) \/ NeverStarts(r)
    \/ BodySucceeds(r) \/ BodyFails(r) \/ RewriteFailsPersisted(r)
    \/ Settle(r) \/ SettleFails(r) \/ Close(r)

Next ==
    \/ \E r \in Requests : Step(r) \/ DoneCallback(r) \/ CancelTask(r)
                           \/ CancelReturns(r) \/ Disconnect(r)
    \/ \E c \in Commands : LeaseExpires(c)
    \/ CancelOrphan \/ GraceElapses \/ Crash

Spec == Init /\ [][Next]_vars

\* The event loop runs every request and callback that can go on, and all waits
\* have a timeout (5 s for the store, 180 s for a model call, 600 s for a
\* workflow).  Clients, cancellation, crashes and the store's clock owe nothing.
FairSpec ==
    /\ Spec
    /\ \A r \in Requests : /\ WF_vars(Step(r))
                           /\ WF_vars(DoneCallback(r))
                           /\ WF_vars(CancelReturns(r))

-----------------------------------------------------------------------------
\* Requests that may write to the novel or to its checkpoint.
Working(r) == pc[r] \in {"preparing", "scheduled", "running"}

\* exclusive_operation and try_start: at most one request works on the novel at
\* a time, over every interleaving of starts, cancels, done callbacks and
\* settlements, although the gate has no owner.
MutualExclusion ==
    \A r, s \in Requests : Working(r) /\ Working(s) => r = s

\* A held gate is held for somebody: no exit path of a request, cancelled or
\* crashed, leaves the novel locked with nothing left to free it.
HeldForSomebody ==
    locked => \/ \E r \in Requests : pc[r] = "preparing"
              \/ active # None

\* Whoever works behind the gate keeps it: no finish of an earlier request, its
\* callback or its cancel frees the gate under a later one.
NoLostGate ==
    \A r \in Requests : Working(r) => locked

\* A request that works can be stopped: once it is prepared it is the one
\* cancel() reaches.
Stoppable ==
    \A r \in Requests : pc[r] \in {"scheduled", "running"} => active = r

\* Two requests with one Idempotency-Key never work at the same time.
TwinExclusion ==
    \A r, s \in Requests :
        /\ HasCommand(r) /\ HasCommand(s)
        /\ Working(r) /\ Working(s)
        /\ CommandOf[r] = CommandOf[s]
        => r = s

\* What was done under a key is not done again under it, by retries, crashes or
\* lost answers, unless a lease of the key has expired unsettled.
NoRepeat ==
    \A r, s \in effects :
        /\ HasCommand(r) /\ HasCommand(s)
        /\ CommandOf[r] = CommandOf[s]
        => r = s \/ CommandOf[r] \in lapsed

\* The novel does not stay locked: every exit path frees the gate in the end.
GateReopens == locked ~> ~locked

\* Every stream that was not cancelled ends for its client: the relay gets the
\* None that ends it, whatever became of the work and of the settlement.
StreamsEnd ==
    \A r \in Requests :
        channel[r] = "open" ~> (channel[r] # "open" \/ r \in cancelled)

=============================================================================
