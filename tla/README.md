# AI-writter: a verification development

TLA+ models of the novel writing service in `src/`, the TLC runs that check them
on small instances, and TLAPS proofs of what matters most for every value of the
constants. Paths are relative to `src/writter_back` unless they begin with
`src/`; "WR" is `api/routers/workflow_router.py`, "NR"
`api/routers/novel_router.py`, "ORC" `application/orchestrator.py`, "REPO"
`infrastructure/database/repository.py`, "agents/" `application/agents/`.

Contents: the system · what is modelled · the runs · the proofs · what the
checks found · known limits · what is not modelled.

## 1. The system

A React client drives a FastAPI backend with **one worker process**
(`src/README.md:27-46`: the execution lock and the active tasks live in its
memory). The backend runs one LangGraph workflow per novel; its checkpoint is
stored in PostgreSQL by the checkpointer, the novel itself in PostgreSQL by the
repository, and the state of idempotent commands in Redis. No transaction spans
any two of the three stores.

```
 client ──HTTP/SSE──> routers ──claim/settle──> Redis (command store)
   polls                │ try_start/finish/cancel
                        v
                  orchestrator gate ──> graph of agents ──> checkpointer
                        │                    │ persist_node
                        └─ reconcile ────────┴──> repository (chapters, progress,
                                                   plans, checkpoint_sync)
```

### Components

| Component | State it keeps | Operations | What makes it correct | Modelled by |
|---|---|---|---|---|
| **Idempotency of commands** `infrastructure/command_store/redis_command_store.py`, `api/workflow_commands.py` | a key per tenant, novel and Idempotency-Key: `running:<token>` with a TTL of 720 s, or `applied` with 24 h | claim (SET NX EX, then GET), finalize and release (scripts that compare the token) | one holder; a finalized command is never granted again; refusals are true; late settlements harm nobody; a key is not stuck | `CommandStore` |
| **Execution gate** ORC 163-448 | an `asyncio.Lock`, the registered task and the age of the last start, per novel | try_start, register_task, finish, cancel, exclusive_operation, the task's done callback | one request works on a novel at a time; the gate always reopens; whoever works can be cancelled | `ExecutionGate`, `WorkflowService` |
| **Workflow and chapter requests** WR, NR | the asyncio task of a request, its stream channel | invoke, stream (a task of its own), rewrite, edit, batch delete, cancel | every exit path settles the command and frees the gate; a stream ends for its client; work is not repeated under a key | `WorkflowService` |
| **Checkpoint reconciliation** `application/checkpoint_reconciliation.py`, ORC 594-632, REPO 1228-1293 | `progress.checkpoint_sync`, the request left by a chapter operation | mark (in the transaction of the operation), replay on the checkpoint, conditional clear; called by starts, by operations and by polls | checkpoint and tables agree before a generation starts; the request is neither lost nor replayed when stale | `CheckpointSync`, `Manuscript` |
| **Novel repository** REPO | novels, chapters, progress, plans, tactical windows, executions, chapter versions | `replace_chapter`, `update_chapter_consistently`, `rewind_chapters_atomically`, `accept_plan`, `accept_tactical_plan`, `upsert_plan_execution` | chapters are a prefix of the book; optimistic versions; idempotent acceptance | `CheckpointSync`, `ChapterLoop`, `StoryMemory` |
| **Agent graph** `application/workflow_builder.py`, `application/agents/` | the checkpointed `NovelAgentState`: index, draft, review state, proposals | 32 nodes; `router_agent` decides the next stage of a chapter; interrupts wait for a person | a chapter is stored once, reviewed, in its place; every pause is resumable | `ChapterLoop` |
| **Planning** `application/planning.py`, `tactical_planning.py`, `agents/novel_plan_node.py` | plan versions with volumes, arcs, slots; tactical windows; `plan_execution` | generate, review, accept, reschedule drift | completed chapters are locked; targets add up; one active plan version | `PlanEvolution`, `ChapterLoop` |
| **Proposals** `application/proposals.py` | `pending_proposal` in the checkpoint: kind, id, version | create, decide (accept, modify, replace) | a decision applies to the proposal it was made for, once | `ChapterLoop` |
| **Quota** `application/quota_service.py`, `infrastructure/database/identity_repository.py:426` | ledger rows per workflow run, operation and chapter; the tenant's monthly limit | reserve (row lock, existing?, count, insert) | the limit is not exceeded; a retry is not charged twice | `QuotaLedger`, `ChapterLoop` |
| **Identity and sessions** `application/auth_service.py` | users, refresh sessions | login, rotate, revoke, change password | a refresh token is used once; the client shares one refresh | — |
| **Tenants and membership** `identity_repository.py:261-424` | memberships, invitations, roles | invite, accept, change role, remove, transfer | a tenant keeps one owner; an invitation is accepted once | — |
| **Continuity, memory, scene queue** `application/continuity.py`, `scene_queue.py`, `infrastructure/memory/` | a memory and a summary per chapter, one story state; the context in the checkpoint | build context, distribute scene lengths, store memory | every memory is of the text the chapter has; a chapter is written from what is current | `StoryMemory` (not the scene queue) |
| **Feature policy, configuration** `application/feature_policy.py` | the planning switch, read live by nodes | `require_planning_v1` | a switch in the middle of a run stops it resumable | `ChapterLoop` (the switch) |
| **Language models** `infrastructure/llm/` | none | calls with a timeout of 180 s | their failures are failures of a node | — |
| **Web client** `src/writter_front/src` | reducer of workflow state, session, active command | stream, poll, retry, refresh | late or reordered events do not roll the view back | — |
| **Administration, migrations, deployment** | — | reports, single updates, one-off schema changes | — | `QuotaLedger` (a tenant's limit) |

### How they interact, and what is hard

* **The gate has no owner.** `try_start` takes the lock before there is a task;
  `finish` without a task frees whatever holds it; a start, a cancel, the task's
  `finally` and its done callback all call it, in any order. A held lock without
  a task counts as orphaned after 60 s.
* **Two calls per claim, two scripts per settlement,** each with a timeout of
  5 s after which nobody knows whether Redis did it; leases may expire under
  their holder.
* **Cancellation** may hit a task before its first step, in its `finally`, or
  during the settlement; cancel waits 5 s only.
* **Restarts** forget gate and tasks; Redis, tables and checkpoint stay.
* **A chapter's transaction and its checkpoint are two commits**; a run may die
  between them, after which a retry stores the chapter again.
* **Reconciliation is three calls to two stores**, each may fail, and it is run
  by polls that do not hold the gate.
* **Fresh inputs go on top of the old checkpoint**: some values are replaced,
  others (the draft) are inherited.
* **A node is tried again by a later command** on the checkpoint before it, after
  its transactions happened or not; what it asks twice (a charge, an acceptance,
  a chapter) must be recognised.
* **The checkpoint remembers for later nodes** what was retrieved, reserved,
  reviewed and proposed; whoever moves the position must forget the right parts.
* **Plans are edited by a model within rules**: what is written and the next
  five chapters are locked, words must add up, volumes are detailed late.
* **Texts have derived rows** (memories, summaries, states, executions), kept up
  by four different transactions.

`PROJECT.json` lists these and the remaining hazards, each at its line.

## 2. What is modelled

| Module | Models | State ↔ code |
|---|---|---|
| `CommandStore` | the Redis store and the client side that claims and settles | `lease[c]`: the value of the key; `view[r]`: what request r's claim and settlement came to; `lapsed`: history of expired leases |
| `ExecutionGate` | the orchestrator's gate of one novel; every operation is one step of the event loop | `locked`, `active` (registered task), `graceOver` (60 s since the start) |
| `WorkflowService` | the requests of one novel from claim to settlement, over both (EXTENDS the store, INSTANCE of the gate) | `pc[r]`, `channel[r]` (the event channel), `cancelled`, `waiting` (cancel's wait), `effects` (history), `crashes` |
| `Manuscript` | the abstract specification of the tables: write next, edit one, rewrite one, delete a tail | `text`, `written` |
| `CheckpointSync` | tables and checkpoint with the generation, a chapter operation and polls | `chapters`, `current`, `sync` (the progress row), `ckpt`, `run` (the running graph), `gen`, `op` (phases), `asked` (the novel a command has read before the gate), `previous` (the progress a rewrite has read), `rec`, `request` (each reconciliation) |
| `ChapterLoop` | the nodes of the graph over the tables, from the plan of the book to the reconciled chapter, and the commands between the runs | `ckpt` (the state of the graph and its next node), `db` (chapters, plan and window versions, idempotency key, charges, executions, status), `run` (the command that executes) |
| `PlanEvolution` | what `build_plan` and `reschedule_minor_drift` make of what a model proposes | `plan` (version, scale, blueprint, slots), `completed`, `build` (what the last plan was for and what came of it) |
| `QuotaLedger` | `reserve_quota`, statement by statement, with an administrator and the calendar | `tenant`, `holder` (of the row lock), `ledger`, `req[r]` (what the call has read), `period` |
| `StoryMemory` | the rows derived from the texts, and the context in the checkpoint | `chapters` (id, version, text), `memories`, `executions`, `ckpt`, `op` (a rewrite), `seen[e]` (what a window has loaded) |
| `MC*` | instances for TLC | |
| `*Proofs` | theorems | |

**Composition.** `WorkflowService` runs over the store and the gate, and is shown
to use the store as `CommandStore` specifies. `CheckpointSync` implements
`Manuscript`. The other modules meet at named interfaces: that requests exclude
each other (`WorkflowService`) is why `CheckpointSync`, `ChapterLoop` and
`StoryMemory` have one generation or operation at a time; that a checkpoint is
reconciled before a command starts (`CheckpointSync`) is why the operations of
`ChapterLoop` rewind it in one step; that a repeated reservation is free
(`QuotaLedger`) is why `ChapterLoop` has a set of paid chapters; what a new plan
version may be (`PlanEvolution`) is why `ChapterLoop` counts versions only.

### Requests and time

One action of `WorkflowService` is what runs between two awaits that matter to
another actor. Settlement and claim carry their failures (`ClaimUnavailable`,
`ClaimReplyLost`, `SettleFails`). `Crash` restarts the process: volatile state
goes, `lease` stays. A request claims once; its token (a fresh uuid) is modelled
by the request. The horizon is the 24 hours of an `applied` value, so that it
never expires; a running lease may at any time.

**Assumptions are constants**, so that every property says which it needs:

| Constant | TRUE means | Status in the code |
|---|---|---|
| `LeaseOutlivesWork` | no lease lapses under a request that works | TTL = `WORKFLOW_TIMEOUT_SECONDS` + 120; holds of streams and invokes, **not** of rewrites, which have no overall timeout (180 s per model call) |
| `PreparationIsTimely` | a start registers its task within 60 s | not enforced: preparation waits for database locks. If it is false the next start takes the gate for orphaned and `MutualExclusion` is lost |
| `CancelIsTimely` | a cancelled task ends within the 5 s of `cancel` | not enforced |
| `RestartIsClean` | no run dies between a chapter's transaction and its checkpoint | not enforced |
| `StartIsInformed` | a fresh start has seen the novel as it is and is not sent while there is a draft | the client's behaviour; the server does not check |
| `MidChapterRestarts` of `ChapterLoop` (FALSE) | TRUE: fresh starts, replans and the schema upgrade may come while a chapter is under way | the server does not check; the client retries instead. `StoryMemory` has these steps without an assumption |
| `MidChapterRewrites` (FALSE) | TRUE: an earlier chapter may be rewritten while the next one waits for a review or its reconciliation | the server allows it; section 6 says what is lost |

### The checkpoint protocol

A text is the place it was written for, whether it was reviewed, and the last
hand on it. A checkpoint is index, draft and next node. The nodes before the
first chapter are one node ("setup" or, for a replanning, "plan"), and those
between the writer and persist are one ("review"): neither moves progress or
draft, apart from what `Review` does. The request's two indexes are equal in
every caller, so that one is kept. `PersistChapter` is enabled for indexes inside
the plan only (a bound: chapters past the plan have no row in the model).

### The writing loop

A node reads the checkpoint the step before it left, has transactions, and leaves
an update. `Settle` is how every node ends: with its update and its transactions,
or in an error that leaves the checkpoint, whether or not the transactions
happened: models that do not answer, an exhausted quota, the planning switch, a
cancel and a crash all come to that. A review node that has a decision runs again
from its start, which is one action here with the command that resumes it; in
auto mode it accepts by itself unless a human is required (`Decides`).

* A window, an outline and an execution are known by chapter and versions; a
  proposal by its kind, its chapter and its id. Of ids two suffice: the one the
  tables remember as idempotency key and one they do not.
* Of the quality gate: whether it was taken (passed, or accepted by the user),
  which chapter it quotes, and `current`, a ghost: the draft is the text that
  review has read. `pending.current` is the same of a proposal.
* `Route` is the list of the router's conditions in the order of their
  precedence, for either schema version; the router may find the switch of the
  tenant on and upgrade a checkpoint of the older schema.
* The nodes that create a book end in `ReuseOutline`: its outline exists.
* A replan is asked for by a command or by a major drift; the book has one volume,
  detailed by its first plan.
* `Edit` and `DeleteFrom` have the rewind of the reconciliation in them.

### Plans

`Build` is `build_plan`: the slots of the lock are taken over, the words that are
not protected are shared out by `Targets`, and the candidate is validated; what
does not pass leaves the plan as it was. A slot is its volume, its words, its
level of detail, the version its text is from (`made`, which stands for functions
and events), and `refs`: the arcs it is of and the foreshadowing it sets up and
pays off. The model proposes any blueprint that `validate_blueprint` passes, with
the same volumes or renamed ones and with any arcs, any weights, and references
that `_raw_slot_errors` passes: to arcs of the blueprint in their chapters, and to
any foreshadowing. As bounds of the runs, books over `MaxPlotted` chapters have
neither, the others have no weights, and a generation whose blueprint has arcs
foreshadows nothing. `IsValid` then asks of the whole plan what `validate_novel_plan`
does: volumes and words (`SlotsFit`), arcs that exist, cover their slots and
escalate inside (`ArcsHold`), and that everything set up is paid off later
(`HooksHold`); slots that are taken over refer to what they referred to before, so
that a plan can close in words and be refused for these. `Verdict` names the first
of the errors. That a core arc closes in the last chapter is asked of the blueprint
and of the plan alike, and no operation can change it in between; it is left out.
`AllocateExcess` is the water-filling of `_allocate_excess` with exact integers
where the code has floats. The numbers are scaled: 3000 .. 7000 words by 1000, a
lock of five and volumes of 25 chapters to a lock of one and volumes of three.

### Quota

A charge is (run, operation, chapter). Repeats name the same charge: a run keeps
its id in its checkpoint, a replan and a rewrite derive theirs from the
Idempotency-Key. Every statement of the transaction is a step that reads what is
committed (READ COMMITTED); the first takes the row lock. The administrator's
read and UPDATE of the dirty columns are one step that waits for the lock.

### Derived rows

A text is known by the transaction that stored it. A memory is its kind, its
chapter and the texts it is of: one for a chapter and a summary, several for the
story state, which a model merges from the state before and the new chapter.
`Persist` may lose its checkpoint, so that the same draft is stored again;
`ReconcilePlan` and `FinishRewrite` may fail on either side of their transaction.
A window loads a chapter at any time and saves with the version it has loaded.
`Start` is a resume or a retry, which goes on from the checkpoint or stores its
draft. `Restart` is a fresh input or a replan: it puts the position of the tables
over the checkpoint and keeps draft and context; what comes next is the check of
the progress (`CheckProgress`), or, by the outline that is reused, `persist_node`
with the draft there is. A replan is the plan's nodes before that check, which
leave this state alone. A chapter whose `router` has not retrieved the context
yet, and has no draft, is between chapters (`BetweenChapters`). `restarted` is a history
variable, not of the code: whether a `Restart` has come since the last `Retrieve`.

## 3. The runs

| Run | Instance | Shows |
|---|---|---|
| `service_timely` | a stream and an invoke with one key, an edit; one restart; timely, leases may lapse | `MutualExclusion`, `HeldForSomebody`, `NoLostGate`, `Stoppable`, `TruthfulRefusal`, `GateReopens`, `StreamsEnd`, and `StoreSpec`: the service uses the store as its specification allows |
| `service_untimely` | two rewrites with one key, a stream; one restart; untimely preparations and cancels | `TwinExclusion` and `NoRepeat` all the same |
| `sync_clean` | three chapters, clean restarts, informed starts | `RewritesSurvive`, and the tables implement `Manuscript` |
| `sync_lossy` | three chapters, runs die anywhere | `InStep`, `EditsSurvive`, `RewindIsConfirmed` |
| `sync_polled` | two chapters, a polling client, uninformed starts, lost commits | `RequestIsCurrent`, `NoBlindStart` |
| `chapter_loop` | two chapters, two plan versions, two windows before the changes stop, one revision, one restart of a batch | drafts are stored reviewed (`ReviewIsOfTheDraft`), decisions find their proposal (`DecidedOnTheDraftInHand`), writers their memory (`Informed`), their accepted plan (`WrittenToAcceptedPlan`) and a payment (`PaidBeforehand`); repeated acceptances are one (`AcceptedOnce`), executions quote their own review (`FulfilmentIsOfTheChapter`), auto mode never replans by itself (`NoSilentReplan`), every run ends (`RunsSettle`) |
| `plan_evolution` | books of two and of four chapters, volumes of up to three, three versions; two weights in the long ones, an arc and a foreshadowing in the short ones | the plan in force validates (`TypeOK`), words are shared out exactly (`AllocationIsExact`), nothing locked is touched (`LockIsKept`), replans close in volumes and words and are refused for references of kept slots only (`ReplanCloses`), and move no words they should not (`WordsStable`) |
| `quota_ledger` | two calls, three charges, limits 0 to 2, two months, one update | `ChargesAreAllowed`, `RepeatIsFree` |
| `story_memory` | three chapters, a context of one whole chapter, two windows, five texts | `MemoriesFollowTheText`, `StateIsOfTheBook`, `ExecutionsFollowTheText`, `ContextIsCurrent`, `EditsReplaceWhatTheyRead`; fresh inputs and replans come at any time |
| `unreviewed_draft`, `dead_batch`, `skeleton_lock` | | the disagreements of section 5 |

**Why these bounds.** Three requests are the smallest number for the hard case
of the gate: one that ended late, one that lost the gate, and one that came
third; two with one key and one without cover twins beside a stranger. One
restart suffices, since a restart puts every process but the leases back into
its initial state. Two chapters are the smallest book with a stored chapter, a
next one and an end; three add a chapter between an operation's and the last,
and in `story_memory` one that is in a context by its summary only. One poller
suffices for what a reconciliation beside the gate can do: its state is one
request, and two reconcilers (poller and holder) already overlap. Two plan
versions and two windows are the fewest with an outdated one of each. Four
chapters in volumes of up to three are the smallest book whose lock reaches into
a volume that is not detailed. Two chapters are the smallest book with a locked
slot and one that is replaced, and what one foreshadowing takes: with them a replan
of the future is refused for an arc and for a foreshadowing, and a plan of the
volume for a foreshadowing. Neither depends on the other, nor on words. Two calls
and three charges have a repeat and a competitor at a limit of one. Five texts have
a chapter stored, stored again, edited, rewritten and written anew. `MaxCrashes`, `MaxPlanVersion`,
`MaxWindowVersion`, `MaxVersion`, `MaxHeavy`, `MaxPlotted`, `MaxReferring`, `MaxPeriod`,
`MaxUpdates` and `MaxTexts` are bounds on what the code has no bound for; a step at the bound is
not taken. Symmetry is not used: the liveness runs do not allow it, and the
requests have different kinds.

**Deadlock.** The service stops when every request is done, a book when it is
complete and its bounds are used up (`CHECK_DEADLOCK FALSE`). `CheckpointSync`,
`PlanEvolution` and `QuotaLedger` never stop and are checked for deadlock.

**Fairness.** `WorkflowService!FairSpec`: every request's next step, the done
callback and the wait of a cancel are weakly fair. The event loop schedules every
ready coroutine, and every wait of a request has a timeout (5 s for the store,
180 s for a model call, 600 s for a workflow). Clients, cancels, crashes, the
grace and the store's clock owe nothing. `ChapterLoop!FairSpec`: a run that has a
step takes one; users and commands owe nothing. The other runs check safety.

## 4. The proofs

All hold for every set of requests, commands, windows and charges, any number of
restarts, any length of book and any scale. The assumptions are the `ASSUME`s of
the modules.

| Module | Theorem | Assumes |
|---|---|---|
| `CommandStoreProofs` | `StoreTypeCorrect`, `FinalizedForGood`, `RefusalIsTruthful`, `SettlementIsOwned` | — |
| | `StoreExclusion` | `LeaseOutlivesWork` |
| `WorkflowServiceProofs` | `ServiceImplementsStore` (`StoreSpec`), `TypeCorrect`, `NothingRepeated`, `GateIsNeverForgotten` | — |
| | `Exclusion`, `GateIsKept`, `WorkIsStoppable` | `PreparationIsTimely`, `CancelIsTimely` |
| | `TwinsExclude` | `LeaseOutlivesWork` |
| `CheckpointSyncProofs` | `TypeCorrect`, `RequestStaysCurrent`, `NoBlindStarts` | — |
| `SerialSyncProofs` | `SerialInvariant`, `RewindsAreConfirmed`, `EditsAreKept` | nobody polls |
| | `RewritesAreKept` | nobody polls, `RestartIsClean` |
| | `ChaptersAreContiguous`, `CheckpointsAreInStep` | nobody polls, `StartIsInformed` |
| | `ImplementsManuscript` (`ManuscriptSpec`) | nobody polls, `StartIsInformed`, `RestartIsClean` |
| `PlanEvolutionProofs` | `PlanStaysValid` (`TypeOK`), `TheLockIsKept`, `WordsStayPut`, `WordsAreSharedExactly` (`AllocationIsExact`), `ReplansClose` (`ReplanCloses`) | — |
| `QuotaLedgerProofs` | `QuotaInvariant`, `QuotaTyped`, `NothingIsOverdrawn`, `RepeatsAreFree` | — |
| `ChapterLoopProofs` | `LoopInvariant`, `LoopTyped`, `ReviewsAreOfTheDraft`, `DecisionsAreOfTheDraftInHand`, `ChaptersAreInformed`, `ChaptersArePaidBeforehand`, `PlansAreAcceptedOnce`, `FulfilmentsAreOfTheChapter`, `ChaptersAreWrittenToAcceptedPlans` (`WrittenToAcceptedPlan`) | `~MidChapterRestarts` |
| | `NoReplanIsSilent` | — |
| `StoryMemoryProofs` | `TypeCorrect`, `MemoriesOfTheTexts`, `EditsAreOfWhatWasRead` | — |
| | `BookFollowed`, `StateIsOfTheTexts`, `ExecutionsAreOfTheTexts`, `ContextsAreCurrent` | `~MidChapterRewrites` |

**The store.** The inductive invariant (`StoreInv`) says that a request that
still works holds the lease of its key or a lease of that key has lapsed, and
that an applied key is exactly one that some request finalized;
`TruthfulRefusal` is only inductive together with the latter. `OneHolder` is
proved beside it, since it holds only while leases outlive the work.

**The service.** Every step of the service is a step of the store or leaves it
alone, so that the store's invariant carries over. The gate does not know its
owner, so the invariant (`GateInv`) says what stands for one: while a request
prepares the lock is held, nothing is registered and the grace is not over; from
then on until it frees the gate it is the registered task. `Exclusion` needs the
two assumptions on time because a `finish` without a task, or a start after the
grace, acts for anybody. `NoRepeat` rests on a different invariant (`KeyInv`)
that does without time: what was done under a key leaves the key leased by its
request, applied or lapsed, and nothing else lets a second claim pass.

**The checkpoint.** The types are not inductive alone: that a checkpoint before
the review has a draft, that one before the router has a chapter left to write,
and that a reconciliation that rewinds has a request belong to `TypeInv`.
`RequestIsCurrent` needs that the progress a rewrite has read was one whose own
request was current (`CurrentInv`): it writes both back. `NoBlindStart` needs
that a generation that prepares has no chapter operation beside it and, once its
reconciliation is through, no request (`PreparedInv`). `SerialInv` carries the
rest: without a pending request the checkpoint is at the position of the tables
or lags by one stored draft that nobody has edited, a run that has stored its
chapter is exactly one behind, the actors are apart, and a request that is being
replayed asks for the confirmed position. A run that was asked for before
chapters were deleted begins past the position of the tables and leaves a gap
(without `StartIsInformed` TLC finds one), but never before it:
between the question and the start the tables can only have lost chapters
(`AskedBefore`). That is enough for edits and rewrites, which are in the tables before that position, and
for rewinds, so that these three need no `StartIsInformed`.

`ImplementsManuscript` needs what `SerialInv` says of positions and, beside it,
that every row is a reviewed text of its own place (`RowsFit`), that a draft in the
checkpoint or in a run is of the place the checkpoint is at, and that it is
reviewed when it reaches persist (`TextInv`). Then the draft a run stores is what
the manuscript may write next; an operation on a chapter is the edit, the rewrite
or the deletion; everything else is a stutter.

**The loop.** No property of the loop is inductive: a checkpoint can stop at any
of 22 places, and what a node relies on was put there several nodes before. The
invariant (`LoopInv`) says at each place what the checkpoint remembers there:
where it is against the chapters (`Placed`), what is drafted, checked and planned
(`Sequenced`), that memory and reservation are of the position (`Remembers`,
`Charged`), what a pending proposal is about (`Proposed`), how the versions of
outline, plan and tables follow each other (`Bound`), what the gate quotes
(`Judged`) and that a batch that replaces a structure requires a human
(`Batched`). It is stated of a checkpoint and of tables, because `Settle` mixes
the old checkpoint with the new tables when a node fails late: each update is
shown to have it over the tables it leaves, and the old checkpoint to keep it
over those. The part that is easy to miss is `Outdated`: while a plan is made or
its proposal is pending, the outline in the checkpoint must not be one the router
would take for the next chapter's, or a chapter could be written with the
decision on its plan still open.
`ReviewIsOfTheDraft` then is a conjunct. `NoSilentReplan` has an invariant of its
own (`BatchInv`): the batch of a replan or an upgrade is forced, so a node that
runs on in auto mode does not decide it. It keeps out of what is drafted and
where, and so holds wherever a fresh start or an upgrade comes.

`WrittenToAcceptedPlan` takes another invariant beside this one (`Tied`), which
says what plan and window an outline was made for. An outline the router would
take is of the plan and the window of the tables (`InForce`), and the writer has
one (`Prepared`). Acceptance commits before its checkpoint, so the tables may be
ahead of the checkpoint in between: a window proposal that was accepted is the
window of the tables (`WindowPending`), and a plan that was accepted leaves the
outline in the checkpoint behind (`PlanPending`); without them, what a second try
of the acceptance leaves could not be shown to fit.

For all but `NoReplanIsSilent`, fresh starts over a chapter under way are left out
(`~MidChapterRestarts`): they inherit the draft and put another plan beside it.

**The plan.** `LockIsKept` is proved from the construction, not from the
validation: whatever raw slots there are, `Materialized` takes those of the lock
from the plan before, and these are the chapters `KeepsTheLock` compares; that
the book still has them is `ScaleFits` and the blueprint. `TypeOK` is inductive
because only what validates is stored, and a shift of events keeps words,
volumes and references.

`AllocationIsExact` and `ReplanCloses` are about a sum and an allocation that go
through a set of chapters one round after another. Both are recursive functions on
the subsets of a finite set, so that what holds of them can be shown by way of the
least subset it would fail for: strict inclusion of finite sets is well founded.
The same argument shows that the functions exist (`LeastSubset`,
`RecursionOnSubsets`). A round of the water-filling either puts every chapter that
would get more than its room at the maximum, or shares out what is left and stops.
What the rounds keep (`Fair`) is that the rest fits into the chapters that are
still open, and that whoever is closed would share in no less than his room if he
were open: the shares of the open ones only grow. In the last round nobody is at
his room by weight alone, everybody gets the whole part of his share, and the
words that remain are fewer than the chapters and go to the largest remainders,
one each (`RemaindersAreShared`). So the open ones are within a word of their
share, all words are given out, and nobody is over a maximum.
For `ReplanCloses`: what the locked chapters leave of the words of the plan is what
the other chapters of the plan before had together, so it lies between their
minimum and maximum and can be allocated; then the new slots add up to the words
of the book, and are in the volumes their chapters belong to because the blueprint
kept those of the lock. This says that such a plan closes, not that it is accepted:
it may still be refused for what its slots refer to. A plan of a volume cannot be
refused for an arc, since it has the arcs of the plan before, whose slots fit them,
and its new slots were asked to (`ArcsAsMaterialized`); it can be for
foreshadowing, of which it may have replaced one half. A shift of events changes
neither.

**The quota.** `QuotaInv` says what a call that holds the lock has read: the
tenant as it is, whether its charge is in the ledger, and how many rows the month
it asked about has; the lock keeps all three true until it commits. That the
ledger is finite is part of it, so that its rows can be counted.

**The derived rows.** The types need what the checkpoint promises its next node
and that the gate keeps a rewrite and a generation apart (`Promised`).
`MemoriesFollowTheText` is inductive row by row (`RowsOfTheTexts`): each of the
transactions gives one chapter its text and its rows, or takes both away from a
chapter on. What the checkpoint holds back is harder (`Follows`): a state of a
chapter is of texts up to it, and an unreconciled operation leaves nothing to be
said until its request is replayed, so that the invariant is stated for
checkpoints without a pending request; rewrites leave none, hence the assumption.
It holds wherever fresh inputs come: they keep a context or empty it, and what it
keeps is of the book, the first half of `ContextIsCurrent`. That the context is
complete is more: there a context that counts as retrieved must be the one the
tables have for the chapter (`Undisturbed`). A fresh input or a replan breaks that,
the next retrieval mends it, and the history variable `restarted` is TRUE in
between: `Complete` says that all is well while it is FALSE, and that no draft
comes to a retrieval.
`EditsReplaceWhatTheyRead` follows from another one (`SeenFollows`): ids are never
used again, and a row with the id and version a window has loaded is that row.

**Model-checked only:** liveness (`GateReopens`, `StreamsEnd`, `RunsSettle`), since
the prover has neither liveness under fairness nor `ENABLED`; and the three
disagreements of section 5, which are counterexamples.

## 5. Where code and documents disagree

1. **`unreviewed_draft`** — a fresh input on a checkpoint with a draft reaches
   `persist_node`, which stores any draft it finds. The client retries instead of
   starting afresh in that case; the server does not ask.
2. **`dead_batch`** — a planning batch that ended in an error after its last
   volume stays in the checkpoint; `novel_plan_initialize_node` takes any batch
   it finds for one that can be resumed, and the volume node asks for a volume
   that is not there, on every retry.
3. **`skeleton_lock`** — the slots of the lock window are taken over as they are.
   When a volume is entered its first chapters are locked skeletons, so the plan
   that details the volume leaves the very chapter it is for a skeleton, and the
   router asks for that plan again.

## 6. Known limits of the code, seen while modelling

These are behaviours of the code outside the assumptions of the runs; each was
reached in the model by dropping an assumption or a guard.

* `invoke_workflow` ends with `finish(context, thread_id)` without its task
  (WR 739). After a cancel that stopped waiting it frees the gate of the request
  that came next (`MutualExclusion` needs `CancelIsTimely`).
* A stream cancelled before the first step of its task never enters
  `_run_stream_execution` (WR 958): its command is settled by nobody and keeps
  its lease; its relay sends heartbeats until the client leaves.
* The poll checks `is_executing` once and replays a request that may have been
  replaced since (WR 755), leaving the checkpoint past the tables until the next
  operation (`RewindIsConfirmed` needs that nobody polls).
* An edit leaves a request, a rewrite does not: if a run died between a chapter's
  transaction and its checkpoint, going on after the rewrite stores the old draft
  over it (`RewritesSurvive` needs `RestartIsClean`). After such a death a replan
  may also store the old draft as the next chapter (`ManuscriptSpec` does).
* A rewrite while the next chapter waits leaves that chapter's context, and a
  pending reconciliation, with the text before (`StateIsOfTheBook` and
  `ExecutionsFollowTheText` fail with `MidChapterRewrites`;
  `MemoriesFollowTheText` holds).
* Edits, deletions and rewrites drop every story state; a rewrite of a chapter
  that is not the last leaves one of that chapter. Nothing merges the later
  chapters in again: the state is of the book, but not of all of it.
* A preparation over 60 s loses the gate, and a rewrite over 720 s its lease.
* An automatic shift of events whose checkpoint is lost finds its own plan version
  in the tables (`ExecutionIsCurrent`) and ends every retry until a fresh start.
* A replan over a pending or lost proposal of an automatic batch is decided
  without the user, since the batch in the checkpoint is kept.
* A replan whose blueprint renames or drops a volume keeps slots of the old one,
  and ends unclosable or in a KeyError (`planning.py:304`).
* A fresh input, or a replan, over a chapter under way reaches
  `progress_check_node`, whose `_continue_update` empties `memory_context` and keeps
  `memory_retrieved_for_chapter` (`agents/progress_check_node.py:83`). The router
  takes the memory for retrieved (`agents/router_agent.py:60`), and the chapter is
  written, reviewed and stored without the chapters before it, while
  `src/README.md:160` says that every novel has their layers (`ContextIsCurrent`
  without `~restarted` is violated; that nothing is of a replaced text is not). The story state
  starts anew from that chapter, since it is merged from the emptied context. The
  client retries instead; the server does not ask.
* A replan that closes may still be refused for what the slots it keeps refer to:
  arcs the new blueprint does not have or has elsewhere (future, scale), and
  foreshadowing whose other half was in a slot it replaced (the outcomes
  `dangling` and `unpaid` of `plan_evolution`). After three attempts the run ends
  in an error that can be retried.
* For a draft accepted without a review, the plan fulfilment of an earlier
  chapter may be quoted (`novel_plan_node.py:561`).
* The first outline of a book without a checkpoint gets a fresh run id, so that
  its repeat after a lost answer is charged twice.

## 7. What is not modelled, and why

* **Text**: prompts, budgets, excerpts, search, the scene queue, the shape of
  replacements and of review reports. No control depends on it, apart from
  whether a model's answer validates, which is a choice everywhere.
* **Language models**: external; a failure is a failure of the node.
* **The creation of a book** before its plan (type, outline, characters) is an
  entry of `ChapterLoop`; the legacy `user_decision` paths of the revision node
  are not reached by the present routers. The fallbacks of
  `memory_retrieval_node` are for books whose chapters have no memories, which
  `MemoriesFollowTheText` excludes. `rolling_plan`, of older outlines, is deleted
  with the story state. The replacement of a whole outline at its review, the
  `chapter_outlines_input` of a request and schemas before 3 are not modelled.
* **Identity, sessions, tenants and membership**: one transaction each on rows it
  locks, without a part in the writing of a book.
* **`delete_novel` and the edit of title and summary** take no gate; a running
  generation ends at its next transaction, or overwrites the title.
* **The automatic retry of a stream attempt** runs under one command and one gate
  and is part of the body of a request.
* **The web client** is a view. What its users may send is modelled more freely
  than it does; its reducer and its shared refresh are not.
* **Administration** beyond a tenant's limit, migrations, layout, deployment.
