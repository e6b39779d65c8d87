---------------------------- MODULE CheckpointSync ----------------------------
(***************************************************************************)
(* The progress of one novel is kept twice: in the tables of the           *)
(* repository (chapters, progress) and in the LangGraph checkpoint of its  *)
(* workflow.  No transaction spans both.  A change of the chapters that    *)
(* does not come from the workflow leaves a durable request                *)
(* (progress.checkpoint_sync) in its own transaction, and                  *)
(* reconcile_pending_checkpoint replays it on the checkpoint later.        *)
(*                                                                         *)
(* The actors are the generation and the chapter operation that exclude    *)
(* each other by the execution gate (ExecutionGate), and the polls of the  *)
(* workflow's state, which reconcile, too, without taking the gate.        *)
(*                                                                         *)
(* Progress is complete when current = Total, so a request, whose          *)
(* next_index and discard_from_index agree, is modelled by that index.     *)
(* The nodes between the start of a run and its first chapter are one      *)
(* node, "setup" or, for a replanning, "plan"; those that review a draft   *)
(* are "review".                                                           *)
(***************************************************************************)
EXTENDS Naturals

CONSTANTS
    Total,              \* chapters of the book
    Pollers,            \* clients that poll GET /workflows/{id}/state
    None,               \* no chapter, no draft, no checkpoint, no request
    StartIsInformed,    \* TRUE: who starts afresh has seen the novel as it is,
                        \* and retries when there is a draft
    RestartIsClean,     \* TRUE: no crash, cancel or failure falls between the
                        \* transaction of a chapter and its checkpoint
    Operations          \* the chapter operations that occur

Indexes == 0 .. Total - 1
Positions == 0 .. Total
Reconcilers == Pollers \cup {"generation", "operation"}

\* The chapter a text was written for, whether it passed a review, and the last
\* hand on it.
Texts == [of : Indexes, reviewed : BOOLEAN, by : {"generation", "edit", "rewrite"}]

Drafts == [of : Indexes, reviewed : BOOLEAN]

Nodes == {"setup", "plan", "persist", "check", "router", "review", "end"}

\* current_chapter_index, current_chapter_content and the next node.
Checkpoints == [index : Positions, draft : Drafts \cup {None}, next : Nodes]

ASSUME CheckpointAssumption ==
    /\ Total \in Nat \ {0}
    /\ None \notin Nat /\ None \notin Texts /\ None \notin Drafts /\ None \notin Checkpoints
    /\ StartIsInformed \in BOOLEAN
    /\ RestartIsClean \in BOOLEAN
    /\ Operations \subseteq {"edit", "rewrite", "delete"}
    /\ {"generation", "operation"} \cap Pollers = {}

VARIABLES
    chapters,   \* the rows of chapters
    current,    \* progress.current_chapter
    sync,       \* progress.checkpoint_sync
    ckpt,       \* the latest checkpoint of the thread
    gen,        \* phase of the generation
    asked,      \* the command of the generation, with the novel it has read
    run,        \* the state of the running graph, in memory
    op,         \* phase of the chapter operation
    previous,   \* the progress a rewrite has read
    rec,        \* how far every reconciliation is
    request     \* the request every reconciliation has read

dbVars == <<chapters, current, sync>>
genVars == <<gen, asked, run>>
opVars == <<op, previous>>
recVars == <<rec, request>>
vars == <<dbVars, ckpt, genVars, opVars, recVars>>

Commands == [kind : {"none", "fresh", "replan", "go on"}, seen : Positions]
NoCommand == [kind |-> "none", seen |-> 0]

TypeOK ==
    /\ chapters \in [Indexes -> Texts \cup {None}]
    /\ current \in Positions
    /\ sync \in Positions \cup {None}
    /\ ckpt \in Checkpoints \cup {None}
    /\ gen \in {"idle", "asked", "preparing", "running", "persisted"}
    /\ asked \in Commands
    /\ run \in Checkpoints \cup {None}
    /\ op \in {"idle", "rewriting", "reconciling"}
    /\ previous \in [current : Positions, sync : Positions \cup {None}]
    /\ rec \in [Reconcilers -> {"idle", "read", "rewind", "clear", "deferred"}]
    /\ request \in [Reconcilers -> Positions \cup {None}]

Init ==
    /\ chapters = [i \in Indexes |-> None]
    /\ current = 0
    /\ sync = None
    /\ ckpt = None
    /\ gen = "idle"
    /\ asked = NoCommand
    /\ run = None
    /\ op = "idle"
    /\ previous = [current |-> 0, sync |-> None]
    /\ rec = [a \in Reconcilers |-> "idle"]
    /\ request = [a \in Reconcilers |-> None]

\* The execution gate of the novel.
GateHeld == gen \in {"preparing", "running", "persisted"} \/ op # "idle"

-----------------------------------------------------------------------------
(* reconcile_pending_checkpoint: three calls, of the repository, of the     *)
(* checkpointer and of the repository.  Any failure defers it.              *)

RecGoto(a, phase) == rec' = [rec EXCEPT ![a] = phase]

StartReconciling(a) ==
    /\ RecGoto(a, "read")
    /\ request' = [request EXCEPT ![a] = None]

ReadRequest(a) ==
    /\ rec[a] = "read"
    /\ request' = [request EXCEPT ![a] = sync]
    /\ RecGoto(a, IF sync = None THEN "idle" ELSE "rewind")
    /\ UNCHANGED <<dbVars, ckpt, genVars, opVars>>

\* aupdate_state as progress_check_node: its route decides the next node.
Rewound(next) ==
    [index |-> next, draft |-> None, next |-> IF next = Total THEN "end" ELSE "router"]

\* Variant: the update of the checkpoint is not made.
RewindSkipped(a) ==
    /\ rec[a] = "rewind"
    /\ RecGoto(a, "clear")
    /\ UNCHANGED <<dbVars, ckpt, genVars, opVars, request>>

Rewind(a) ==
    /\ rec[a] = "rewind"
    /\ ckpt' = IF ckpt = None THEN None ELSE Rewound(request[a])
    /\ RecGoto(a, "clear")
    /\ UNCHANGED <<dbVars, genVars, opVars, request>>

ClearRequest(a) ==
    /\ rec[a] = "clear"
    /\ sync' = IF sync = request[a] THEN None ELSE sync
    /\ RecGoto(a, IF sync = request[a] THEN "idle" ELSE "deferred")
    /\ request' = [request EXCEPT ![a] = None]
    /\ UNCHANGED <<chapters, current, ckpt, genVars, opVars>>

ReconcileFails(a) ==
    /\ rec[a] \in {"read", "rewind", "clear"}
    /\ RecGoto(a, "deferred")
    /\ request' = [request EXCEPT ![a] = None]
    /\ UNCHANGED <<dbVars, ckpt, genVars, opVars>>

Reconcile(a) ==
    ReadRequest(a) \/ Rewind(a) \/ ClearRequest(a) \/ ReconcileFails(a)

\* GET state reconciles when is_executing says no, and only then.
Poll(p) ==
    /\ rec[p] \in {"idle", "deferred"}
    /\ ~GateHeld
    /\ StartReconciling(p)
    /\ UNCHANGED <<dbVars, ckpt, genVars, opVars>>

-----------------------------------------------------------------------------
(* The generation: from its command to a running graph. *)

\* _authorize_thread reads the novel before the command is claimed and the
\* gate is taken.
Ask(kind) ==
    /\ gen = "idle"
    /\ asked' = [kind |-> kind, seen |-> current]
    /\ gen' = "asked"
    /\ UNCHANGED <<dbVars, ckpt, run, opVars, recVars>>

Acquire ==
    /\ gen = "asked"
    /\ ~GateHeld
    /\ gen' = "preparing"
    /\ StartReconciling("generation")
    /\ UNCHANGED <<dbVars, ckpt, asked, run, opVars>>

\* The gate is freed with the end of a generation, however it ends: at an
\* interrupt, at END, by a failure, a refusal, a cancel or the 600 s.
StopGeneration ==
    /\ gen' = "idle"
    /\ asked' = NoCommand
    /\ run' = None

Refused ==
    /\ gen \in {"asked", "preparing"}
    /\ StopGeneration
    /\ rec' = [rec EXCEPT !["generation"] = "idle"]
    /\ request' = [request EXCEPT !["generation"] = None]
    /\ UNCHANGED <<dbVars, ckpt, opVars>>

\* Variant: a deferred reconciliation is only reported.
CheckpointReadyOrNot == gen = "preparing" /\ rec["generation"] \in {"idle", "deferred"}

\* _ensure_checkpoint_ready: "deferred" is answered with 503.
CheckpointReady == gen = "preparing" /\ rec["generation"] = "idle"

\* The input of a fresh run goes on top of what the checkpoint holds, the draft
\* included; current_chapter_index comes from the novel that was read.  A
\* completed novel is refused; a replanning needs a plan to start from.
StartFresh ==
    /\ CheckpointReady
    /\ \/ asked.kind = "fresh" /\ asked.seen < Total
       \/ asked.kind = "replan" /\ ckpt # None
    /\ LET draft == IF ckpt = None THEN None ELSE ckpt.draft
       IN  /\ StartIsInformed =>
                asked.seen = current /\ (asked.kind = "fresh" => draft = None)
           /\ run' = [index |-> asked.seen, draft |-> draft,
                      next |-> IF asked.kind = "replan" THEN "plan" ELSE "setup"]
    /\ ckpt' = run'
    /\ gen' = "running"
    /\ UNCHANGED <<dbVars, asked, opVars, recVars>>

\* resume goes on at the next node; so does retry when that node has failed;
\* retry routes a draft, otherwise, where the router would.
Resumed(from) ==
    {state \in {from, [from EXCEPT !.next = "review"]} :
        /\ state.next # "end"
        /\ state # from => from.draft # None /\ from.next # "plan"}

GoOn ==
    /\ CheckpointReady
    /\ asked.kind = "go on"
    /\ ckpt # None
    /\ run' \in Resumed(ckpt)
    /\ ckpt' = run'
    /\ gen' = "running"
    /\ UNCHANGED <<dbVars, asked, opVars, recVars>>

-----------------------------------------------------------------------------
(* The nodes.  The graph writes its own state over the latest checkpoint. *)

Commit(state) == run' = state /\ ckpt' = state

At(node) == gen = "running" /\ run.next = node

SetUp ==
    /\ \/ At("setup") /\ Commit([run EXCEPT !.next = "persist"])
       \/ At("plan") /\ Commit([run EXCEPT !.next = "check"])
    /\ UNCHANGED <<dbVars, gen, asked, opVars, recVars>>

\* persist_node without a draft saves the setup: it reads the novel and writes
\* it back, the progress with it, which nobody else moves meanwhile.
PersistSetup ==
    /\ At("persist")
    /\ run.draft = None
    /\ Commit([run EXCEPT !.next = "check"])
    /\ UNCHANGED <<dbVars, gen, asked, opVars, recVars>>

\* persist_node with a draft: the transaction of replace_chapter, which also
\* writes a progress without a request.
PersistChapter ==
    /\ At("persist")
    /\ run.draft # None
    /\ run.index \in Indexes    \* bound: no rows past the plan
    /\ chapters' = [chapters EXCEPT ![run.index] =
                      [of |-> run.draft.of, reviewed |-> run.draft.reviewed,
                       by |-> "generation"]]
    /\ current' = run.index + 1
    /\ sync' = None
    /\ gen' = "persisted"
    /\ UNCHANGED <<ckpt, asked, run, opVars, recVars>>

\* Variant: the index of the stored chapter is kept.
ChapterCommittedInPlace ==
    /\ gen = "persisted"
    /\ Commit([index |-> run.index, draft |-> None, next |-> "check"])
    /\ gen' = "running"
    /\ UNCHANGED <<dbVars, asked, opVars, recVars>>

ChapterCommitted ==
    /\ gen = "persisted"
    /\ Commit([index |-> run.index + 1, draft |-> None, next |-> "check"])
    /\ gen' = "running"
    /\ UNCHANGED <<dbVars, asked, opVars, recVars>>

\* _trusted_progress: the repository's, or the checkpoint's when that fails.
Trusted == {current, run.index}

Check ==
    /\ At("check")
    /\ \E index \in Trusted :
         Commit([index |-> index,
                 draft |-> IF index = Total THEN run.draft ELSE None,
                 next |-> IF index = Total THEN "end" ELSE "router"])
    /\ UNCHANGED <<dbVars, gen, asked, opVars, recVars>>

Write ==
    /\ At("router")
    /\ run.draft = None
    /\ Commit([run EXCEPT !.draft = [of |-> run.index, reviewed |-> FALSE],
                          !.next = "review"])
    /\ UNCHANGED <<dbVars, gen, asked, opVars, recVars>>

Review ==
    /\ At("review")
    /\ Commit([run EXCEPT !.draft.reviewed = TRUE, !.next = "persist"])
    /\ UNCHANGED <<dbVars, gen, asked, opVars, recVars>>

GenerationStops ==
    /\ gen \in {"running", "persisted"}
    /\ RestartIsClean => gen = "running"
    /\ StopGeneration
    /\ UNCHANGED <<dbVars, ckpt, opVars, recVars>>

-----------------------------------------------------------------------------
(* The chapter operations, under the gate. *)

MayOperate(kind) == kind \in Operations /\ ~GateHeld

Exists(k) == chapters[k] # None

ThenReconcile ==
    /\ op' = "reconciling"
    /\ StartReconciling("operation")

\* Variant: the edit leaves no request.
EditUnmarked(k) ==
    /\ MayOperate("edit")
    /\ Exists(k)
    /\ chapters' = [chapters EXCEPT ![k].by = "edit"]
    /\ ThenReconcile
    /\ UNCHANGED <<current, sync, ckpt, genVars, previous>>

\* update_chapter_consistently, with _mark_edit_checkpoint_sync.
Edit(k) ==
    /\ MayOperate("edit")
    /\ Exists(k)
    /\ chapters' = [chapters EXCEPT ![k].by = "edit"]
    /\ sync' = current
    /\ ThenReconcile
    /\ UNCHANGED <<current, ckpt, genVars, previous>>

\* Variant: the delete leaves the chapters after the selected ones.
DeleteOnly(k) ==
    /\ MayOperate("delete")
    /\ Exists(k)
    /\ chapters' = [chapters EXCEPT ![k] = None]
    /\ current' = k
    /\ sync' = k
    /\ ThenReconcile
    /\ UNCHANGED <<ckpt, genVars, previous>>

\* Variant: the request of the delete is off by one.
DeleteMarksNext(k) ==
    /\ MayOperate("delete")
    /\ Exists(k)
    /\ chapters' = [i \in Indexes |-> IF i < k THEN chapters[i] ELSE None]
    /\ current' = k
    /\ sync' = k + 1
    /\ ThenReconcile
    /\ UNCHANGED <<ckpt, genVars, previous>>

\* rewind_chapters_atomically from the earliest selected chapter.
Delete(k) ==
    /\ MayOperate("delete")
    /\ Exists(k)
    /\ chapters' = [i \in Indexes |-> IF i < k THEN chapters[i] ELSE None]
    /\ current' = k
    /\ sync' = k
    /\ ThenReconcile
    /\ UNCHANGED <<ckpt, genVars, previous>>

\* A rewrite reads the progress it will write back with its chapter.
StartRewrite ==
    /\ MayOperate("rewrite")
    /\ current > 0
    /\ previous' = [current |-> current, sync |-> sync]
    /\ op' = "rewriting"
    /\ UNCHANGED <<dbVars, ckpt, genVars, recVars>>

Rewrite(k) ==
    /\ op = "rewriting"
    /\ Exists(k)
    /\ chapters' = [chapters EXCEPT ![k] = [of |-> k, reviewed |-> TRUE, by |-> "rewrite"]]
    /\ current' = previous.current
    /\ sync' = previous.sync
    /\ ThenReconcile
    /\ UNCHANGED <<ckpt, genVars, previous>>

\* The operation ends with its reconciliation, whatever came of it, or early.
OperationEnds ==
    /\ op # "idle"
    /\ op' = "idle"
    /\ previous' = [current |-> 0, sync |-> None]
    /\ rec' = [rec EXCEPT !["operation"] = "idle"]
    /\ request' = [request EXCEPT !["operation"] = None]
    /\ UNCHANGED <<dbVars, ckpt, genVars>>

-----------------------------------------------------------------------------
Generate ==
    \/ Acquire \/ Refused \/ StartFresh \/ GoOn
    \/ SetUp \/ PersistSetup \/ PersistChapter \/ ChapterCommitted
    \/ Check \/ Write \/ Review \/ GenerationStops

Operate ==
    \/ \E k \in Indexes : Edit(k) \/ Delete(k) \/ Rewrite(k)
    \/ StartRewrite \/ OperationEnds

Next ==
    \/ \E kind \in {"fresh", "replan", "go on"} : Ask(kind)
    \/ Generate
    \/ Operate
    \/ \E a \in Reconcilers : Reconcile(a)
    \/ \E p \in Pollers : Poll(p)

Spec == Init /\ [][Next]_vars

-----------------------------------------------------------------------------
\* The next chapter to write is the one after the last that is there, and there
\* is no gap before it, whatever the operations, resumed runs and lost commits.
Contiguous == \A i \in Indexes : chapters[i] # None <=> i < current

\* A pending request asks for the position the tables confirm: every transaction
\* that moves the progress replaces the request or drops it, a rewrite that
\* writes back what it has read included.
RequestIsCurrent == sync # None => sync = current

\* Without a pending request the checkpoint is in step with the tables, or, if a
\* run died between the transaction of a chapter and its checkpoint, one behind
\* with the draft that is already stored.
InStep ==
    sync = None /\ ckpt # None /\ gen # "persisted" =>
        \/ ckpt.index = current
        \/ ~RestartIsClean /\ ckpt.index + 1 = current /\ ckpt.draft # None

\* No generation starts over a pending request (the 503 of
\* _ensure_checkpoint_ready), although polls reconcile beside it.
NoBlindStart ==
    [][gen = "preparing" /\ gen' = "running" => sync = None]_vars

\* rewind_checkpoint rewinds to the position the tables confirm.
RewindIsConfirmed ==
    [][\A a \in Reconcilers : Rewind(a) /\ ckpt # None => ckpt'.index = current]_vars

Overwrites(hand) ==
    \E i \in Indexes :
        chapters[i] # None /\ chapters[i].by = hand /\ chapters'[i] # chapters[i]

\* No run stores a draft of its own over a chapter its author has edited, even
\* if it resumes a checkpoint from before the edit: what the request of
\* _mark_edit_checkpoint_sync is for.
EditsSurvive == [][PersistChapter => ~Overwrites("edit")]_vars

\* The same of a chapter that was rewritten on request.
RewritesSurvive == [][PersistChapter => ~Overwrites("rewrite")]_vars

\* A chapter is only stored once its text has passed a review.
ReviewedOnly == \A i \in Indexes : chapters[i] # None => chapters[i].reviewed

\* The tables of the detailed system behave as a manuscript: a text in the
\* wrong place, or one nobody reviewed, is unfit for it.
Text(i) ==
    IF chapters[i] = None THEN "none"
    ELSE IF chapters[i].of # i \/ ~chapters[i].reviewed THEN "unfit"
    ELSE IF chapters[i].by = "edit" THEN "edited" ELSE "generated"

Novel == INSTANCE Manuscript
         WITH text <- [i \in Indexes |-> Text(i)], written <- current

ManuscriptSpec == Novel!ManuscriptSpec
=============================================================================
