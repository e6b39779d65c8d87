----------------------------- MODULE ChapterLoop -----------------------------
(***************************************************************************)
(* The writing loop of the agent graph (application/agents, from the plan  *)
(* of the book on) over the tables of the novel: what the nodes do to the  *)
(* checkpoint and to the repository from one command to the next.          *)
(*                                                                         *)
(* A node runs on the checkpoint the step before it left.  Its effects on  *)
(* the repository are transactions of their own, so that a node that ends  *)
(* in an error (a model that does not answer, an exhausted quota, the      *)
(* planning switch off, a cancel, a crash) may have had them or not, while *)
(* the checkpoint stays where it was and is tried again by a later command.*)
(*                                                                         *)
(* The book has one volume, detailed by its first plan; PlanEvolution      *)
(* models what the slots of a plan become.  The creation of the book,      *)
(* before the plan, is an entry that leads to the plan or to the loop.     *)
(***************************************************************************)
EXTENDS Integers, Sequences

CONSTANTS
    Total,              \* chapters of the book
    LockWindow,         \* chapters after the completed ones no plan may change
    MaxRevisions,       \* max_reflection_loops: revisions auto mode may make
    MaxRestarts,        \* restarts of a plan that fails its final validation (2)
    MaxPlanVersion,     \* bound: plan versions
    MaxWindowVersion,   \* bound: no change of the chapters and no new
                        \* tactics once so many windows were accepted
    MidChapterRestarts  \* TRUE: fresh starts and the schema upgrade may come
                        \* when a chapter is already under way

ASSUME LoopAssumption ==
    /\ Total \in Nat \ {0}
    /\ LockWindow \in Nat
    /\ MaxRevisions \in Nat
    /\ MaxRestarts \in Nat
    /\ MaxPlanVersion \in Nat \ {0}
    /\ MaxWindowVersion \in Nat
    /\ MidChapterRestarts \in BOOLEAN

VARIABLES
    ckpt,       \* the checkpoint: the state of the graph and its next node
    db,         \* the tables of the novel
    run         \* the command that executes the graph: none ("idle"), one of
                \* auto_mode ("auto") or one that asks the user ("manual")

vars == <<ckpt, db, run>>

running == run # "idle"
auto == run = "auto"

-----------------------------------------------------------------------------
(* The checkpoint and the tables *)

Nobody == 0     \* no chapter, no version, no proposal
Unset == -1     \* no index
Indexes == 0 .. Total

NoWindow == [version |-> 0, plan |-> 0, start |-> 0]
NoOutline == [chapter |-> 0, plan |-> 0, window |-> 0]

\* taken: the review passed or the user took the draft as reviewed; about: the
\* chapter whose review the gate quotes; current: the draft in hand is the text
\* that review read.
NoGate == [taken |-> FALSE, about |-> Nobody, current |-> FALSE]

\* id stands for the uuid of the proposal, payload for the review or the
\* window in it; current: it is about the draft in hand.
NoProposal == [id |-> Nobody, kind |-> "none", chapter |-> 0,
               window |-> NoWindow, ready |-> FALSE, current |-> FALSE]

\* left: volumes the batch still has to make.
NoGeneration == [mode |-> "none", expected |-> 0, left |-> 0,
                 restarts |-> 0, forced |-> FALSE]

Nodes == {"plan", "volume", "finalize", "plan_review", "persist", "progress",
          "router", "memory", "quota", "tactical", "outline", "outline_review",
          "chapter_plan_review", "write", "compact", "reflect", "reflect_review",
          "revise", "revise_review", "reconcile"}

Kinds == {"none", "novel_plan", "chapter_plan", "chapter_outline",
          "reflection", "revision"}
Modes == {"none", "initial", "legacy_upgrade", "replan", "volume_detail"}

Windows == [version : Nat, plan : Nat, start : Indexes]
Outlines == [chapter : Indexes, plan : Nat, window : Nat]
Gates == [taken : BOOLEAN, about : Indexes, current : BOOLEAN]
Proposals == [id : 0 .. 2, kind : Kinds, chapter : Indexes, window : Windows,
              ready : BOOLEAN, current : BOOLEAN]
Generations == [mode : Modes, expected : Nat, left : {0, 1},
                restarts : 0 .. MaxRestarts, forced : BOOLEAN]

Checkpoints ==
    [next : Nodes \cup {"start", "end"}, schema : {4, 5}, index : Indexes,
     text : BOOLEAN, checked : BOOLEAN,
     memFor : Indexes \cup {Unset}, memory : Indexes \cup {Unset},
     quotaFor : Indexes \cup {Unset},
     plan : Nat, window : Windows, expected : Nat,
     outline : Outlines, attempts : 0 .. MaxRevisions, gate : Gates,
     pending : Proposals,
     gen : Generations, replan : BOOLEAN,
     unreconciled : BOOLEAN, feedback : BOOLEAN]

\* A chapter has the chapter its row quotes.
Executions == UNION {[chapters -> Indexes] : chapters \in SUBSET (1 .. Total)}

Tables ==
    [chapters : Indexes, plan : Nat, window : Windows,
     accepted : [key : 0 .. 2, version : Nat],
     paid : SUBSET Indexes, executions : Executions,
     status : {"none", "accepted", "needs_reconciliation", "needs_review"}]

TypeOK ==
    /\ run \in {"idle", "manual", "auto"}
    /\ ckpt \in Checkpoints
    /\ db \in Tables

Init ==
    /\ ckpt = [next |-> "start", schema |-> 4, index |-> 0,
               text |-> FALSE, checked |-> FALSE,
               memFor |-> Unset, memory |-> Unset, quotaFor |-> Unset,
               plan |-> 0, window |-> NoWindow, expected |-> 0,
               outline |-> NoOutline, attempts |-> 0, gate |-> NoGate,
               pending |-> NoProposal,
               gen |-> NoGeneration, replan |-> FALSE,
               unreconciled |-> FALSE, feedback |-> FALSE]
    /\ db = [chapters |-> 0, plan |-> 0, window |-> NoWindow,
             accepted |-> [key |-> Nobody, version |-> 0],
             paid |-> {}, executions |-> <<>>, status |-> "none"]
    /\ run = "idle"

Chapter == ckpt.index + 1
Planned(c) == c.schema = 5

-----------------------------------------------------------------------------
(* How a node ends *)

Fails == ckpt' = ckpt /\ run' = "idle"

\* The node of a command of the given mode: its last transaction left store, its
\* update makes the checkpoint new.
Settle(new, store, mode) ==
    \/ ckpt' = new /\ run' = mode /\ db' = store
    \/ Fails /\ db' \in {db, store}

Step(new, store) == Settle(new, store, run)

Update(new) == Step(new, db)

\* The command a node that may have been interrupted goes on with.
Resumers == IF running THEN {run} ELSE {"auto", "manual"}

\* interrupt(): the command ends and a human is asked.
Await == Fails /\ UNCHANGED db

At(node) == running /\ ckpt.next = node

-----------------------------------------------------------------------------
(* Proposals *)

\* A uuid is not the one the tables remember; the one it replaces is forgotten.
FreshId == CHOOSE id \in 1 .. 2 : id # db.accepted.key

Proposal(kind, chapter, window, ready) ==
    [id |-> FreshId, kind |-> kind, chapter |-> chapter,
     window |-> window, ready |-> ready, current |-> TRUE]

Matches(kind, chapter) == ckpt.pending.kind = kind /\ ckpt.pending.chapter = chapter

\* Variant: a proposal stays when it is decided or what it was about is gone.
ClearedNever(c) == c

Cleared(c) == [c EXCEPT !.pending = NoProposal]

\* The checkpoint when another text becomes its draft.
Redrafted(c) ==
    [c EXCEPT !.text = TRUE, !.gate.current = FALSE, !.pending.current = FALSE]

\* What decide_proposal lets a review node go on with: in auto mode the
\* acceptance, unless a human is required, else the decision the command brings.
\* A review that has neither is interrupted.
Decides(decision, forced, mode) ==
    IF running
    THEN auto /\ ~forced /\ decision = "accept"
    ELSE decision = "accept" \/ mode = "manual" \/ forced

AwaitsReview(node, forced) == At(node) /\ (~auto \/ forced) /\ Await

\* The node of a review runs: on with auto mode, or because a command resumes it.
Reviews(node, kind, chapter, decision, forced, mode) ==
    /\ ckpt.next = node
    /\ Matches(kind, chapter)
    /\ mode \in Resumers
    /\ Decides(decision, forced, mode)

-----------------------------------------------------------------------------
(* The tables *)

\* Variant: a known idempotency key is not looked up.
AcceptPlanAgain(key, expected) ==
    IF db.plan = expected
    THEN [ok |-> TRUE, version |-> expected + 1]
    ELSE [ok |-> FALSE, version |-> 0]

\* accept_plan: what the transaction answers ...
AcceptPlan(key, expected) ==
    IF db.accepted.key = key
    THEN [ok |-> TRUE, version |-> db.accepted.version]
    ELSE [ok |-> db.plan = expected, version |-> expected + 1]

\* ... and what it leaves in the tables.
WithPlan(version, key) ==
    IF version <= db.plan THEN db
    ELSE [db EXCEPT !.plan = version, !.status = "accepted",
                    !.accepted = [key |-> key, version |-> version]]

\* Variant: a window may belong to a plan that is not in force any more.
AcceptWindowUnlinked(key, window, expected) ==
    IF db.accepted.key = key THEN [ok |-> TRUE, version |-> db.accepted.version]
    ELSE [ok |-> db.window.version = expected, version |-> expected + 1]

AcceptWindow(key, window, expected) ==
    IF window.plan # db.plan THEN [ok |-> FALSE, version |-> 0]
    ELSE IF db.accepted.key = key THEN [ok |-> TRUE, version |-> db.accepted.version]
    ELSE [ok |-> db.window.version = expected, version |-> expected + 1]

WithWindow(window, key) ==
    IF window.version <= db.window.version THEN db
    ELSE [db EXCEPT !.window = window,
                    !.accepted = [key |-> key, version |-> window.version]]

\* _assert_execution_versions
ExecutionIsCurrent ==
    /\ db.plan = ckpt.plan
    /\ ckpt.window.version # 0 => /\ ckpt.window = db.window
                                  /\ db.window.plan = ckpt.plan

Upto(executions, chapter) ==
    [c \in {d \in DOMAIN executions : d <= chapter} |-> executions[c]]

Without(executions, chapter) ==
    [c \in DOMAIN executions \ {chapter} |-> executions[c]]

WithExecution(about, severity) ==
    [db EXCEPT
        !.executions = [c \in DOMAIN db.executions \cup {ckpt.index} |->
                           IF c = ckpt.index THEN about ELSE db.executions[c]],
        !.status = CASE severity = "none" -> "accepted"
                     [] severity = "minor" -> "needs_reconciliation"
                     [] severity = "major" -> "needs_review"]

-----------------------------------------------------------------------------
(* The plan of the book *)

Mode ==
    CASE ckpt.replan -> "replan"
      [] ~ckpt.replan /\ ckpt.plan > 0 -> "volume_detail"
      [] ~ckpt.replan /\ ckpt.plan = 0 /\ ckpt.index > 0 -> "legacy_upgrade"
      [] OTHER -> "initial"

\* Variant: only the upgrade of a book of an older schema needs the user.
NewGenerationUnforced ==
    [mode |-> Mode, expected |-> ckpt.plan, left |-> 1, restarts |-> 0,
     forced |-> Mode = "legacy_upgrade"]

NewGeneration ==
    [mode |-> Mode, expected |-> ckpt.plan, left |-> 1, restarts |-> 0,
     forced |-> Mode = "legacy_upgrade" \/ ckpt.replan]

PlanInitialize ==
    /\ At("plan")
    /\ IF Matches("novel_plan", 0)
       THEN Update([ckpt EXCEPT !.next = "plan_review"])
       ELSE Update([ckpt EXCEPT !.next = "volume",
                       !.gen = IF @.mode = "none" THEN NewGeneration ELSE @])

\* The next volume of the batch; a batch without one is an IndexError.
PlanVolume ==
    /\ At("volume")
    /\ IF ckpt.gen.left = 0
       THEN Await
       ELSE Update([ckpt EXCEPT !.gen.left = 0, !.next = "finalize"])

\* Variant: the restarts have no end.
MayAlwaysRestart == TRUE

MayRestart == ckpt.gen.restarts < MaxRestarts

\* The batch becomes a proposal, or is made again when its plan is not valid.
PlanFinalize ==
    /\ At("finalize")
    /\ \/ Update([ckpt EXCEPT !.next = "plan_review",
                     !.pending = Proposal("novel_plan", 0, NoWindow, TRUE)])
       \/ /\ MayRestart
          /\ Update([ckpt EXCEPT !.gen.left = 1, !.gen.restarts = @ + 1,
                                 !.next = "volume"])

PlanReview(decision, mode) ==
    LET gen == ckpt.gen
        answer == AcceptPlan(ckpt.pending.id, gen.expected)
    IN  /\ Reviews("plan_review", "novel_plan", 0, decision, gen.forced, mode)
        /\ CASE decision = "accept" /\ answer.ok ->
                  Settle([Cleared(ckpt) EXCEPT
                             !.next = IF gen.mode = "initial" THEN "persist" ELSE "progress",
                             !.plan = answer.version, !.gen = NoGeneration,
                             !.replan = FALSE],
                         WithPlan(answer.version, ckpt.pending.id), mode)
             [] decision = "accept" /\ ~answer.ok ->
                  Fails /\ UNCHANGED db
             [] decision = "regenerate" ->
                  /\ db.plan < MaxPlanVersion
                  /\ Settle([Cleared(ckpt) EXCEPT !.next = "plan", !.gen = NoGeneration], db, mode)

-----------------------------------------------------------------------------
(* The way to the draft *)

\* Variant: the cleanup of a rewind keeps what was retrieved.
RewindCleanupKeepingMemory(c, index) ==
    [c EXCEPT !.text = FALSE, !.checked = FALSE, !.memory = Unset,
              !.outline = NoOutline, !.window = NoWindow, !.expected = 0,
              !.unreconciled = TRUE]

\* What a rewind to index forgets, besides the position.
RewindCleanup(c, index) ==
    [c EXCEPT !.text = FALSE, !.checked = FALSE,
              !.memory = Unset, !.memFor = Unset,
              !.outline = IF @.chapter <= index THEN @ ELSE NoOutline,
              !.window = NoWindow, !.expected = 0,
              !.unreconciled = TRUE]

Continued(c) ==
    [c EXCEPT !.next = "router", !.text = FALSE, !.checked = FALSE,
              !.memory = Unset]

ProgressCheck(mode) ==
    LET c == [(IF db.chapters < ckpt.index
               THEN RewindCleanup(ckpt, db.chapters)
               ELSE ckpt) EXCEPT !.index = db.chapters]
        goesOn == db.chapters = 0 \/ auto
    IN  /\ ckpt.next = "progress"
        /\ mode \in Resumers
        /\ IF db.chapters >= Total
           THEN /\ ckpt' \in {ckpt, [c EXCEPT !.next = "end"]}
                /\ run' = "idle" /\ UNCHANGED db
           ELSE IF ~running \/ goesOn
           THEN Settle(Continued(c), db, mode)
           ELSE Fails /\ UNCHANGED db

WindowActive(c) ==
    /\ c.window.version # 0
    /\ c.window.plan = c.plan
    /\ c.window.start = c.index + 1

OutlineReady(c) ==
    /\ c.outline.chapter = c.index + 1
    /\ Planned(c) => c.outline.plan = c.plan /\ c.outline.window = c.window.version

\* Variant: one reservation does for all chapters.
UnchargedAtAll(c) == Planned(c) /\ c.quotaFor = Unset

\* The chapter's quota is to be reserved before it is planned.
Uncharged(c) == Planned(c) /\ c.quotaFor # c.index

\* The destinations in the order of their precedence, ...
Destinations ==
    <<"plan", "compact", "reflect", "memory", "quota", "tactical", "outline", "write">>

\* ... what calls for each ...
Called(c, node) ==
    \/ node = "plan"     /\ Planned(c) /\ (c.replan \/ c.plan = 0)
    \/ node = "compact"  /\ c.text /\ ~c.checked
    \/ node = "reflect"  /\ c.text
    \/ node = "memory"   /\ c.index > 0 /\ c.memFor # c.index
    \/ node = "quota"    /\ Uncharged(c)
    \/ node = "tactical" /\ Planned(c) /\ ~WindowActive(c)
    \/ node = "outline"  /\ ~OutlineReady(c)
    \/ node = "write"

\* ... and the first that is called for.
Route(c) ==
    LET first == CHOOSE i \in 1 .. 8 :
                    /\ Called(c, Destinations[i])
                    /\ \A j \in 1 .. i - 1 : ~Called(c, Destinations[j])
    IN  Destinations[first]

BetweenChapters == ~ckpt.text /\ (ckpt.index = 0 \/ ckpt.memFor # ckpt.index)

\* The switch of the tenant is read as the router runs; with it, a checkpoint
\* of an older schema that waits for no review is upgraded.
MayUpgrade ==
    /\ ckpt.schema = 4
    /\ ckpt.pending = NoProposal
    /\ MidChapterRestarts \/ BetweenChapters

Router ==
    /\ At("router")
    /\ \/ Update([ckpt EXCEPT !.next = Route(ckpt)])
       \/ /\ MayUpgrade
          /\ LET upgraded == [ckpt EXCEPT !.schema = 5]
             IN  Update([upgraded EXCEPT !.next = Route(upgraded)])

RetrieveMemory ==
    /\ At("memory")
    /\ Update([ckpt EXCEPT !.memory = ckpt.index, !.memFor = ckpt.index,
                           !.next = "router"])

ReserveQuota ==
    /\ At("quota")
    /\ Step([ckpt EXCEPT !.quotaFor = ckpt.index, !.next = "router"],
            [db EXCEPT !.paid = @ \cup {ckpt.index}])

\* An accepted window that is still active is taken up again, unless the story
\* changed under it or the user asked for another.
PlanTactics ==
    LET latest == [ckpt EXCEPT !.window = db.window, !.expected = db.window.version]
        candidate == [version |-> db.window.version + 1, plan |-> ckpt.plan,
                      start |-> Chapter]
    IN  /\ At("tactical")
        /\ Update(
             IF ~ckpt.unreconciled /\ WindowActive(ckpt)
             THEN [ckpt EXCEPT !.next = "outline"]
             ELSE IF ~ckpt.unreconciled /\ ~ckpt.feedback /\ WindowActive(latest)
             THEN [latest EXCEPT !.next = "outline"]
             ELSE [ckpt EXCEPT !.window = candidate, !.expected = db.window.version,
                               !.feedback = FALSE, !.unreconciled = FALSE,
                               !.next = "outline"])

OutlineChapter ==
    LET kind == IF Planned(ckpt) THEN "chapter_plan" ELSE "chapter_outline"
        window == IF Planned(ckpt) THEN ckpt.window ELSE NoWindow
    IN  /\ At("outline")
        /\ Update([ckpt EXCEPT
                !.next = IF Planned(ckpt) THEN "chapter_plan_review" ELSE "outline_review",
                !.pending = IF Matches(kind, Chapter) THEN @
                            ELSE Proposal(kind, Chapter, window, TRUE)])

\* The window becomes a version of the tables, and the outline is bound to it.
ChapterPlanReview(decision, mode) ==
    LET proposed == ckpt.pending.window
        answer == AcceptWindow(ckpt.pending.id, proposed, ckpt.expected)
        window == [proposed EXCEPT !.version = answer.version]
    IN  /\ Reviews("chapter_plan_review", "chapter_plan", Chapter, decision, FALSE, mode)
        /\ CASE decision = "accept" /\ answer.ok ->
                  Settle([Cleared(ckpt) EXCEPT
                             !.next = "router", !.feedback = FALSE,
                             !.window = window, !.expected = window.version,
                             !.outline = [chapter |-> Chapter, plan |-> ckpt.plan,
                                          window |-> window.version]],
                         WithWindow(window, ckpt.pending.id), mode)
             [] decision = "accept" /\ ~answer.ok -> Fails /\ UNCHANGED db
             [] decision = "regenerate_outline" ->
                  Settle([Cleared(ckpt) EXCEPT !.next = "outline"], db, mode)
             [] decision = "regenerate_tactics" ->
                  db.window.version < MaxWindowVersion /\ \E instructed \in BOOLEAN :
                     Settle([Cleared(ckpt) EXCEPT !.next = "tactical",
                                !.window = NoWindow, !.feedback = instructed], db, mode)

OutlineReview(decision, mode) ==
    /\ Reviews("outline_review", "chapter_outline", Chapter, decision, FALSE, mode)
    /\ CASE decision = "accept" ->
              Settle([Cleared(ckpt) EXCEPT !.next = "router",
                         !.outline = [NoOutline EXCEPT !.chapter = Chapter]], db, mode)
         [] decision = "regenerate_outline" ->
              Settle([Cleared(ckpt) EXCEPT !.next = "outline"], db, mode)

-----------------------------------------------------------------------------
(* The draft, its review and its revisions *)

Precharged == Planned(ckpt) /\ ckpt.quotaFor = ckpt.index

Write ==
    /\ At("write")
    /\ Step([Redrafted(ckpt) EXCEPT !.attempts = 0, !.checked = FALSE, !.next = "router"],
            IF Precharged THEN db ELSE [db EXCEPT !.paid = @ \cup {ckpt.index}])

Compact ==
    /\ At("compact")
    /\ Update([Redrafted(ckpt) EXCEPT !.checked = TRUE, !.next = "router"])

Reviewed(passed) == [taken |-> passed, about |-> Chapter, current |-> TRUE]

MayReviseAlone == auto /\ ckpt.attempts < MaxRevisions

Reflect ==
    /\ At("reflect")
    /\ IF Matches("reflection", Chapter)
       THEN Update([ckpt EXCEPT !.next = "reflect_review"])
       ELSE \/ Update([ckpt EXCEPT !.gate = Reviewed(TRUE), !.next = "persist"])
            \/ /\ MayReviseAlone
               /\ Update([ckpt EXCEPT !.gate = Reviewed(FALSE), !.next = "revise"])
            \/ \E ready \in BOOLEAN :
                  Update([ckpt EXCEPT !.next = "reflect_review",
                             !.pending = Proposal("reflection", Chapter, NoWindow, ready)])

\* Variant: the acceptance of a review leaves the gate of the state.
DecidedGateKept(accepted) == ckpt.gate

\* The gate the decision on a review leaves: the one of the proposal, or, when
\* the model gave no review, none but the fact that the user took the draft.
DecidedGate(accepted) ==
    IF ckpt.pending.ready
    THEN [taken |-> accepted, about |-> ckpt.pending.chapter,
          current |-> ckpt.pending.current]
    ELSE IF accepted THEN NoGate ELSE ckpt.gate

ReflectReview(decision, mode) ==
    /\ Reviews("reflect_review", "reflection", Chapter, decision, TRUE, mode)
    /\ CASE decision = "accept" ->
              Settle([Cleared(ckpt) EXCEPT !.next = "persist",
                         !.gate = DecidedGate(TRUE)], db, mode)
         [] decision = "regenerate" -> Settle([Cleared(ckpt) EXCEPT !.next = "write"], db, mode)
         [] decision = "replace" ->
              Settle([Redrafted(Cleared(ckpt)) EXCEPT !.next = "reflect"], db, mode)
         [] decision = "retry" ->
              ~ckpt.pending.ready /\ Settle([Cleared(ckpt) EXCEPT !.next = "reflect"], db, mode)
         [] decision = "revise" ->
              Settle([Cleared(ckpt) EXCEPT !.next = "revise",
                         !.gate = DecidedGate(FALSE)], db, mode)

Revise ==
    /\ At("revise")
    /\ Update([ckpt EXCEPT !.next = "revise_review",
                  !.pending = IF Matches("revision", Chapter) THEN @
                              ELSE Proposal("revision", Chapter, NoWindow, TRUE)])

\* Variant: the revisions are not counted.
CountedNever(c) == c

Counted(c) == [c EXCEPT !.attempts = IF @ < MaxRevisions THEN @ + 1 ELSE @]

\* In auto mode the revised draft is reviewed again; the user who accepts it
\* ends the review.
ReviseReview(decision, mode) ==
    /\ Reviews("revise_review", "revision", Chapter, decision, FALSE, mode)
    /\ LET revised == Counted(Redrafted(Cleared(ckpt)))
       IN  CASE decision \in {"accept", "replace"} /\ mode = "auto" ->
                  Settle([revised EXCEPT !.next = "reflect"], db, mode)
             [] decision \in {"accept", "replace"} /\ mode = "manual" ->
                  Settle([revised EXCEPT !.next = "persist",
                             !.gate.taken = FALSE], db, mode)
             [] decision = "regenerate" -> Settle([Cleared(ckpt) EXCEPT !.next = "revise"], db, mode)
             [] decision = "revise" ->
                  Settle([Redrafted(Cleared(ckpt)) EXCEPT !.next = "revise"], db, mode)

-----------------------------------------------------------------------------
(* The chapter is kept and held against the plan *)

PersistSetup ==
    /\ At("persist")
    /\ ~ckpt.text
    /\ Update([ckpt EXCEPT !.next = "progress"])

PersistChapter ==
    /\ At("persist")
    /\ ckpt.text
    /\ Step([ckpt EXCEPT !.index = @ + 1, !.text = FALSE, !.memory = Unset,
                         !.next = IF Planned(ckpt) THEN "reconcile" ELSE "progress"],
            [db EXCEPT !.chapters = Chapter,
                       !.executions = Without(@, Chapter),
                       !.status = IF ckpt.plan > 0 THEN "accepted" ELSE @])

\* Variant: the fulfilment an earlier reconciliation left comes first.
FulfilmentKept == Nobody

\* The chapter whose review says what was fulfilled.  A gate without a review
\* leaves what an earlier reconciliation kept in the state, if anything.
Fulfilment == ckpt.gate.about

\* A slot beyond the lock window takes the deferred events.
MayReschedule == ckpt.index + LockWindow < Total

ManualDrift == [mode |-> "replan", expected |-> ckpt.plan, left |-> 0,
                restarts |-> 0, forced |-> TRUE]

Reconcile ==
    LET kept(severity) == WithExecution(Fulfilment, severity)
        bumped == [kept("minor") EXCEPT !.plan = @ + 1, !.status = "accepted"]
    IN  /\ At("reconcile")
        /\ \/ ckpt.plan = 0 /\ Update([ckpt EXCEPT !.next = "plan"])
           \/ ckpt.plan > 0 /\ ~ExecutionIsCurrent /\ Await
           \/ /\ ckpt.plan > 0 /\ ExecutionIsCurrent
              /\ \/ \E severity \in {"none", "minor"} :
                       Step([ckpt EXCEPT !.next = "progress"], kept(severity))
                 \/ /\ ckpt.plan < MaxPlanVersion
                    /\ \/ Step([ckpt EXCEPT !.replan = TRUE, !.next = "plan"], kept("major"))
                       \/ /\ MayReschedule /\ auto
                          /\ Step([ckpt EXCEPT !.plan = @ + 1, !.next = "progress"], bumped)
                       \/ /\ MayReschedule /\ ~auto
                          /\ Step([ckpt EXCEPT !.gen = ManualDrift, !.next = "plan_review",
                                      !.pending = Proposal("novel_plan", 0, NoWindow, TRUE)],
                                  kept("minor"))

-----------------------------------------------------------------------------
(* The commands and the changes of the chapters, between the runs *)

\* Variant: a start leaves the plan of the checkpoint.
SeededUnplanned(c, schema) ==
    [c EXCEPT !.schema = schema, !.index = db.chapters,
              !.unreconciled = db.status \in {"needs_reconciliation", "needs_review"}]

\* What the tables put over the checkpoint when a run starts anew.
Seeded(c, schema) ==
    [c EXCEPT !.schema = schema, !.index = db.chapters,
              !.unreconciled = db.status \in {"needs_reconciliation", "needs_review"},
              !.plan = IF db.plan > 0 THEN db.plan ELSE @,
              !.replan = @ \/ (schema = 5 /\ db.plan > 0 /\ db.status = "needs_review")]

\* The creation of a book that has its outline leads to the plan or to the loop.
ReuseOutline(c) ==
    [c EXCEPT !.next = IF Planned(c) /\ (c.plan = 0 \/ c.replan) THEN "plan" ELSE "persist"]

Starts(c) == ckpt' = ReuseOutline(c) /\ run' \in {"auto", "manual"} /\ UNCHANGED db

MayStart == ~running /\ (MidChapterRestarts \/ BetweenChapters)

Start ==
    /\ MayStart
    /\ db.chapters < Total
    /\ \E schema \in ckpt.schema .. 5 : Starts(Seeded(ckpt, schema))

Replan ==
    /\ MayStart
    /\ db.plan \in 1 .. MaxPlanVersion - 1
    /\ Starts([Seeded(ckpt, 5) EXCEPT !.replan = TRUE])

\* The failed node again, or where the draft in hand belongs.
Retry ==
    /\ ~running
    /\ ckpt.next \notin {"start", "end"}
    /\ \E next \in {ckpt.next} \cup (IF ckpt.text THEN {Route(ckpt)} ELSE {}) :
          ckpt' = [ckpt EXCEPT !.next = next]
    /\ run' \in {"auto", "manual"}
    /\ UNCHANGED db

Rewound(index) ==
    [Cleared(RewindCleanup(ckpt, index)) EXCEPT
        !.index = index, !.attempts = 0,
        !.next = IF index >= Total THEN "end" ELSE "router"]

MayChange == ~running /\ ckpt.next # "start" /\ db.window.version < MaxWindowVersion

NeedsReconciliation(store) ==
    [store EXCEPT !.status = IF db.plan > 0 THEN "needs_reconciliation" ELSE @]

DeleteFrom(index) ==
    /\ MayChange
    /\ index < db.chapters
    /\ db' = NeedsReconciliation(
                [db EXCEPT !.chapters = index, !.executions = Upto(@, index)])
    /\ ckpt' = Rewound(index)
    /\ UNCHANGED run

Edit(chapter) ==
    /\ MayChange
    /\ chapter <= db.chapters
    /\ db' = NeedsReconciliation([db EXCEPT !.executions = Without(@, chapter)])
    /\ ckpt' = Rewound(db.chapters)
    /\ UNCHANGED run

-----------------------------------------------------------------------------
(* The specification *)

Graph ==
    \/ PlanInitialize \/ PlanVolume \/ PlanFinalize
    \/ Router \/ RetrieveMemory \/ ReserveQuota \/ PlanTactics \/ OutlineChapter
    \/ Write \/ Compact \/ Reflect \/ Revise
    \/ PersistSetup \/ PersistChapter \/ Reconcile
    \/ AwaitsReview("plan_review", ckpt.gen.forced)
    \/ \E node \in {"chapter_plan_review", "outline_review", "revise_review"} :
          AwaitsReview(node, FALSE)
    \/ AwaitsReview("reflect_review", TRUE)
    \/ \E mode \in {"auto", "manual"} :
          \/ ProgressCheck(mode)
          \/ \E decision \in {"accept", "regenerate"} : PlanReview(decision, mode)
          \/ \E decision \in {"accept", "regenerate_outline", "regenerate_tactics"} :
                ChapterPlanReview(decision, mode)
          \/ \E decision \in {"accept", "regenerate_outline"} :
                OutlineReview(decision, mode)
          \/ \E decision \in {"accept", "regenerate", "replace", "retry", "revise"} :
                ReflectReview(decision, mode)
          \/ \E decision \in {"accept", "regenerate", "replace", "revise"} :
                ReviseReview(decision, mode)

Commands == Start \/ Replan \/ Retry

Changes ==
    \/ \E index \in 0 .. Total - 1 : DeleteFrom(index)
    \/ \E chapter \in 1 .. Total : Edit(chapter)

Next == Graph \/ Commands \/ Changes

Spec == Init /\ [][Next]_vars

\* The event loop lets a run take its steps; nothing is assumed of its users.
FairSpec == Spec /\ WF_vars(running /\ Graph)

-----------------------------------------------------------------------------
(* What the loop promises *)

\* What goes into the tables as reviewed was reviewed: when persist_node is about
\* to run on a draft whose gate says that it passed or that the user took it,
\* that gate was made by the review of this chapter and of this very text.
ReviewIsOfTheDraft ==
    /\ ckpt.next = "persist"
    /\ ckpt.text
    /\ ckpt.gate.taken
    => ckpt.gate.about = Chapter /\ ckpt.gate.current

\* No decision is taken on a proposal that was made for something else: the review
\* that is next always finds its own proposal, of the chapter the loop is at, and
\* a review of a text finds the text it is about, whatever was deleted, edited,
\* regenerated or retried since the proposal was made.
DecidedOnTheDraftInHand ==
    LET decidedOn(kind, chapter) == Matches(kind, chapter) /\ ckpt.pending.current
    IN  CASE ckpt.next = "plan_review" -> decidedOn("novel_plan", 0)
          [] ckpt.next = "chapter_plan_review" -> decidedOn("chapter_plan", Chapter)
          [] ckpt.next = "outline_review" -> decidedOn("chapter_outline", Chapter)
          [] ckpt.next = "reflect_review" -> decidedOn("reflection", Chapter)
          [] ckpt.next = "revise_review" -> decidedOn("revision", Chapter)
          [] OTHER -> TRUE

\* A chapter is written and judged with the memory of what came before it: after
\* the first chapter, the nodes that write, review and revise never run without
\* the memory that was retrieved for this position of the book.
Informed ==
    /\ ckpt.next \in {"tactical", "outline", "write", "reflect", "revise"}
    /\ ckpt.index > 0
    => ckpt.memory = ckpt.index

\* A chapter of a planned book is written to a plan somebody accepted: the outline
\* the writer is given belongs to the chapter and is bound to the plan and to the
\* tactical window that are the latest of the tables, also after deletions,
\* replans and acceptances whose checkpoint was lost.
WrittenToAcceptedPlan ==
    /\ ckpt.next = "write"
    /\ Planned(ckpt)
    => ckpt.outline = [chapter |-> Chapter, plan |-> db.plan,
                       window |-> db.window.version]

\* A chapter is paid for before the planning model is asked about it, and there is
\* no draft nobody paid for, although the node that reserves the quota is skipped
\* when the checkpoint remembers a reservation.
PaidBeforehand ==
    \/ ckpt.text
    \/ ckpt.next \in {"tactical", "chapter_plan_review"}
    => ckpt.index \in db.paid

\* The execution row of a chapter that was reviewed quotes the review of that
\* chapter, never the one the checkpoint remembers of the chapter before.
FulfilmentIsOfTheChapter ==
    [][ckpt.gate.taken =>
          \A c \in DOMAIN db'.executions \ DOMAIN db.executions :
             db'.executions[c] = c]_vars

\* Auto mode never replaces the structure of a book by itself: while no user
\* decides, the only plans that become a version are the first one of a new book,
\* the details of a volume of the plan that is in force, and the shift of deferred
\* events after a minor drift.
NoSilentReplan ==
    [][running /\ db'.plan # db.plan =>
          \/ ckpt.gen.mode \in {"initial", "volume_detail"}
          \/ ckpt.next = "reconcile"]_vars

\* A repeated acceptance is one acceptance: a plan that was accepted and whose
\* checkpoint was lost can be accepted again, by a retry, without a conflict with
\* itself, and never becomes a second version.
AcceptedOnce ==
    ckpt.next = "plan_review" /\ ckpt.pending.id = db.accepted.key
    => LET again == AcceptPlan(ckpt.pending.id, ckpt.gen.expected)
       IN  again.ok /\ again.version = db.plan

\* Every run ends: it completes the book, waits for the user or fails, in auto
\* mode too, where a draft may be revised and reviewed again.
RunsSettle == running ~> ~running

\* A batch of volumes that was started can be resumed: when the volume node is
\* next, the batch has a volume to make.
BatchIsResumable == ckpt.next = "volume" => ckpt.gen.left > 0
=============================================================================
