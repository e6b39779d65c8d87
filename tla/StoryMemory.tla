----------------------------- MODULE StoryMemory -----------------------------
(***************************************************************************)
(* What the tables keep of a chapter beside its text, and what a chapter   *)
(* is written from: the memories (novel_memories) and the executions of    *)
(* the plan, by the transactions of the repository that store, edit,       *)
(* rewrite and delete chapters, and the context that                       *)
(* memory_retrieval_node reads for the next chapter and the checkpoint     *)
(* keeps meanwhile.                                                        *)
(*                                                                         *)
(* A text is known by the transaction that stored it.  A memory of the     *)
(* kinds "chapter" and "chapter_summary" is of one text; a "story_state"   *)
(* is merged from the one before it and a text, so it is of several.  The  *)
(* "rolling_plan", which older outlines have, is deleted with the state    *)
(* and left out here.                                                      *)
(*                                                                         *)
(* The execution gate keeps the generation and the operations apart        *)
(* (ExecutionGate), and CheckpointSync has the steps of a reconciliation   *)
(* and the progress, which counts the chapters.                            *)
(***************************************************************************)
EXTENDS Naturals, FiniteSets

CONSTANTS
    Total,              \* chapters of the book
    Recent,             \* chapters a context has whole (3 in the code)
    Editors,            \* windows in which a user edits chapters
    None,               \* no chapter, no execution, no rewrite, nothing loaded
    MidChapterRewrites, \* TRUE: a chapter may be rewritten while the next one
                        \* waits for a review or its reconciliation
    MaxTexts            \* bound: texts stored

ASSUME StoryAssumption ==
    /\ Total \in Nat \ {0}
    /\ Recent \in Nat
    /\ None \notin Nat
    /\ MidChapterRewrites \in BOOLEAN
    /\ MaxTexts \in Nat

Indexes == 0 .. Total - 1
Texts == 1 .. MaxTexts
Chapters == [id : Texts, version : Nat \ {0}, text : Texts]
Kinds == {"chapter", "chapter_summary", "story_state"}
Memories == [kind : Kinds, index : Indexes, of : SUBSET Texts]
Nodes == {"progress", "router", "persist", "reconcile", "end"}

ASSUME NoneAssumption == None \notin Chapters /\ None \notin [index : Indexes, was : Chapters]

VARIABLES
    chapters,   \* the rows of chapters
    memories,   \* the rows of novel_memories
    executions, \* the text that the execution of every chapter judges
    sync,       \* whether a checkpoint_sync request is pending
    ckpt,       \* the checkpoint: chapter, next node, whether there is a draft,
                \* memory_context, whether it counts as retrieved for the
                \* chapter, last_persisted_chapter
    gen,        \* whether a generation is running
    op,         \* the chapter whose rewrite is not finished
    seen,       \* the chapter that every window has loaded
    stored,     \* texts stored so far
    restarted   \* history: whether a fresh input or a replan has come since the
                \* context was read

dbVars == <<chapters, memories, executions>>
vars == <<dbVars, sync, ckpt, gen, op, seen, stored, restarted>>

TypeOK ==
    /\ chapters \in [Indexes -> Chapters \cup {None}]
    /\ memories \in SUBSET Memories
    /\ executions \in [Indexes -> Texts \cup {None}]
    /\ sync \in BOOLEAN
    /\ ckpt \in [index : 0 .. Total, next : Nodes, draft : BOOLEAN, retrieved : BOOLEAN,
                 context : SUBSET Memories, last : 0 .. MaxTexts]
    /\ gen \in BOOLEAN
    /\ op \in Indexes \cup {None}
    /\ seen \in [Editors -> [index : Indexes, was : Chapters] \cup {None}]
    /\ stored \in 0 .. MaxTexts
    /\ restarted \in BOOLEAN

Written == {i \in Indexes : chapters[i] # None}

\* progress.current_chapter
Current == Cardinality(Written)

GateFree == ~gen /\ op = None

Init ==
    /\ chapters = [i \in Indexes |-> None]
    /\ memories = {}
    /\ executions = [i \in Indexes |-> None]
    /\ sync = FALSE
    /\ ckpt = [index |-> 0, next |-> "progress", draft |-> FALSE, retrieved |-> FALSE,
               context |-> {}, last |-> 0]
    /\ gen = FALSE
    /\ op = None
    /\ seen = [e \in Editors |-> None]
    /\ stored = 0
    /\ restarted = FALSE

-----------------------------------------------------------------------------
(* The rows. *)

Row(kind, i, texts) == [kind |-> kind, index |-> i, of |-> texts]

States == {m \in memories : m.kind = "story_state"}
Plain(rows) == {m \in rows : m.kind # "story_state"}

\* build_chapter_memory, and the summary
MemoriesOf(i, text) == {Row("chapter", i, {text}), Row("chapter_summary", i, {text})}

\* _delete_chapter_memories: of a chapter, or of all from it on
ChapterMemories(i) == {m \in Plain(memories) : m.index = i}
ChapterMemoriesFrom(i) == {m \in Plain(memories) : m.index >= i}

\* _latest_layer; whoever adds a state deletes the one there is.
LatestState(i) == {m \in States : m.index < i}

RecentChapters(i) ==
    {m \in memories : m.kind = "chapter" /\ m.index < i /\ i <= m.index + Recent}

HistoricalSummaries(i) ==
    {m \in memories : m.kind = "chapter_summary" /\ m.index + Recent < i}

\* get_hierarchical_context
Context(i) == LatestState(i) \cup RecentChapters(i) \cup HistoricalSummaries(i)

\* extract_story_state: what the model merges with the new chapter
PreviousTexts(context) == UNION {m.of : m \in {n \in context : n.kind = "story_state"}}

StateAfter(context, i, text) == Row("story_state", i, {text} \cup PreviousTexts(context))

\* _add_continuity_memories
Continuity(context, i, text) == MemoriesOf(i, text) \cup {StateAfter(context, i, text)}

\* Variant: the memories of the chapter it replaces are kept.
ReplacedStateOnly(i) == States

\* _delete_replaced_data, which deletes the chapter and its execution, too
Replaced(i) == ChapterMemories(i) \cup States

ReplaceChapter(i, chapter, context) ==
    /\ stored < MaxTexts
    /\ stored' = stored + 1
    /\ chapters' = [chapters EXCEPT ![i] = chapter]
    /\ memories' = (memories \ Replaced(i)) \cup Continuity(context, i, stored')
    /\ executions' = [executions EXCEPT ![i] = None]

-----------------------------------------------------------------------------
(* The generation. *)

\* Variant: progress_check_node goes on after the last chapter.
NextChapterAlways(i) == "router"

NextChapter(i) == IF i = Total THEN "end" ELSE "router"

\* Variant: memory_retrieved_for_chapter is not reset.
RewoundAsRetrieved(i) ==
    [ckpt EXCEPT !.index = i, !.next = NextChapter(i), !.draft = FALSE,
                 !.retrieved = @ /\ i = ckpt.index, !.context = {}]

\* _rewind_state_update, with the route it leaves.
Rewound(i) ==
    [ckpt EXCEPT !.index = i, !.next = NextChapter(i), !.draft = FALSE,
                 !.retrieved = FALSE, !.context = {}]

\* By whoever holds the gate next, or by a poll.
Reconcile ==
    /\ sync
    /\ GateFree
    /\ ckpt' = Rewound(Current)
    /\ sync' = FALSE
    /\ UNCHANGED <<dbVars, gen, op, seen, stored, restarted>>

\* memory_retrieved_for_chapter names one chapter.
Placed(i) == [ckpt EXCEPT !.index = i, !.retrieved = @ /\ i = ckpt.index]

BetweenChapters == ~ckpt.draft /\ ~ckpt.retrieved

\* A fresh input, or a replan, which may come while a chapter is under way: the
\* position of the tables is put over the checkpoint, whose draft and context
\* stay.  The graph is entered at its first node and comes, by the outline it
\* reuses, to persist_node or, by the plan, to the check of the progress;
\* persist_node stores any draft it finds.
Restart ==
    /\ ~sync
    /\ GateFree
    /\ \E next \in {"progress"} \cup (IF ckpt.draft /\ Current < Total THEN {"persist"} ELSE {}) :
          ckpt' = [Placed(Current) EXCEPT !.next = next]
    /\ gen' = TRUE
    /\ restarted' = TRUE
    /\ UNCHANGED <<dbVars, sync, op, seen, stored>>

\* A resume or a retry: where the checkpoint stopped, or, by a retry, where its
\* draft belongs.
Start ==
    /\ ~sync
    /\ GateFree
    /\ ckpt.next # "end"
    /\ \E next \in {ckpt.next} \cup
                     (IF ckpt.draft /\ ckpt.index < Total THEN {"persist"} ELSE {}) :
          ckpt' = [ckpt EXCEPT !.next = next]
    /\ gen' = TRUE
    /\ UNCHANGED <<dbVars, sync, op, seen, stored, restarted>>

\* At a review, a failure, a cancel, a crash or the end.
Stop ==
    /\ gen
    /\ gen' = FALSE
    /\ UNCHANGED <<dbVars, sync, ckpt, op, seen, stored, restarted>>

\* progress_check_node: it goes on without the draft and the context, but the
\* context still counts as retrieved for the chapter it was retrieved for.
CheckProgress ==
    /\ gen
    /\ ckpt.next = "progress"
    /\ ckpt' = IF Current < ckpt.index THEN Rewound(Current)
               ELSE IF Current = Total THEN [Placed(Total) EXCEPT !.next = "end"]
               ELSE [Placed(Current) EXCEPT !.next = "router", !.draft = FALSE, !.context = {}]
    /\ UNCHANGED <<dbVars, sync, gen, op, seen, stored, restarted>>

\* memory_retrieval_node, once for a chapter; before the first there is nothing.
Retrieve ==
    /\ gen
    /\ ckpt.next = "router"
    /\ ~ckpt.retrieved
    /\ ckpt' = [ckpt EXCEPT !.retrieved = TRUE, !.context = Context(ckpt.index)]
    /\ restarted' = FALSE
    /\ UNCHANGED <<dbVars, sync, gen, op, seen, stored>>

\* From the quota to the last review.
WriteChapter ==
    /\ gen
    /\ ckpt.next = "router"
    /\ ckpt.retrieved
    /\ ckpt' = [ckpt EXCEPT !.next = "persist", !.draft = TRUE]
    /\ UNCHANGED <<dbVars, sync, gen, op, seen, stored, restarted>>

Fresh == [id |-> stored + 1, version |-> 1, text |-> stored + 1]

\* persist_node: its checkpoint comes after the transaction, or never.
Persist ==
    /\ gen
    /\ ckpt.next = "persist"
    /\ ReplaceChapter(ckpt.index, Fresh, ckpt.context)
    /\ \/ /\ ckpt' = [index |-> ckpt.index + 1, next |-> "reconcile", draft |-> FALSE,
                      retrieved |-> FALSE, context |-> {}, last |-> stored']
          /\ gen' = gen
       \/ /\ ckpt' = ckpt
          /\ gen' = FALSE
    /\ UNCHANGED <<sync, op, seen, restarted>>

\* plan_reconciliation_node
ReconcilePlan ==
    /\ gen
    /\ ckpt.next = "reconcile"
    /\ executions' = [executions EXCEPT ![ckpt.index - 1] = ckpt.last]
    /\ \/ /\ ckpt' = [ckpt EXCEPT !.next = "progress"]
          /\ gen' = gen
       \/ /\ ckpt' = ckpt
          /\ gen' = FALSE
    /\ UNCHANGED <<chapters, memories, sync, op, seen, stored, restarted>>

-----------------------------------------------------------------------------
(* The operations on chapters. *)

\* GET of a chapter, at any time.
Load(e) ==
    /\ \E i \in Written : seen' = [seen EXCEPT ![e] = [index |-> i, was |-> chapters[i]]]
    /\ UNCHANGED <<dbVars, sync, ckpt, gen, op, stored, restarted>>

\* find_chapter_by_id and the version in the WHERE of _update_chapter_row;
\* otherwise the answer is 404 or 409 and nothing changes.
MayEdit(e) ==
    /\ seen[e] # None
    /\ chapters[seen[e].index] # None
    /\ chapters[seen[e].index].id = seen[e].was.id
    /\ chapters[seen[e].index].version = seen[e].was.version

\* _update_chapter_row
EditedRow(chapter) ==
    [id |-> chapter.id, version |-> chapter.version + 1, text |-> stored + 1]

\* Variant: the story state is kept.
EditedMemoriesAndState(i) == (memories \ ChapterMemories(i)) \cup MemoriesOf(i, stored + 1)

\* _replace_edited_memories
EditedMemories(i) ==
    (memories \ (ChapterMemories(i) \cup States)) \cup MemoriesOf(i, stored + 1)

\* Variant: the execution of the chapter is kept.
EditKeepingExecution(e) ==
    LET i == seen[e].index IN
    /\ GateFree
    /\ MayEdit(e)
    /\ stored < MaxTexts
    /\ stored' = stored + 1
    /\ chapters' = [chapters EXCEPT ![i] = EditedRow(@)]
    /\ memories' = EditedMemories(i)
    /\ sync' = TRUE
    /\ seen' = [seen EXCEPT ![e].was = EditedRow(chapters[i])]
    /\ UNCHANGED <<executions, ckpt, gen, op, restarted>>

\* update_chapter_consistently; the answer has the chapter as it is now.
Edit(e) ==
    LET i == seen[e].index IN
    /\ GateFree
    /\ MayEdit(e)
    /\ stored < MaxTexts
    /\ stored' = stored + 1
    /\ chapters' = [chapters EXCEPT ![i] = EditedRow(@)]
    /\ memories' = EditedMemories(i)
    /\ executions' = [executions EXCEPT ![i] = None]
    /\ sync' = TRUE
    /\ seen' = [seen EXCEPT ![e].was = EditedRow(chapters[i])]
    /\ UNCHANGED <<ckpt, gen, op, restarted>>

\* _delete_chapters_from, which deletes the chapters and executions, too
DeletedFrom(k) == ChapterMemoriesFrom(k) \cup States

\* rewind_chapters_atomically, from the earliest chapter selected.
Delete(k) ==
    /\ GateFree
    /\ chapters[k] # None
    /\ chapters' = [i \in Indexes |-> IF i >= k THEN None ELSE chapters[i]]
    /\ memories' = memories \ DeletedFrom(k)
    /\ executions' = [i \in Indexes |-> IF i >= k THEN None ELSE executions[i]]
    /\ sync' = TRUE
    /\ UNCHANGED <<ckpt, gen, op, seen, stored, restarted>>

MayRewrite ==
    /\ GateFree
    /\ MidChapterRewrites \/ (BetweenChapters /\ ckpt.next # "reconcile")

\* Variant: the version of the chapter stays what it was.
RewrittenInPlace(chapter) == [chapter EXCEPT !.text = stored + 1]

\* _completed_chapter of a rewrite: the id is kept.
Rewritten(chapter) ==
    [id |-> chapter.id, version |-> chapter.version + 1, text |-> stored + 1]

\* The chapter is generated from the memories before it and stored; what it
\* reads, it reads under the gate.  No request is left.
Rewrite(k) ==
    /\ MayRewrite
    /\ chapters[k] # None
    /\ ReplaceChapter(k, Rewritten(chapters[k]), Context(k))
    /\ op' = k
    /\ UNCHANGED <<sync, ckpt, gen, seen, restarted>>

\* plan_reconciliation_node of the rewrite; it may fail, and so may what
\* follows it.
FinishRewrite ==
    /\ op # None
    /\ executions' \in {executions, [executions EXCEPT ![op] = chapters[op].text]}
    /\ op' = None
    /\ UNCHANGED <<chapters, memories, sync, ckpt, gen, seen, stored, restarted>>

Next ==
    \/ Reconcile \/ Restart \/ Start \/ Stop
    \/ CheckProgress \/ Retrieve \/ WriteChapter \/ Persist \/ ReconcilePlan
    \/ \E e \in Editors : Load(e) \/ Edit(e)
    \/ \E k \in Indexes : Delete(k) \/ Rewrite(k)
    \/ FinishRewrite

Spec == Init /\ [][Next]_vars

-----------------------------------------------------------------------------
(* Properties *)

CurrentTexts == {chapters[i].text : i \in Written}

\* However chapters are stored, stored again after a crash, edited, rewritten
\* and deleted: every chapter has exactly one memory and one summary, those of
\* the text it has, and no chapter that is gone has any.
MemoriesFollowTheText ==
    Plain(memories) = UNION {MemoriesOf(i, chapters[i].text) : i \in Written}

\* The story state is merged, from chapter to chapter, over many transactions;
\* nothing it was ever merged from is a text that an edit, a rewrite or a
\* deletion has replaced.
StateIsOfTheBook == \A m \in States : m.of \subseteq CurrentTexts

\* An execution judges the text its chapter has: a reconciliation that comes
\* late, from the checkpoint or from a rewrite, judges no text that was
\* replaced meanwhile.
ExecutionsFollowTheText ==
    \A i \in Indexes : executions[i] # None =>
        chapters[i] # None /\ executions[i] = chapters[i].text

\* What a chapter is written from was read before the reviews, at which the book
\* may have changed, and may even be kept over a restart, when the draft is
\* stored as the next chapter: nothing in it is of a replaced text.  And nothing
\* is missing in it: when the chapter is stored, its context has the chapters and
\* summaries before it as they are.  What breaks the latter, and nothing else
\* does, is a fresh input or a replan while the chapter is under way:
\* CheckProgress drops the context, which counts as retrieved, and the chapter is
\* written without any.
ContextIsCurrent ==
    [][gen /\ chapters' # chapters =>
         /\ \A m \in ckpt.context : m.of \subseteq CurrentTexts
         /\ ~restarted => Plain(ckpt.context) = Plain(Context(ckpt.index))]_vars

\* A user who saves an edit replaces the text that was loaded into the window,
\* never one of another window, of a rewrite or of a new generation.
EditsReplaceWhatTheyRead ==
    [][\A e \in Editors :
         seen[e] # None /\ seen'[e] # seen[e] /\ chapters' # chapters =>
             chapters[seen[e].index] = seen[e].was]_vars

=============================================================================
