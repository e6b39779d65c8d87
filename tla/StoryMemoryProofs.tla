-------------------------- MODULE StoryMemoryProofs --------------------------
(***************************************************************************)
(* Theorems about StoryMemory, for a book of any length, any number of     *)
(* windows and any number of texts.  What is said of contexts, states and  *)
(* executions assumes that no chapter is rewritten while the next one is   *)
(* under way; the memories and the edits do not need it.                   *)
(***************************************************************************)
EXTENDS StoryMemory, FiniteSetTheorems, TLAPS

-----------------------------------------------------------------------------
(* Types, and who may be where. *)

Promised ==
    /\ ckpt.next \in {"router", "persist"} => ckpt.index \in Indexes
    /\ ckpt.next = "reconcile" => ckpt.index # 0 /\ ckpt.last # 0
    /\ ckpt.next = "persist" => ckpt.draft
    /\ gen => ~sync /\ op = None
    /\ op # None => chapters[op] # None

Typed == TypeOK /\ Promised

\* The progress is a position of the book.
LEMMA CurrentIsAPosition == Current \in 0 .. Total
<1>1. IsFiniteSet(Indexes) /\ Cardinality(Indexes) = Total
  <2>1. IsFiniteSet(0 .. Total - 1)
        /\ Cardinality(0 .. Total - 1) = IF 0 > Total - 1 THEN 0 ELSE (Total - 1) - 0 + 1
    BY FS_Interval, StoryAssumption
  <2>2. QED BY <2>1, StoryAssumption DEF Indexes
<1>2. Written \subseteq Indexes
  BY DEF Written
<1>3. IsFiniteSet(Written) /\ Cardinality(Written) <= Total
  BY <1>1, <1>2, FS_Subset
<1>4. Cardinality(Written) \in Nat
  BY <1>3, FS_CardinalityType
<1>5. QED BY <1>3, <1>4, StoryAssumption DEF Current

Checkpoints ==
    [index : 0 .. Total, next : Nodes, draft : BOOLEAN, retrieved : BOOLEAN,
     context : SUBSET Memories, last : 0 .. MaxTexts]

\* A checkpoint that has not retrieved anything is well typed.
LEMMA EmptyCheckpoint ==
    ASSUME NEW i \in 0 .. Total, NEW n \in Nodes, NEW t \in 0 .. MaxTexts
    PROVE  [index |-> i, next |-> n, draft |-> FALSE, retrieved |-> FALSE,
            context |-> {}, last |-> t] \in Checkpoints
<1>1. {} \in SUBSET Memories /\ FALSE \in BOOLEAN
  OBVIOUS
<1>2. QED BY <1>1, Zenon DEF Checkpoints

\* The rows of a chapter that an edit or a rewrite leaves.
LEMMA NewVersions ==
    ASSUME NEW chapter \in Chapters, stored + 1 \in Texts
    PROVE  EditedRow(chapter) \in Chapters /\ Rewritten(chapter) \in Chapters
BY DEF EditedRow, Rewritten, Chapters

\* The rows a chapter is given are rows.
LEMMA RowsAreTyped ==
    ASSUME NEW i \in Indexes, NEW t \in Texts
    PROVE  MemoriesOf(i, t) \subseteq Memories
BY DEF MemoriesOf, Row, Memories, Kinds

\* So is the story state after it.
LEMMA StateIsTyped ==
    ASSUME NEW i \in Indexes, NEW t \in Texts, NEW context \in SUBSET Memories
    PROVE  StateAfter(context, i, t) \in Memories
<1>1. PreviousTexts(context) \subseteq Texts
  BY DEF PreviousTexts, Memories
<1>2. QED BY <1>1 DEF StateAfter, Row, Memories, Kinds

LEMMA ContextIsTyped ==
    ASSUME TypeOK, NEW i
    PROVE  Context(i) \in SUBSET Memories
BY DEF TypeOK, Context, LatestState, RecentChapters, HistoricalSummaries, States

\* The types of what replace_chapter leaves.
LEMMA ReplaceIsTyped ==
    ASSUME TypeOK, NEW i \in Indexes, NEW chapter, NEW context \in SUBSET Memories,
           ReplaceChapter(i, chapter, context),
           chapter \in Chapters
    PROVE  /\ chapters' \in [Indexes -> Chapters \cup {None}]
           /\ memories' \in SUBSET Memories
           /\ executions' \in [Indexes -> Texts \cup {None}]
           /\ stored' \in 0 .. MaxTexts
           /\ stored' \in Texts
<1>1. stored' \in 0 .. MaxTexts /\ stored' \in Texts
  BY StoryAssumption DEF TypeOK, ReplaceChapter, Texts
<1>2. Continuity(context, i, stored') \subseteq Memories
  BY <1>1, RowsAreTyped, StateIsTyped DEF Continuity
<1>3. memories' \in SUBSET Memories
  BY <1>2 DEF TypeOK, ReplaceChapter
<1>4. QED BY <1>1, <1>3 DEF TypeOK, ReplaceChapter

\* What a rewind to the position of the book leaves.
LEMMA RewindIsTyped ==
    ASSUME Typed
    PROVE  /\ Rewound(Current) \in Checkpoints
           /\ Rewound(Current).index = Current
           /\ Rewound(Current).next = "router" => Current \in Indexes
           /\ Rewound(Current).next \in {"router", "end"}
           /\ Rewound(Current).context = {}
           /\ ~Rewound(Current).draft /\ ~Rewound(Current).retrieved
<1>1. NextChapter(Current) = "router" => Current \in Indexes
  BY CurrentIsAPosition, StoryAssumption DEF NextChapter, Indexes
<1>2. NextChapter(Current) \in {"router", "end"} /\ NextChapter(Current) \in Nodes
  BY DEF NextChapter, Nodes
<1>3. {} \in SUBSET Memories /\ ckpt \in Checkpoints
  BY DEF Typed, TypeOK, Checkpoints
<1>4. Rewound(Current) \in Checkpoints
  BY <1>2, <1>3, CurrentIsAPosition DEF Rewound, Checkpoints
<1>5. QED BY <1>1, <1>2, <1>3, <1>4 DEF Rewound, Checkpoints

LEMMA TypedStep == ASSUME Typed, [Next]_vars PROVE Typed'
<1>. USE StoryAssumption, NoneAssumption DEF Typed
<1>1. CASE Reconcile
  <2>1. ckpt' = Rewound(Current)
    BY <1>1 DEF Reconcile
  <2>2. TypeOK'
    BY <1>1, <2>1, RewindIsTyped DEF TypeOK, Reconcile, dbVars, Checkpoints
  <2>3. Promised'
    BY <1>1, <2>1, RewindIsTyped DEF Promised, Reconcile, dbVars, GateFree
  <2>4. QED BY <2>2, <2>3
<1>2. CASE Start
  <2>1. Indexes = {i \in 0 .. Total : i < Total}
    BY DEF Indexes
  <2>2. PICK next \in {ckpt.next} \cup
                        (IF ckpt.draft /\ ckpt.index < Total THEN {"persist"} ELSE {}) :
          ckpt' = [ckpt EXCEPT !.next = next]
    BY <1>2 DEF Start
  <2>3. /\ next \in Nodes
        /\ next = ckpt.next \/ (next = "persist" /\ ckpt.draft /\ ckpt.index < Total)
    BY <2>2 DEF TypeOK, Nodes
  <2>4. TypeOK'
    BY <1>2, <2>2, <2>3 DEF Start, TypeOK, dbVars
  <2>5. Promised'
    BY <1>2, <2>1, <2>2, <2>3 DEF Start, TypeOK, Promised, dbVars, GateFree
  <2>6. QED BY <2>4, <2>5
<1>3. CASE Restart
  <2>1. Indexes = {i \in 0 .. Total : i < Total}
    BY DEF Indexes
  <2>2. PICK next \in {"progress"} \cup
                        (IF ckpt.draft /\ Current < Total THEN {"persist"} ELSE {}) :
          ckpt' = [Placed(Current) EXCEPT !.next = next]
    BY <1>3 DEF Restart
  <2>3. /\ next \in Nodes
        /\ next = "progress" \/ (next = "persist" /\ ckpt.draft /\ Current < Total)
    BY <2>2 DEF Nodes
  <2>4. ckpt' = [ckpt EXCEPT !.index = Current, !.retrieved = @ /\ Current = ckpt.index,
                             !.next = next]
    BY <2>2 DEF Placed
  <2>5. TypeOK'
    BY <1>3, <2>3, <2>4, CurrentIsAPosition DEF Restart, TypeOK, dbVars
  <2>6. Promised'
    BY <1>3, <2>1, <2>3, <2>4, CurrentIsAPosition
    DEF Restart, TypeOK, Promised, dbVars, GateFree
  <2>7. QED BY <2>5, <2>6
<1>4. CASE Stop
  BY <1>4 DEF Stop, TypeOK, Promised, dbVars
<1>5. CASE CheckProgress
  <2>1. \/ ckpt' = Rewound(Current)
        \/ ckpt' = [ckpt EXCEPT !.index = Total, !.retrieved = @ /\ Total = ckpt.index,
                                !.next = "end"]
        \/ /\ Current \in Indexes
           /\ ckpt' = [ckpt EXCEPT !.index = Current, !.retrieved = @ /\ Current = ckpt.index,
                                   !.next = "router", !.draft = FALSE, !.context = {}]
    BY <1>5, CurrentIsAPosition DEF CheckProgress, Placed, Indexes
  <2>2. TypeOK'
    <3>1. {} \in SUBSET Memories /\ {"router", "end"} \subseteq Nodes /\ Total \in 0 .. Total
          /\ Indexes \subseteq 0 .. Total
      BY DEF Nodes, Indexes
    <3>2. CASE ckpt' = Rewound(Current)
      BY <1>5, <3>2, RewindIsTyped DEF CheckProgress, TypeOK, dbVars, Checkpoints
    <3>3. CASE ckpt' = [ckpt EXCEPT !.index = Total, !.retrieved = @ /\ Total = ckpt.index,
                                    !.next = "end"]
      BY <1>5, <3>1, <3>3 DEF CheckProgress, TypeOK, dbVars
    <3>4. CASE /\ Current \in Indexes
               /\ ckpt' = [ckpt EXCEPT !.index = Current,
                                       !.retrieved = @ /\ Current = ckpt.index,
                                       !.next = "router", !.draft = FALSE, !.context = {}]
      BY <1>5, <3>1, <3>4 DEF CheckProgress, TypeOK, dbVars
    <3>5. QED BY <2>1, <3>2, <3>3, <3>4
  <2>3. /\ ckpt'.next \in {"router", "end"}
        /\ ckpt'.next = "router" => ckpt'.index \in Indexes
    BY <2>1, RewindIsTyped DEF TypeOK
  <2>4. Promised'
    BY <1>5, <2>3 DEF CheckProgress, Promised, dbVars
  <2>5. QED BY <2>2, <2>4
<1>6. CASE Retrieve
  <2>1. Context(ckpt.index) \in SUBSET Memories
    BY ContextIsTyped
  <2>2. QED BY <1>6, <2>1 DEF Retrieve, TypeOK, Promised, dbVars
<1>7. CASE WriteChapter
  BY <1>7 DEF WriteChapter, TypeOK, Nodes, Promised, dbVars
<1>8. CASE Persist
  <2>1. ckpt.index \in Indexes /\ ckpt.context \in SUBSET Memories
    BY <1>8 DEF Persist, TypeOK, Promised
  <2>2. ReplaceChapter(ckpt.index, Fresh, ckpt.context)
    BY <1>8 DEF Persist
  <2>3. Fresh \in Chapters
    BY <2>2 DEF Fresh, Chapters, ReplaceChapter, TypeOK, Texts
  <2>4. /\ chapters' \in [Indexes -> Chapters \cup {None}]
        /\ memories' \in SUBSET Memories
        /\ executions' \in [Indexes -> Texts \cup {None}]
        /\ stored' \in 0 .. MaxTexts /\ stored' \in Texts
    BY <2>1, <2>2, <2>3, ReplaceIsTyped
  <2>5. \/ ckpt' = ckpt /\ gen' = FALSE
        \/ /\ ckpt' = [index |-> ckpt.index + 1, next |-> "reconcile", draft |-> FALSE,
                        retrieved |-> FALSE, context |-> {}, last |-> stored']
           /\ gen' = gen
    BY <1>8 DEF Persist
  <2>6. ckpt.index + 1 \in 0 .. Total /\ ckpt.index + 1 # 0 /\ stored' # 0
    BY <2>1, <2>4 DEF Indexes, Texts
  <2>7. TypeOK'
    <3>1. ckpt' \in Checkpoints
      <4>1. CASE ckpt' = ckpt
        BY <4>1 DEF TypeOK, Checkpoints
      <4>2. CASE ckpt' = [index |-> ckpt.index + 1, next |-> "reconcile", draft |-> FALSE,
                           retrieved |-> FALSE, context |-> {}, last |-> stored']
        BY <2>4, <2>6, <4>2, EmptyCheckpoint DEF Nodes
      <4>3. QED BY <2>5, <4>1, <4>2
    <3>2. gen' \in BOOLEAN
      BY <2>5 DEF TypeOK
    <3>3. QED BY <1>8, <2>4, <3>1, <3>2 DEF Persist, TypeOK, Checkpoints
  <2>8. Promised'
    <3>1. CASE ckpt' = ckpt /\ gen' = FALSE
      BY <1>8, <3>1 DEF Persist, Promised
    <3>2. CASE /\ ckpt' = [index |-> ckpt.index + 1, next |-> "reconcile", draft |-> FALSE,
                           retrieved |-> FALSE, context |-> {}, last |-> stored']
               /\ gen' = gen
      BY <1>8, <2>6, <3>2 DEF Persist, Promised
    <3>3. QED BY <2>5, <3>1, <3>2
  <2>9. QED BY <2>7, <2>8
<1>9. CASE ReconcilePlan
  <2>1. ckpt.last \in Texts /\ ckpt.index \in 1 .. Total
    BY <1>9 DEF ReconcilePlan, TypeOK, Promised, Texts
  <2>2. TypeOK'
    <3>1. ckpt' = ckpt \/ ckpt' = [ckpt EXCEPT !.next = "progress"]
      BY <1>9 DEF ReconcilePlan
    <3>2. "progress" \in Nodes
      BY DEF Nodes
    <3>3. ckpt' \in Checkpoints
      BY <3>1, <3>2 DEF TypeOK, Checkpoints
    <3>4. executions' \in [Indexes -> Texts \cup {None}]
      BY <1>9, <2>1 DEF ReconcilePlan, TypeOK
    <3>5. gen' \in BOOLEAN
      BY <1>9 DEF ReconcilePlan, TypeOK
    <3>6. QED BY <1>9, <3>3, <3>4, <3>5 DEF ReconcilePlan, TypeOK, Checkpoints
  <2>3. Promised'
    BY <1>9, <2>1 DEF ReconcilePlan, TypeOK, Promised
  <2>4. QED BY <2>2, <2>3
<1>10. ASSUME NEW e \in Editors, Load(e) PROVE Typed'
  BY <1>10 DEF Load, TypeOK, Promised, dbVars, Written
<1>11. ASSUME NEW e \in Editors, Edit(e) PROVE Typed'
  <2>. DEFINE i == seen[e].index
  <2>1. i \in Indexes /\ chapters[i] \in Chapters /\ seen[e] \in [index : Indexes, was : Chapters]
    BY <1>11 DEF Edit, MayEdit, TypeOK
  <2>2. stored + 1 \in Texts
    BY <1>11 DEF Edit, TypeOK, Texts
  <2>3. EditedRow(chapters[i]) \in Chapters
    BY <2>1, <2>2, NewVersions
  <2>4. EditedMemories(i) \in SUBSET Memories
    BY <2>1, <2>2, RowsAreTyped DEF EditedMemories, TypeOK
  <2>5. seen' \in [Editors -> [index : Indexes, was : Chapters] \cup {None}]
    BY <1>11, <2>1, <2>3 DEF Edit, TypeOK
  <2>6. TypeOK'
    BY <1>11, <2>1, <2>2, <2>3, <2>4, <2>5 DEF Edit, TypeOK, Texts
  <2>7. Promised'
    BY <1>11, <2>3 DEF Edit, Promised, GateFree
  <2>8. QED BY <2>6, <2>7
<1>12. ASSUME NEW k \in Indexes, Delete(k) PROVE Typed'
  BY <1>12 DEF Delete, TypeOK, Promised, GateFree
<1>13. ASSUME NEW k \in Indexes, Rewrite(k) PROVE Typed'
  <2>1. ReplaceChapter(k, Rewritten(chapters[k]), Context(k))
    BY <1>13 DEF Rewrite
  <2>2. Rewritten(chapters[k]) \in Chapters
    <3>1. chapters[k] \in Chapters /\ stored + 1 \in Texts
      BY <1>13, <2>1 DEF Rewrite, ReplaceChapter, TypeOK, Texts
    <3>2. QED BY <3>1, NewVersions
  <2>3. Context(k) \in SUBSET Memories
    BY ContextIsTyped
  <2>4. /\ chapters' \in [Indexes -> Chapters \cup {None}]
        /\ memories' \in SUBSET Memories
        /\ executions' \in [Indexes -> Texts \cup {None}]
        /\ stored' \in 0 .. MaxTexts /\ stored' \in Texts
    BY <2>1, <2>2, <2>3, ReplaceIsTyped
  <2>5. TypeOK'
    BY <1>13, <2>4 DEF Rewrite, TypeOK
  <2>6. chapters'[k] # None
    BY <2>1, <2>2 DEF ReplaceChapter, TypeOK
  <2>7. Promised'
    BY <1>13, <2>6 DEF Rewrite, MayRewrite, GateFree, Promised
  <2>8. QED BY <2>5, <2>7
<1>14. CASE FinishRewrite
  <2>1. op \in Indexes /\ chapters[op] \in Chapters
    BY <1>14 DEF FinishRewrite, TypeOK, Promised
  <2>2. chapters[op].text \in Texts
    BY <2>1 DEF Chapters
  <2>3. TypeOK'
    BY <1>14, <2>1, <2>2 DEF FinishRewrite, TypeOK
  <2>4. Promised'
    BY <1>14 DEF FinishRewrite, Promised
  <2>5. QED BY <2>3, <2>4
<1>15. CASE UNCHANGED vars
  BY <1>15 DEF vars, dbVars, TypeOK, Promised
<1>16. QED
  BY <1>1, <1>2, <1>3, <1>4, <1>5, <1>6, <1>7, <1>8, <1>9, <1>10, <1>11, <1>12, <1>13,
     <1>14, <1>15
  DEF Next

\* The types of the tables, the checkpoint and the windows, with what a
\* checkpoint promises its next node and that a rewrite never loses its chapter.
THEOREM StoryTyped == Spec => []Typed
<1>1. Init => Typed
  <2>1. 0 \in Indexes /\ 0 \in 0 .. Total /\ 0 \in 0 .. MaxTexts
    BY StoryAssumption DEF Indexes
  <2>2. Init => TypeOK
    <3>1. Init => ckpt \in Checkpoints
      BY <2>1, EmptyCheckpoint DEF Init, Nodes
    <3>2. QED BY <2>1, <3>1 DEF Init, TypeOK, Checkpoints
  <2>3. Init => Promised
    BY <2>1 DEF Init, Promised
  <2>4. QED BY <2>2, <2>3 DEF Typed
<1>2. Typed /\ [Next]_vars => Typed'
  BY TypedStep
<1>3. QED BY <1>1, <1>2, PTL DEF Spec

THEOREM TypeCorrect == Spec => []TypeOK
<1>1. Typed => TypeOK
  BY DEF Typed
<1>2. QED BY <1>1, StoryTyped, PTL

-----------------------------------------------------------------------------
(* The memories are those of the texts. *)

\* What the transactions that give chapter i the text t leave of the memories:
\* nothing of the chapter but its new rows, and no story state that was there.
GivenText(i, t, rows) ==
    /\ rows \subseteq MemoriesOf(i, t) \cup {m \in Memories : m.kind = "story_state"}
    /\ MemoriesOf(i, t) \subseteq rows
    /\ chapters' = [chapters EXCEPT ![i] = chapters'[i]]
    /\ chapters'[i] # None
    /\ chapters'[i].text = t
    /\ memories' = (memories \ (ChapterMemories(i) \cup States)) \cup rows

\* The invariant, row by row.
RowsOfTheTexts ==
    \A m \in Memories : m.kind # "story_state" =>
        (m \in memories <=>
            chapters[m.index] # None /\ m.of = {chapters[m.index].text})

LEMMA RowByRow ==
    ASSUME TypeOK
    PROVE  MemoriesFollowTheText <=> RowsOfTheTexts
<1>1. ASSUME NEW i \in Written PROVE MemoriesOf(i, chapters[i].text) \subseteq Memories
  <2>1. i \in Indexes /\ chapters[i].text \in Texts
    BY <1>1 DEF Written, TypeOK, Chapters
  <2>2. QED BY <2>1, RowsAreTyped
<1>2. ASSUME NEW m \in Memories, m.kind # "story_state"
      PROVE  m \in UNION {MemoriesOf(i, chapters[i].text) : i \in Written}
               <=> chapters[m.index] # None /\ m.of = {chapters[m.index].text}
  <2>1. m.kind \in {"chapter", "chapter_summary"} /\ m.index \in Indexes
    BY <1>2 DEF Memories, Kinds
  <2>2. m = Row(m.kind, m.index, m.of)
    BY DEF Memories, Row
  <2>3. ASSUME NEW i \in Written
        PROVE m \in MemoriesOf(i, chapters[i].text)
                <=> m.index = i /\ m.of = {chapters[i].text}
    BY <2>1, <2>2 DEF MemoriesOf, Row
  <2>4. m.index \in Written <=> chapters[m.index] # None
    BY <2>1 DEF Written
  <2>5. QED BY <2>3, <2>4
<1>3. ASSUME NEW m \in UNION {MemoriesOf(i, chapters[i].text) : i \in Written}
      PROVE  m \in Memories /\ m.kind # "story_state"
  <2>1. PICK i \in Written : m \in MemoriesOf(i, chapters[i].text)
    BY <1>3
  <2>2. m \in Memories
    BY <1>1, <2>1
  <2>3. m.kind # "story_state"
    BY <2>1 DEF MemoriesOf, Row
  <2>4. QED BY <2>2, <2>3
<1>4. \A m \in memories : m \in Memories
  BY DEF TypeOK
<1>5. \A m : m \in Plain(memories) <=> m \in memories /\ m.kind # "story_state"
  BY DEF Plain
<1>6. QED BY <1>2, <1>3, <1>4, <1>5 DEF MemoriesFollowTheText, RowsOfTheTexts

LEMMA GivenTextKeeps ==
    ASSUME TypeOK, NEW i \in Indexes, NEW t, NEW rows, GivenText(i, t, rows),
           RowsOfTheTexts
    PROVE  RowsOfTheTexts'
<1> SUFFICES ASSUME NEW m \in Memories, m.kind # "story_state"
             PROVE  m \in memories' <=>
                      chapters'[m.index] # None /\ m.of = {chapters'[m.index].text}
  BY DEF RowsOfTheTexts
<1>1. /\ m.kind \in {"chapter", "chapter_summary"} /\ m.index \in Indexes
      /\ m = Row(m.kind, m.index, m.of)
  BY DEF Memories, Kinds, Row
<1>2. m \in MemoriesOf(i, t) <=> m.index = i /\ m.of = {t}
  BY <1>1 DEF MemoriesOf, Row
<1>3. m \in rows <=> m.index = i /\ m.of = {t}
  BY <1>2 DEF GivenText
<1>4. m \notin States
  BY DEF States
<1>5. CASE m.index = i
  <2>1. m \in memories => m \in ChapterMemories(i)
    BY <1>5 DEF ChapterMemories, Plain
  <2>2. m \in memories' <=> m \in rows
    BY <2>1 DEF GivenText
  <2>3. QED BY <1>3, <1>5, <2>2 DEF GivenText
<1>6. CASE m.index # i
  <2>1. m \notin ChapterMemories(i)
    BY <1>6 DEF ChapterMemories
  <2>2. m \in memories' <=> m \in memories
    BY <1>3, <1>4, <1>6, <2>1 DEF GivenText
  <2>3. chapters'[m.index] = chapters[m.index]
    BY <1>1, <1>6 DEF GivenText, TypeOK
  <2>4. QED BY <2>2, <2>3 DEF RowsOfTheTexts
<1>7. QED BY <1>5, <1>6

\* replace_chapter, whether it stores a new chapter or a rewritten one.
LEMMA ReplaceGivesText ==
    ASSUME TypeOK, NEW i \in Indexes, NEW chapter \in Chapters,
           NEW context \in SUBSET Memories, ReplaceChapter(i, chapter, context),
           chapter.text = stored + 1
    PROVE  \E rows : GivenText(i, stored + 1, rows)
<1>. DEFINE rows == Continuity(context, i, stored + 1)
<1>1. stored' = stored + 1 /\ stored + 1 \in Texts
  BY StoryAssumption DEF ReplaceChapter, TypeOK, Texts
<1>2. StateAfter(context, i, stored + 1) \in Memories
  BY <1>1, StateIsTyped
<1>3. StateAfter(context, i, stored + 1).kind = "story_state"
  BY DEF StateAfter, Row
<1>4. rows \subseteq MemoriesOf(i, stored + 1) \cup {m \in Memories : m.kind = "story_state"}
  BY <1>2, <1>3 DEF Continuity
<1>5. MemoriesOf(i, stored + 1) \subseteq rows
  BY DEF Continuity
<1>6. chapters' = [chapters EXCEPT ![i] = chapter] /\ chapters'[i] = chapter
  BY DEF ReplaceChapter, TypeOK
<1>7. chapter # None
  BY NoneAssumption
<1>8. memories' = (memories \ (ChapterMemories(i) \cup States)) \cup rows
  BY <1>1 DEF ReplaceChapter, Replaced
<1>9. GivenText(i, stored + 1, rows)
  BY <1>4, <1>5, <1>6, <1>7, <1>8 DEF GivenText
<1>10. QED BY <1>9

\* update_chapter_consistently.
LEMMA EditGivesText ==
    ASSUME Typed, NEW e \in Editors, Edit(e)
    PROVE  /\ seen[e].index \in Indexes
           /\ GivenText(seen[e].index, stored + 1, MemoriesOf(seen[e].index, stored + 1))
<1>. DEFINE i == seen[e].index
<1>1. i \in Indexes
  BY DEF Edit, MayEdit, TypeOK, Typed
<1>2. chapters' = [chapters EXCEPT ![i] = EditedRow(chapters[i])]
      /\ chapters'[i] = EditedRow(chapters[i])
  BY <1>1 DEF Edit, TypeOK, Typed
<1>3. EditedRow(chapters[i]).text = stored + 1
  BY DEF EditedRow
<1>4. chapters'[i] # None
  <2>1. chapters[i] \in Chapters /\ stored + 1 \in Texts
    BY <1>1, StoryAssumption DEF Edit, MayEdit, TypeOK, Typed, Texts
  <2>2. QED BY <1>2, <2>1, NewVersions, NoneAssumption
<1>5. memories' = (memories \ (ChapterMemories(i) \cup States)) \cup MemoriesOf(i, stored + 1)
  BY DEF Edit, EditedMemories
<1>6. QED BY <1>1, <1>2, <1>3, <1>4, <1>5 DEF GivenText

LEMMA DeleteKeeps ==
    ASSUME TypeOK, NEW k \in Indexes, Delete(k), RowsOfTheTexts
    PROVE  RowsOfTheTexts'
<1> SUFFICES ASSUME NEW m \in Memories, m.kind # "story_state"
             PROVE  m \in memories' <=>
                      chapters'[m.index] # None /\ m.of = {chapters'[m.index].text}
  BY DEF RowsOfTheTexts
<1>1. m.index \in Indexes
  BY DEF Memories
<1>2. m \in memories' <=> m \in memories /\ ~(m.index >= k)
  BY DEF Delete, DeletedFrom, ChapterMemoriesFrom, States, Plain
<1>3. chapters'[m.index] = IF m.index >= k THEN None ELSE chapters[m.index]
  BY <1>1 DEF Delete
<1>4. QED BY <1>2, <1>3 DEF RowsOfTheTexts

\* Whatever a step does, the rows stay those of the texts.
LEMMA RowsStep ==
    ASSUME Typed, RowsOfTheTexts, [Next]_vars
    PROVE  RowsOfTheTexts'
<1>. USE DEF Typed
<1>1. CASE UNCHANGED <<chapters, memories>>
  BY <1>1 DEF RowsOfTheTexts
<1>2. CASE Persist
  <2>1. ckpt.index \in Indexes /\ ckpt.context \in SUBSET Memories
    BY <1>2 DEF Persist, TypeOK, Promised
  <2>2. ReplaceChapter(ckpt.index, Fresh, ckpt.context)
    BY <1>2 DEF Persist
  <2>3. Fresh \in Chapters /\ Fresh.text = stored + 1
    BY <2>2, StoryAssumption DEF Fresh, Chapters, ReplaceChapter, TypeOK, Texts
  <2>4. QED BY <2>1, <2>2, <2>3, ReplaceGivesText, GivenTextKeeps
<1>3. ASSUME NEW e \in Editors, Edit(e) PROVE RowsOfTheTexts'
  BY <1>3, EditGivesText, GivenTextKeeps
<1>4. ASSUME NEW k \in Indexes, Delete(k) PROVE RowsOfTheTexts'
  BY <1>4, DeleteKeeps
<1>5. ASSUME NEW k \in Indexes, Rewrite(k) PROVE RowsOfTheTexts'
  <2>1. ReplaceChapter(k, Rewritten(chapters[k]), Context(k))
    BY <1>5 DEF Rewrite
  <2>2. chapters[k] \in Chapters /\ stored + 1 \in Texts
    BY <1>5, <2>1, StoryAssumption DEF Rewrite, ReplaceChapter, TypeOK, Texts
  <2>3. Rewritten(chapters[k]) \in Chapters /\ Rewritten(chapters[k]).text = stored + 1
    BY <2>2, NewVersions DEF Rewritten
  <2>4. Context(k) \in SUBSET Memories
    BY ContextIsTyped
  <2>5. QED BY <2>1, <2>3, <2>4, ReplaceGivesText, GivenTextKeeps
<1>6. QED
  BY <1>1, <1>2, <1>3, <1>4, <1>5
  DEF Next, vars, dbVars, Reconcile, Restart, Start, Stop, CheckProgress, Retrieve,
      WriteChapter, ReconcilePlan, Load, FinishRewrite

\* However chapters are stored, stored again after a crash, edited, rewritten
\* and deleted, the memories are those of the texts the chapters have.
THEOREM MemoriesOfTheTexts == Spec => []MemoriesFollowTheText
<1>1. Init => RowsOfTheTexts
  BY DEF Init, RowsOfTheTexts, Memories
<1>2. Typed /\ RowsOfTheTexts /\ [Next]_vars => RowsOfTheTexts'
  BY RowsStep
<1>3. Typed /\ RowsOfTheTexts => MemoriesFollowTheText
  BY RowByRow DEF Typed
<1>4. QED BY <1>1, <1>2, <1>3, StoryTyped, PTL DEF Spec

-----------------------------------------------------------------------------
(* The edits. *)

\* Ids are never used again, and a row that still has the id and the version a
\* window has loaded is that row.
SeenFollows ==
    /\ \A i \in Indexes : chapters[i] # None => chapters[i].id <= stored
    /\ \A e \in Editors : seen[e] # None =>
         /\ seen[e].was.id <= stored
         /\ LET row == chapters[seen[e].index] IN
            row # None /\ row.id = seen[e].was.id =>
              /\ seen[e].was.version <= row.version
              /\ seen[e].was.version = row.version => seen[e].was = row

\* What a step may do to a row, and to a window.
NewRow(i) ==
    /\ chapters'[i] \in Chapters
    /\ \/ stored' = stored + 1 /\ chapters'[i].id = stored + 1
       \/ /\ chapters[i] # None
          /\ chapters'[i].id = chapters[i].id
          /\ chapters'[i].version = chapters[i].version + 1

Loaded(e) ==
    /\ seen'[e] \in [index : Indexes, was : Chapters]
    /\ seen'[e].was = chapters'[seen'[e].index]

LEMMA SeenKeeps ==
    ASSUME TypeOK, SeenFollows, TypeOK',
           stored' \in Nat, stored' >= stored,
           \A i \in Indexes : chapters'[i] \in {chapters[i], None} \/ NewRow(i),
           \A e \in Editors : seen'[e] = seen[e] \/ Loaded(e)
    PROVE  SeenFollows'
<1>. USE StoryAssumption, NoneAssumption
<1>1. stored \in Nat
  BY DEF TypeOK
<1>2. ASSUME NEW i \in Indexes, chapters'[i] # None PROVE chapters'[i].id <= stored'
  <2>1. CASE chapters'[i] = chapters[i]
    <3>1. chapters[i] \in Chapters /\ chapters[i].id <= stored
      BY <1>2, <2>1 DEF TypeOK, SeenFollows
    <3>2. QED BY <1>1, <2>1, <3>1 DEF Chapters, Texts
  <2>2. CASE NewRow(i) /\ chapters[i] # None /\ chapters'[i].id = chapters[i].id
    <3>1. chapters[i] \in Chapters /\ chapters[i].id <= stored
      BY <2>2 DEF TypeOK, SeenFollows
    <3>2. QED BY <1>1, <2>2, <3>1 DEF Chapters, Texts
  <2>3. CASE stored' = stored + 1 /\ chapters'[i].id = stored + 1
    BY <1>1, <2>3
  <2>4. QED BY <1>2, <2>1, <2>2, <2>3 DEF NewRow
<1>3. ASSUME NEW e \in Editors, seen'[e] # None
      PROVE  /\ seen'[e].was.id <= stored'
             /\ LET row == chapters'[seen'[e].index] IN
                row # None /\ row.id = seen'[e].was.id =>
                  /\ seen'[e].was.version <= row.version
                  /\ seen'[e].was.version = row.version => seen'[e].was = row
  <2>1. CASE Loaded(e)
    <3>1. seen'[e].index \in Indexes /\ seen'[e].was \in Chapters
      BY <2>1 DEF Loaded
    <3>2. chapters'[seen'[e].index] # None
      BY <2>1, <3>1 DEF Loaded
    <3>3. seen'[e].was.id <= stored'
      BY <1>2, <2>1, <3>1, <3>2 DEF Loaded
    <3>4. seen'[e].was.version \in Nat
      BY <3>1 DEF Chapters
    <3>5. QED BY <2>1, <3>3, <3>4 DEF Loaded
  <2>2. CASE seen'[e] = seen[e]
    <3>. DEFINE i == seen[e].index
                was == seen[e].was
    <3>1. i \in Indexes /\ was \in Chapters /\ was.id \in Nat /\ was.version \in Nat
      BY <1>3, <2>2 DEF TypeOK, Chapters, Texts
    <3>2. was.id <= stored
      BY <1>3, <2>2 DEF SeenFollows
    <3>3. chapters[i] # None /\ chapters[i].id = was.id =>
            /\ was.version <= chapters[i].version
            /\ was.version = chapters[i].version => was = chapters[i]
      BY <1>3, <2>2 DEF SeenFollows
    <3>4. ASSUME chapters'[i] # None, chapters'[i].id = was.id
          PROVE  /\ was.version <= chapters'[i].version
                 /\ was.version = chapters'[i].version => was = chapters'[i]
      <4>1. CASE chapters'[i] = chapters[i]
        BY <3>3, <3>4, <4>1
      <4>2. CASE stored' = stored + 1 /\ chapters'[i].id = stored + 1
        BY <1>1, <3>1, <3>2, <3>4, <4>2
      <4>3. CASE /\ chapters[i] # None
                 /\ chapters'[i].id = chapters[i].id
                 /\ chapters'[i].version = chapters[i].version + 1
        <5>1. was.version <= chapters[i].version
          BY <3>3, <3>4, <4>3
        <5>2. chapters[i].version \in Nat
          BY <3>1, <4>3 DEF TypeOK, Chapters
        <5>3. was.version < chapters'[i].version
          BY <3>1, <4>3, <5>1, <5>2
        <5>4. QED BY <3>1, <4>3, <5>2, <5>3
      <4>4. QED BY <3>1, <3>4, <4>1, <4>2, <4>3 DEF NewRow
    <3>5. was.id <= stored'
      BY <1>1, <3>1, <3>2
    <3>6. QED BY <2>2, <3>4, <3>5
  <2>3. QED BY <2>1, <2>2
<1>4. QED BY <1>2, <1>3 DEF SeenFollows

LEMMA SeenStep ==
    ASSUME Typed, SeenFollows, [Next]_vars
    PROVE  SeenFollows'
<1>. USE StoryAssumption, NoneAssumption
<1>1. Typed'
  BY TypedStep
<1>2. TypeOK /\ TypeOK' /\ stored \in Nat /\ stored' \in Nat
  BY <1>1 DEF Typed, TypeOK
<1>3. CASE UNCHANGED <<chapters, seen, stored>>
  BY <1>3 DEF SeenFollows
<1>4. CASE Persist
  <2>1. ckpt.index \in Indexes /\ ReplaceChapter(ckpt.index, Fresh, ckpt.context)
    BY <1>4 DEF Persist, Typed, Promised
  <2>2. Fresh \in Chapters /\ stored' = stored + 1
    BY <2>1 DEF Fresh, Chapters, ReplaceChapter, TypeOK, Texts, Typed
  <2>3. \A i \in Indexes : chapters'[i] = chapters[i] \/ NewRow(i)
    BY <1>2, <2>1, <2>2 DEF ReplaceChapter, NewRow, Fresh, TypeOK
  <2>4. seen' = seen
    BY <1>4 DEF Persist
  <2>5. QED BY <1>2, <2>2, <2>3, <2>4, SeenKeeps
<1>5. ASSUME NEW e \in Editors, Load(e) PROVE SeenFollows'
  <2>1. chapters' = chapters /\ stored' = stored
    BY <1>5 DEF Load, dbVars
  <2>2. PICK i \in Written : seen' = [seen EXCEPT ![e] = [index |-> i, was |-> chapters[i]]]
    BY <1>5 DEF Load
  <2>3. i \in Indexes /\ chapters[i] \in Chapters
    BY <1>2 DEF Written, TypeOK
  <2>4. \A f \in Editors : seen'[f] = seen[f] \/ Loaded(f)
    BY <1>2, <2>1, <2>2, <2>3 DEF Loaded, TypeOK
  <2>5. QED BY <1>2, <2>1, <2>4, SeenKeeps
<1>6. ASSUME NEW e \in Editors, Edit(e) PROVE SeenFollows'
  <2>. DEFINE i == seen[e].index
  <2>1. i \in Indexes /\ chapters[i] \in Chapters /\ seen[e] \in [index : Indexes, was : Chapters]
    BY <1>2, <1>6 DEF Edit, MayEdit, TypeOK
  <2>2. stored + 1 \in Texts /\ stored' = stored + 1
    BY <1>2, <1>6 DEF Edit, Texts, TypeOK
  <2>3. EditedRow(chapters[i]) \in Chapters
    BY <2>1, <2>2, NewVersions
  <2>4. chapters' = [chapters EXCEPT ![i] = EditedRow(chapters[i])]
    BY <1>6, <2>1 DEF Edit
  <2>5. \A j \in Indexes : chapters'[j] = chapters[j] \/ NewRow(j)
    BY <1>2, <2>1, <2>3, <2>4 DEF NewRow, EditedRow, TypeOK
  <2>6. seen' = [seen EXCEPT ![e] = [index |-> i, was |-> EditedRow(chapters[i])]]
    <3>1. [seen[e] EXCEPT !.was = EditedRow(chapters[i])]
            = [index |-> i, was |-> EditedRow(chapters[i])]
      BY <2>1
    <3>2. seen' = [seen EXCEPT ![e] = [seen[e] EXCEPT !.was = EditedRow(chapters[i])]]
      BY <1>6 DEF Edit
    <3>3. QED BY <3>1, <3>2, Zenon
  <2>7. \A f \in Editors : seen'[f] = seen[f] \/ Loaded(f)
    BY <1>2, <2>1, <2>3, <2>4, <2>6 DEF Loaded, TypeOK
  <2>8. QED BY <1>2, <2>2, <2>5, <2>7, SeenKeeps
<1>7. ASSUME NEW k \in Indexes, Delete(k) PROVE SeenFollows'
  <2>1. \A i \in Indexes : chapters'[i] \in {chapters[i], None}
    BY <1>7 DEF Delete
  <2>2. seen' = seen /\ stored' = stored
    BY <1>7 DEF Delete
  <2>3. QED BY <1>2, <2>1, <2>2, SeenKeeps
<1>8. ASSUME NEW k \in Indexes, Rewrite(k) PROVE SeenFollows'
  <2>1. ReplaceChapter(k, Rewritten(chapters[k]), Context(k)) /\ chapters[k] # None
    BY <1>8 DEF Rewrite
  <2>2. chapters[k] \in Chapters /\ stored + 1 \in Texts /\ stored' = stored + 1
    BY <1>2, <2>1 DEF ReplaceChapter, TypeOK, Texts
  <2>3. Rewritten(chapters[k]) \in Chapters
    BY <2>2, NewVersions
  <2>4. \A i \in Indexes : chapters'[i] = chapters[i] \/ NewRow(i)
    BY <1>2, <2>1, <2>3 DEF ReplaceChapter, NewRow, Rewritten, TypeOK
  <2>5. seen' = seen
    BY <1>8 DEF Rewrite
  <2>6. QED BY <1>2, <2>2, <2>4, <2>5, SeenKeeps
<1>9. QED
  BY <1>3, <1>4, <1>5, <1>6, <1>7, <1>8
  DEF Next, vars, dbVars, Reconcile, Restart, Start, Stop, CheckProgress, Retrieve,
      WriteChapter, ReconcilePlan, FinishRewrite

\* A saved edit replaces the text its window has loaded, whatever other windows,
\* rewrites, deletions and generations did since.
THEOREM EditsAreOfWhatWasRead == Spec => EditsReplaceWhatTheyRead
<1>1. Init => SeenFollows
  BY DEF Init, SeenFollows
<1>2. Typed /\ SeenFollows /\ [Next]_vars => SeenFollows'
  BY SeenStep
<1>3. ASSUME Typed, SeenFollows, [Next]_vars, NEW e \in Editors,
             seen[e] # None, seen'[e] # seen[e], chapters' # chapters
      PROVE  chapters[seen[e].index] = seen[e].was
  <2>1. Edit(e)
    <3>1. ASSUME NEW f \in Editors, Edit(f), f # e PROVE seen'[e] = seen[e]
      BY <3>1 DEF Edit, Typed, TypeOK
    <3>2. QED
      BY <1>3, <3>1
      DEF Next, vars, dbVars, Reconcile, Restart, Start, Stop, CheckProgress, Retrieve,
          WriteChapter, Persist, ReconcilePlan, Load, Delete, Rewrite, FinishRewrite
  <2>2. QED BY <1>3, <2>1 DEF Edit, MayEdit, SeenFollows
<1>4. Typed /\ SeenFollows /\ [Next]_vars =>
        [\A e \in Editors :
          seen[e] # None /\ seen'[e] # seen[e] /\ chapters' # chapters =>
             chapters[seen[e].index] = seen[e].was]_vars
  BY <1>3
<1>5. QED BY <1>1, <1>2, <1>4, StoryTyped, PTL DEF Spec, EditsReplaceWhatTheyRead

-----------------------------------------------------------------------------
(* Contexts, states and executions, where no chapter is rewritten while the *)
(* next one waits.                                                          *)

\* The texts of the chapters before chapter i.
TextsBelow(i) == {chapters[j].text : j \in {k \in Written : k < i}}

StatesFollow == \A m \in States : m.of \subseteq TextsBelow(m.index + 1)

\* The chapters are a prefix of the book.
InOrder == Written = 0 .. Current - 1

\* The checkpoint is at the next chapter, or at the last with the draft that was
\* stored before its update was lost; what it was to write from goes with either.
Positioned ==
    /\ ~sync => ckpt.index = Current \/ (ckpt.draft /\ ckpt.index + 1 = Current)
    /\ ckpt.context # {} => ckpt.retrieved \/ ckpt.draft

\* What the checkpoint holds back is of the book, unless its reconciliation waits.
ContextFollows ==
    ~sync => \A m \in ckpt.context : m.of \subseteq TextsBelow(ckpt.index)

LastFollows ==
    ~sync /\ ckpt.next = "reconcile" =>
        chapters[ckpt.index - 1] # None /\ chapters[ckpt.index - 1].text = ckpt.last

Follows ==
    StatesFollow /\ InOrder /\ Positioned /\ ContextFollows /\ LastFollows
    /\ ExecutionsFollowTheText

\* What holds of the tables alone does not depend on the rest.
LEMMA BookUnchanged ==
    ASSUME UNCHANGED dbVars
    PROVE  /\ StatesFollow => StatesFollow'
           /\ InOrder => InOrder'
           /\ ExecutionsFollowTheText => ExecutionsFollowTheText'
           /\ Current' = Current
           /\ \A i : TextsBelow(i)' = TextsBelow(i)
           /\ \A i : Context(i)' = Context(i)
<1>1. chapters' = chapters /\ memories' = memories /\ executions' = executions
  BY DEF dbVars
<1>2. Written' = Written /\ States' = States
  BY <1>1 DEF Written, States
<1>3. Current' = Current
  BY <1>2 DEF Current
<1>4. \A i : TextsBelow(i)' = TextsBelow(i)
  BY <1>1, <1>2 DEF TextsBelow
<1>5. \A i : Context(i)' = Context(i)
  BY <1>1, <1>2 DEF Context, LatestState, RecentChapters, HistoricalSummaries
<1>6. StatesFollow => StatesFollow'
  BY <1>2, <1>4 DEF StatesFollow
<1>7. InOrder => InOrder'
  BY <1>2, <1>3 DEF InOrder
<1>8. ExecutionsFollowTheText => ExecutionsFollowTheText'
  BY <1>1 DEF ExecutionsFollowTheText
<1>9. QED BY <1>3, <1>4, <1>5, <1>6, <1>7, <1>8

LEMMA TextsGrow ==
    ASSUME NEW i \in Nat, NEW j \in Nat, i <= j
    PROVE  TextsBelow(i) \subseteq TextsBelow(j)
<1>1. \A k \in Indexes : k < i => k < j
  BY StoryAssumption DEF Indexes
<1>2. QED BY <1>1 DEF TextsBelow, Written

\* A prefix of the book is counted.
LEMMA PrefixCounted == ASSUME NEW n \in Nat, Written = 0 .. n - 1 PROVE Current = n
<1>1. Cardinality(0 .. n - 1) = IF 0 > n - 1 THEN 0 ELSE (n - 1) - 0 + 1
  BY FS_Interval
<1>2. QED BY <1>1 DEF Current

\* Storing a chapter, that of the checkpoint, keeps the prefix.
LEMMA StoredInOrder ==
    ASSUME InOrder, NEW i \in Indexes, i = Current \/ i + 1 = Current,
           Written' = Written \cup {i}
    PROVE  InOrder' /\ Current' = i + 1
<1>. USE StoryAssumption DEF Indexes
<1>1. Current \in Nat
  BY CurrentIsAPosition
<1>2. Written' = 0 .. (i + 1) - 1
  <2>1. Written' = (0 .. Current - 1) \cup {i} /\ i \in Nat
    BY DEF InOrder
  <2>2. \A k : k \in (0 .. Current - 1) \cup {i} <=> k \in 0 .. (i + 1) - 1
    BY <1>1, <2>1
  <2>3. QED BY <2>1, <2>2
<1>3. Current' = i + 1
  <2>1. Cardinality(0 .. (i + 1) - 1) = i + 1
    <3>1. Cardinality(0 .. i) = IF 0 > i THEN 0 ELSE i - 0 + 1
      BY FS_Interval
    <3>2. (i + 1) - 1 = i
      OBVIOUS
    <3>3. QED BY <3>1, <3>2
  <2>2. QED BY <1>2, <2>1 DEF Current
<1>4. QED BY <1>2, <1>3 DEF InOrder

\* A context is of the texts before its chapter.
LEMMA ContextIsOfTextsBelow ==
    ASSUME TypeOK, RowsOfTheTexts, StatesFollow, NEW i \in Indexes,
           NEW m \in Context(i)
    PROVE  m.of \subseteq TextsBelow(i)
<1>1. m \in Memories /\ m \in memories /\ m.index \in Indexes
  BY DEF Context, LatestState, RecentChapters, HistoricalSummaries, States, TypeOK, Memories
<1>2. m.index \in Nat /\ i \in Nat /\ m.index < i
  BY <1>1, StoryAssumption
  DEF Context, LatestState, RecentChapters, HistoricalSummaries, Indexes
<1>3. CASE m.kind = "story_state"
  <2>1. m.of \subseteq TextsBelow(m.index + 1)
    BY <1>1, <1>3 DEF StatesFollow, States
  <2>2. \A k \in Indexes : k < m.index + 1 => k < i
    BY <1>2, StoryAssumption DEF Indexes
  <2>3. TextsBelow(m.index + 1) \subseteq TextsBelow(i)
    BY <2>2 DEF TextsBelow, Written
  <2>4. QED BY <2>1, <2>3
<1>4. CASE m.kind # "story_state"
  <2>1. chapters[m.index] # None /\ m.of = {chapters[m.index].text}
    BY <1>1, <1>4 DEF RowsOfTheTexts
  <2>2. QED BY <1>1, <1>2, <2>1 DEF TextsBelow, Written
<1>5. QED BY <1>3, <1>4

\* A chapter that is stored changes nothing before it; the one state is of the
\* texts up to it; the execution it had is gone.
LEMMA ReplaceFollows ==
    ASSUME TypeOK, ExecutionsFollowTheText, NEW i \in Indexes, NEW chapter \in Chapters,
           NEW context \in SUBSET Memories, ReplaceChapter(i, chapter, context),
           chapter.text = stored + 1,
           \A m \in context : m.of \subseteq TextsBelow(i) \/ m.kind # "story_state"
    PROVE  /\ TextsBelow(i)' = TextsBelow(i)
           /\ Plain(Context(i))' = Plain(Context(i))
           /\ StatesFollow'
           /\ ExecutionsFollowTheText'
<1>1. /\ chapters' = [chapters EXCEPT ![i] = chapter]
      /\ chapters'[i] = chapter /\ chapter # None
      /\ \A j \in Indexes : j # i => chapters'[j] = chapters[j]
  BY NoneAssumption DEF ReplaceChapter, TypeOK
<1>2. i \in Nat /\ ~(i < i) /\ i < i + 1 /\ \A k \in Indexes : k < i => k < i + 1 /\ k # i
  BY StoryAssumption DEF Indexes
<1>3. TextsBelow(i)' = TextsBelow(i)
  <2>1. {k \in Written' : k < i} = {k \in Written : k < i}
    BY <1>1, <1>2 DEF Written
  <2>2. \A k \in {k \in Written : k < i} : chapters'[k] = chapters[k]
    BY <1>1, <1>2 DEF Written
  <2>3. QED BY <2>1, <2>2 DEF TextsBelow
<1>4. TextsBelow(i) \cup {stored + 1} \subseteq TextsBelow(i + 1)'
  <2>1. TextsBelow(i)' \subseteq TextsBelow(i + 1)'
    BY <1>2 DEF TextsBelow, Written
  <2>2. stored + 1 \in TextsBelow(i + 1)'
    BY <1>1, <1>2 DEF TextsBelow, Written
  <2>3. QED BY <1>3, <2>1, <2>2
<1>5. \A m \in Plain(memories') \cup Plain(memories) :
         m.index # i => (m \in memories' <=> m \in memories)
  BY DEF ReplaceChapter, Replaced, ChapterMemories, States, Continuity, MemoriesOf,
         StateAfter, Row, Plain
<1>6. Plain(Context(i))' = Plain(Context(i))
  <2>1. \A m : m \in Plain(Context(i)) <=>
          m \in Plain(memories) /\ (m \in RecentChapters(i) \/ m \in HistoricalSummaries(i))
    BY DEF Plain, Context, LatestState, States, RecentChapters, HistoricalSummaries
  <2>2. \A m : m \in Plain(Context(i))' <=>
          m \in Plain(memories') /\ (m \in RecentChapters(i)' \/ m \in HistoricalSummaries(i)')
    BY DEF Plain, Context, LatestState, States, RecentChapters, HistoricalSummaries
  <2>3. \A m \in Memories : m.index < i \/ m.index + Recent < i => m.index # i
    BY StoryAssumption DEF Memories, Indexes
  <2>4. memories \subseteq Memories
    BY DEF TypeOK
  <2>5. memories' \subseteq Memories
    BY ReplaceIsTyped
  <2>6. ASSUME NEW m \in Memories, m.kind # "story_state"
        PROVE  /\ m \in RecentChapters(i) <=> m \in RecentChapters(i)'
               /\ m \in HistoricalSummaries(i) <=> m \in HistoricalSummaries(i)'
    BY <1>5, <2>3, <2>6 DEF Plain, RecentChapters, HistoricalSummaries
  <2>7. ASSUME NEW m PROVE m \in Plain(Context(i)) <=> m \in Plain(Context(i))'
    <3>1. CASE m \in Memories /\ m.kind # "story_state"
      BY <2>1, <2>2, <2>6, <3>1 DEF Plain, RecentChapters, HistoricalSummaries
    <3>2. CASE ~(m \in Memories /\ m.kind # "story_state")
      BY <2>1, <2>2, <2>4, <2>5, <3>2 DEF Plain
    <3>3. QED BY <3>1, <3>2
  <2>8. QED BY <2>7
<1>7. StatesFollow'
  <2>1. ASSUME NEW m \in States' PROVE m = StateAfter(context, i, stored + 1)
    BY <2>1 DEF States, ReplaceChapter, Replaced, Continuity, MemoriesOf, Row
  <2>2. PreviousTexts(context) \subseteq TextsBelow(i)
    BY DEF PreviousTexts
  <2>3. QED BY <1>4, <2>1, <2>2 DEF StatesFollow, StateAfter, Row
<1>8. ExecutionsFollowTheText'
  BY <1>1 DEF ExecutionsFollowTheText, ReplaceChapter, TypeOK
<1>9. QED BY <1>3, <1>6, <1>7, <1>8

\* The checkpoint keeps its context when the position of the tables is put over it.
LEMMA PlacedFollows ==
    ASSUME TypeOK, ~sync, Positioned, ContextFollows
    PROVE  /\ Placed(Current).index = Current
           /\ Placed(Current).draft = ckpt.draft
           /\ Placed(Current).context = ckpt.context
           /\ ckpt.context # {} => Placed(Current).retrieved \/ ckpt.draft
           /\ \A m \in ckpt.context : m.of \subseteq TextsBelow(Current)
<1>1. Current \in Nat /\ ckpt.index \in Nat /\ ckpt.index <= Current
  BY CurrentIsAPosition, StoryAssumption DEF Positioned, TypeOK
<1>2. TextsBelow(ckpt.index) \subseteq TextsBelow(Current)
  BY <1>1, TextsGrow
<1>3. ckpt.context # {} => (ckpt.retrieved /\ Current = ckpt.index) \/ ckpt.draft
  BY DEF Positioned
<1>4. /\ Placed(Current).index = Current
      /\ Placed(Current).draft = ckpt.draft
      /\ Placed(Current).context = ckpt.context
      /\ Placed(Current).retrieved = (ckpt.retrieved /\ Current = ckpt.index)
  BY DEF Placed, TypeOK
<1>5. QED BY <1>2, <1>3, <1>4 DEF ContextFollows

LEMMA FollowsStep ==
    ASSUME ~MidChapterRewrites, Typed, RowsOfTheTexts, Follows, [Next]_vars
    PROVE  Follows'
<1>. USE StoryAssumption, NoneAssumption
<1>1. TypeOK /\ Promised /\ memories \subseteq Memories
  BY DEF Typed, TypeOK
<1>2. ASSUME UNCHANGED dbVars, Positioned', ContextFollows', LastFollows' PROVE Follows'
  BY <1>2, BookUnchanged DEF Follows
<1>3. CASE UNCHANGED <<dbVars, sync, ckpt>>
  <2>1. Positioned' /\ ContextFollows'
    BY <1>3, BookUnchanged DEF Follows, Positioned, ContextFollows
  <2>2. LastFollows'
    BY <1>3 DEF Follows, LastFollows, dbVars
  <2>3. QED BY <1>2, <1>3, <2>1, <2>2
<1>4. ASSUME UNCHANGED dbVars, ckpt' = Rewound(Current) PROVE Follows'
  <2>1. /\ ckpt'.index = Current /\ ckpt'.next # "reconcile" /\ ckpt'.context = {}
    BY <1>4, RewindIsTyped DEF Typed
  <2>2. Positioned' /\ ContextFollows' /\ LastFollows'
    BY <1>4, <2>1, BookUnchanged DEF Positioned, ContextFollows, LastFollows
  <2>3. QED BY <1>2, <1>4, <2>2
<1>5. ASSUME UNCHANGED <<dbVars, sync>>, ~sync,
             NEW next \in Nodes \ {"reconcile"}, ckpt' = [Placed(Current) EXCEPT !.next = next]
      PROVE  Follows'
  <2>1. /\ ckpt'.index = Current /\ ckpt'.draft = ckpt.draft /\ ckpt'.context = ckpt.context
        /\ ckpt'.retrieved = Placed(Current).retrieved /\ ckpt'.next = next
    BY <1>1, <1>5, PlacedFollows DEF Follows, Placed, TypeOK
  <2>2. Positioned'
    BY <1>1, <1>5, <2>1, PlacedFollows, BookUnchanged DEF Follows, Positioned
  <2>3. ContextFollows'
    BY <1>1, <1>5, <2>1, PlacedFollows, BookUnchanged DEF Follows, ContextFollows
  <2>4. LastFollows'
    BY <1>5, <2>1 DEF LastFollows
  <2>5. QED BY <1>2, <1>5, <2>2, <2>3, <2>4
<1>6. CASE Reconcile
  BY <1>4, <1>6 DEF Reconcile
<1>7. CASE Restart
  <2>1. PICK next \in Nodes \ {"reconcile"} : ckpt' = [Placed(Current) EXCEPT !.next = next]
    BY <1>7 DEF Restart, Nodes
  <2>2. QED BY <1>5, <1>7, <2>1 DEF Restart
<1>8. CASE Start
  <2>1. /\ ckpt'.index = ckpt.index /\ ckpt'.draft = ckpt.draft /\ ckpt'.context = ckpt.context
        /\ ckpt'.retrieved = ckpt.retrieved /\ ckpt'.last = ckpt.last
        /\ ckpt'.next = "reconcile" => ckpt.next = "reconcile"
    BY <1>1, <1>8 DEF Start, TypeOK
  <2>2. UNCHANGED <<dbVars, sync>>
    BY <1>8 DEF Start
  <2>3. Positioned' /\ ContextFollows'
    BY <2>1, <2>2, BookUnchanged DEF Follows, Positioned, ContextFollows
  <2>4. LastFollows'
    BY <2>1, <2>2 DEF Follows, LastFollows, dbVars
  <2>5. QED BY <1>2, <2>2, <2>3, <2>4
<1>9. CASE CheckProgress
  <2>1. UNCHANGED <<dbVars, sync>> /\ ~sync
    BY <1>1, <1>9 DEF CheckProgress, Promised
  <2>2. CASE ckpt' = Rewound(Current)
    BY <1>4, <2>1, <2>2
  <2>3. CASE Current = Total /\ ckpt' = [Placed(Total) EXCEPT !.next = "end"]
    BY <1>5, <2>1, <2>3 DEF Nodes
  <2>4. CASE ckpt' = [Placed(Current) EXCEPT !.next = "router", !.draft = FALSE, !.context = {}]
    <3>1. ckpt'.index = Current /\ ckpt'.context = {} /\ ckpt'.next = "router"
      BY <1>1, <2>4 DEF Placed, TypeOK
    <3>2. Positioned' /\ ContextFollows' /\ LastFollows'
      BY <2>1, <3>1, BookUnchanged DEF Positioned, ContextFollows, LastFollows
    <3>3. QED BY <1>2, <2>1, <3>2
  <2>5. QED BY <1>9, <2>2, <2>3, <2>4 DEF CheckProgress
<1>10. CASE Retrieve
  <2>1. UNCHANGED <<dbVars, sync>> /\ ckpt.index \in Indexes
    BY <1>1, <1>10 DEF Retrieve, Promised
  <2>2. /\ ckpt'.context = Context(ckpt.index) /\ ckpt'.index = ckpt.index /\ ckpt'.retrieved
        /\ ckpt'.draft = ckpt.draft /\ ckpt'.next = ckpt.next /\ ckpt.next = "router"
    BY <1>1, <1>10 DEF Retrieve, TypeOK
  <2>3. \A m \in Context(ckpt.index) : m.of \subseteq TextsBelow(ckpt.index)
    BY <1>1, <2>1, ContextIsOfTextsBelow DEF Follows
  <2>4. Positioned' /\ ContextFollows' /\ LastFollows'
    BY <2>1, <2>2, <2>3, BookUnchanged DEF Follows, Positioned, ContextFollows, LastFollows
  <2>5. QED BY <1>2, <2>1, <2>4
<1>11. CASE WriteChapter
  <2>1. UNCHANGED <<dbVars, sync>>
    BY <1>11 DEF WriteChapter
  <2>2. /\ ckpt'.context = ckpt.context /\ ckpt'.index = ckpt.index
        /\ ckpt'.retrieved = ckpt.retrieved /\ ckpt'.draft /\ ckpt'.next = "persist"
    BY <1>1, <1>11 DEF WriteChapter, TypeOK
  <2>3. Positioned' /\ ContextFollows' /\ LastFollows'
    BY <2>1, <2>2, BookUnchanged DEF Follows, Positioned, ContextFollows, LastFollows
  <2>4. QED BY <1>2, <2>1, <2>3
<1>12. CASE Persist
  <2>1. PICK i \in Indexes : i = ckpt.index
    BY <1>1, <1>12 DEF Persist, Promised
  <2>2. ckpt.context \in SUBSET Memories /\ ckpt.draft /\ ~sync /\ sync' = sync
    BY <1>1, <1>12 DEF Persist, TypeOK, Promised
  <2>3. ReplaceChapter(i, Fresh, ckpt.context)
    BY <1>12, <2>1 DEF Persist
  <2>4. Fresh \in Chapters /\ Fresh.text = stored + 1
    BY <1>1, <2>3 DEF Fresh, Chapters, ReplaceChapter, TypeOK, Texts
  <2>5. \A m \in ckpt.context : m.of \subseteq TextsBelow(i)
    BY <2>1, <2>2 DEF Follows, ContextFollows
  <2>6. TextsBelow(i)' = TextsBelow(i) /\ StatesFollow' /\ ExecutionsFollowTheText'
    BY <1>1, <2>2, <2>3, <2>4, <2>5, ReplaceFollows DEF Follows
  <2>7. InOrder' /\ Current' = i + 1
    <3>1. Written' = Written \cup {i}
      BY <1>1, <2>3, <2>4 DEF ReplaceChapter, Written, TypeOK
    <3>2. i = Current \/ i + 1 = Current
      BY <2>1, <2>2 DEF Follows, Positioned
    <3>3. QED BY <3>1, <3>2, StoredInOrder DEF Follows
  <2>8. CASE ckpt' = ckpt
    <3>1. Positioned'
      BY <2>1, <2>2, <2>7, <2>8 DEF Positioned
    <3>2. ContextFollows'
      BY <2>1, <2>5, <2>6, <2>8 DEF ContextFollows
    <3>3. LastFollows'
      BY <1>12, <2>8 DEF Persist, LastFollows
    <3>4. QED BY <2>6, <2>7, <3>1, <3>2, <3>3 DEF Follows
  <2>9. CASE ckpt' = [index |-> i + 1, next |-> "reconcile", draft |-> FALSE,
                      retrieved |-> FALSE, context |-> {}, last |-> stored']
    <3>1. chapters'[i] = Fresh /\ stored' = stored + 1 /\ (i + 1) - 1 = i
      BY <1>1, <2>3 DEF ReplaceChapter, TypeOK, Indexes
    <3>2. LastFollows'
      BY <2>4, <2>9, <3>1 DEF LastFollows
    <3>3. Positioned' /\ ContextFollows'
      BY <2>7, <2>9 DEF Positioned, ContextFollows
    <3>4. QED BY <2>6, <2>7, <3>2, <3>3 DEF Follows
  <2>10. QED BY <1>12, <2>1, <2>8, <2>9 DEF Persist
<1>13. CASE ReconcilePlan
  <2>1. UNCHANGED <<chapters, memories, sync>> /\ ~sync /\ ckpt.index - 1 \in Indexes
    BY <1>1, <1>13 DEF ReconcilePlan, Promised, TypeOK, Indexes
  <2>2. /\ ckpt'.context = ckpt.context /\ ckpt'.retrieved = ckpt.retrieved
        /\ ckpt'.draft = ckpt.draft /\ ckpt'.index = ckpt.index /\ ckpt'.last = ckpt.last
    BY <1>1, <1>13 DEF ReconcilePlan, TypeOK
  <2>3. chapters[ckpt.index - 1] # None /\ chapters[ckpt.index - 1].text = ckpt.last
    BY <1>13, <2>1 DEF ReconcilePlan, Follows, LastFollows
  <2>4. ExecutionsFollowTheText'
    BY <1>1, <1>13, <2>1, <2>3 DEF ReconcilePlan, Follows, ExecutionsFollowTheText, TypeOK
  <2>5. StatesFollow' /\ InOrder'
    BY <2>1 DEF Follows, StatesFollow, InOrder, Current, States, TextsBelow, Written
  <2>6. Positioned' /\ ContextFollows'
    BY <2>1, <2>2 DEF Follows, Positioned, ContextFollows, Current, TextsBelow, Written
  <2>7. QED BY <2>1, <2>2, <2>3, <2>4, <2>5, <2>6 DEF Follows, LastFollows
<1>14. ASSUME NEW e \in Editors, Edit(e) PROVE Follows'
  <2>1. States' = {}
    BY <1>14 DEF Edit, EditedMemories, MemoriesOf, Row, States
  <2>2. sync' = TRUE /\ ckpt' = ckpt
    BY <1>14 DEF Edit
  <2>3. ExecutionsFollowTheText'
    BY <1>1, <1>14 DEF Edit, MayEdit, Follows, ExecutionsFollowTheText, TypeOK
  <2>4. Written' = Written
    BY <1>1, <1>14, EditGivesText DEF GivenText, Written, TypeOK, Edit, MayEdit, Typed
  <2>5. InOrder'
    BY <2>4 DEF Follows, InOrder, Current
  <2>6. QED
    BY <2>1, <2>2, <2>3, <2>5 DEF Follows, StatesFollow, Positioned, ContextFollows, LastFollows
<1>15. ASSUME NEW k \in Indexes, Delete(k) PROVE Follows'
  <2>1. States' = {}
    BY <1>15 DEF Delete, DeletedFrom, States
  <2>2. sync' = TRUE /\ ckpt' = ckpt
    BY <1>15 DEF Delete
  <2>3. ExecutionsFollowTheText'
    BY <1>1, <1>15 DEF Delete, Follows, ExecutionsFollowTheText, TypeOK
  <2>4. Written' = 0 .. k - 1
    <3>1. Written' = {i \in Written : i < k}
      BY <1>15 DEF Delete, Written, Indexes
    <3>2. k \in Written /\ Written = 0 .. Current - 1 /\ Current \in Nat
      BY <1>15, CurrentIsAPosition DEF Delete, Follows, InOrder, Written
    <3>3. QED BY <3>1, <3>2 DEF Indexes
  <2>5. InOrder'
    <3>1. k \in Nat /\ k - 1 \in Int
      BY DEF Indexes
    <3>2. Cardinality(0 .. k - 1) = IF 0 > k - 1 THEN 0 ELSE (k - 1) - 0 + 1
      BY <3>1, FS_Interval
    <3>3. Current' = k
      BY <2>4, <3>1, <3>2 DEF Current
    <3>4. QED BY <2>4, <3>3 DEF InOrder
  <2>6. QED
    BY <2>1, <2>2, <2>3, <2>5 DEF Follows, StatesFollow, Positioned, ContextFollows, LastFollows
<1>16. ASSUME NEW k \in Indexes, Rewrite(k) PROVE Follows'
  <2>1. ReplaceChapter(k, Rewritten(chapters[k]), Context(k)) /\ chapters[k] # None
    BY <1>16 DEF Rewrite
  <2>2. chapters[k] \in Chapters /\ stored + 1 \in Texts
    BY <1>1, <2>1 DEF ReplaceChapter, TypeOK, Texts
  <2>3. Rewritten(chapters[k]) \in Chapters /\ Rewritten(chapters[k]).text = stored + 1
    BY <2>2, NewVersions DEF Rewritten
  <2>4. Context(k) \in SUBSET Memories
    BY <1>1, ContextIsTyped
  <2>5. \A m \in Context(k) : m.of \subseteq TextsBelow(k)
    BY <1>1, ContextIsOfTextsBelow DEF Follows
  <2>6. StatesFollow' /\ ExecutionsFollowTheText'
    BY <1>1, <2>1, <2>3, <2>4, <2>5, ReplaceFollows DEF Follows
  <2>7. /\ ckpt' = ckpt /\ sync' = sync /\ ckpt.context = {}
        /\ ~ckpt.draft /\ ckpt.next # "reconcile"
    BY <1>16 DEF Rewrite, MayRewrite, BetweenChapters, Follows, Positioned
  <2>8. Written' = Written
    BY <1>1, <2>1, <2>3 DEF ReplaceChapter, Written, TypeOK
  <2>9. InOrder' /\ Positioned'
    BY <2>7, <2>8 DEF Follows, InOrder, Positioned, Current
  <2>10. QED BY <2>6, <2>7, <2>9 DEF Follows, ContextFollows, LastFollows
<1>17. CASE FinishRewrite
  <2>1. UNCHANGED <<chapters, memories, sync, ckpt>>
    BY <1>17 DEF FinishRewrite
  <2>2. op \in Indexes /\ chapters[op] # None
    BY <1>1, <1>17 DEF FinishRewrite, Promised, TypeOK
  <2>3. ExecutionsFollowTheText'
    BY <1>1, <1>17, <2>1, <2>2 DEF FinishRewrite, Follows, ExecutionsFollowTheText, TypeOK
  <2>4. StatesFollow' /\ InOrder' /\ Positioned' /\ ContextFollows' /\ LastFollows'
    BY <2>1 DEF Follows, StatesFollow, InOrder, Positioned, ContextFollows, LastFollows,
       Current, States, TextsBelow, Written
  <2>5. QED BY <2>3, <2>4 DEF Follows
<1>18. QED
  BY <1>3, <1>6, <1>7, <1>8, <1>9, <1>10, <1>11, <1>12, <1>13, <1>14, <1>15, <1>16, <1>17
  DEF Next, vars, Stop, Load

\* Where no chapter is rewritten while the next one waits, what the checkpoint
\* and the tables hold of the book is of the texts that are in it.
THEOREM BookFollowed ==
    ASSUME ~MidChapterRewrites
    PROVE  Spec => [](Typed /\ RowsOfTheTexts /\ Follows)
<1>. DEFINE Inv == Typed /\ RowsOfTheTexts /\ Follows
<1>1. Init => RowsOfTheTexts /\ Follows
  <2>1. Init => Written = 0 .. 0 - 1
    BY DEF Init, Written
  <2>2. Init => Current = 0
    BY <2>1, PrefixCounted
  <2>3. Init => InOrder /\ Positioned
    BY <2>1, <2>2 DEF Init, InOrder, Positioned
  <2>4. QED
    BY <2>3 DEF Init, RowsOfTheTexts, Memories, Follows, StatesFollow, States, ContextFollows,
       LastFollows, ExecutionsFollowTheText
<1>2. Typed /\ RowsOfTheTexts /\ Follows /\ [Next]_vars => RowsOfTheTexts' /\ Follows'
  BY RowsStep, FollowsStep
<1>3. QED BY <1>1, <1>2, StoryTyped, PTL DEF Spec

THEOREM StateIsOfTheTexts ==
    ASSUME ~MidChapterRewrites
    PROVE  Spec => []StateIsOfTheBook
<1>1. Follows => StateIsOfTheBook
  BY DEF Follows, StatesFollow, StateIsOfTheBook, TextsBelow, CurrentTexts
<1>2. QED BY <1>1, BookFollowed, PTL

\* No execution of a plan is of a text that was replaced.
THEOREM ExecutionsAreOfTheTexts ==
    ASSUME ~MidChapterRewrites
    PROVE  Spec => []ExecutionsFollowTheText
<1>1. Follows => ExecutionsFollowTheText
  BY DEF Follows
<1>2. QED BY <1>1, BookFollowed, PTL

\* A generation changes the chapters by storing one.
LEMMA StoringStep ==
    ASSUME [Next]_vars, gen, chapters' # chapters
    PROVE  Persist
BY DEF Next, vars, dbVars, Reconcile, Restart, Start, Stop, CheckProgress, Retrieve,
   WriteChapter, ReconcilePlan, Load, Edit, Delete, Rewrite, MayRewrite, FinishRewrite, GateFree

\* A chapter is stored from a context in which nothing is of a replaced text, even
\* when the draft of a chapter is stored as the next one after a restart.
LEMMA ContextsAreOfTheBook ==
    ASSUME Typed, Follows, gen, NEW m \in ckpt.context
    PROVE  m.of \subseteq CurrentTexts
<1>1. ~sync
  BY DEF Typed, Promised
<1>2. TextsBelow(ckpt.index) \subseteq CurrentTexts
  BY DEF TextsBelow, CurrentTexts
<1>3. QED BY <1>1, <1>2 DEF Follows, ContextFollows

-----------------------------------------------------------------------------
(* Complete contexts, until a fresh input or a replan comes. *)

\* Only the draft of the chapter and what was retrieved for it lead to persist_node.
Undisturbed ==
    /\ ckpt.retrieved => ckpt.next \in {"router", "persist"}
    /\ ckpt.draft => ckpt.next = "persist"
    /\ ckpt.next = "persist" => ckpt.retrieved
    /\ ~sync /\ ckpt.retrieved => Plain(ckpt.context) = Plain(Context(ckpt.index))

\* A draft never comes to the retrieval, after which all is well again.
Complete ==
    /\ ckpt.next = "router" => ~ckpt.draft
    /\ ~restarted => Undisturbed

LEMMA UndisturbedStep ==
    ASSUME ~MidChapterRewrites, Typed, Follows, Undisturbed, Next, ~Restart, ~Retrieve
    PROVE  Undisturbed'
<1>. USE StoryAssumption, NoneAssumption
<1>1. TypeOK /\ Promised
  BY DEF Typed
<1>2. CASE UNCHANGED <<dbVars, sync, ckpt>>
  BY <1>2, BookUnchanged DEF Undisturbed, Plain
<1>3. ASSUME ckpt' = Rewound(Current) PROVE Undisturbed'
  BY <1>3, RewindIsTyped DEF Typed, Undisturbed
<1>4. CASE Start
  <2>1. ckpt' = ckpt
    BY <1>1, <1>4 DEF Start, Undisturbed, TypeOK
  <2>2. QED BY <1>2, <1>4, <2>1 DEF Start
<1>5. CASE CheckProgress
  <2>1. ~ckpt.draft /\ ~ckpt.retrieved
    BY <1>5 DEF CheckProgress, Undisturbed
  <2>2. CASE ckpt' = Rewound(Current)
    BY <1>3, <2>2
  <2>3. CASE ckpt' = [Placed(Total) EXCEPT !.next = "end"]
    <3>1. ~ckpt'.draft /\ ~ckpt'.retrieved /\ ckpt'.next = "end"
      BY <1>1, <2>1, <2>3 DEF Placed, TypeOK
    <3>2. QED BY <3>1 DEF Undisturbed
  <2>4. CASE ckpt' = [Placed(Current) EXCEPT !.next = "router", !.draft = FALSE, !.context = {}]
    <3>1. ~ckpt'.draft /\ ~ckpt'.retrieved /\ ckpt'.next = "router"
      BY <1>1, <2>1, <2>4 DEF Placed, TypeOK
    <3>2. QED BY <3>1 DEF Undisturbed
  <2>5. QED BY <1>5, <2>2, <2>3, <2>4 DEF CheckProgress
<1>6. CASE WriteChapter
  <2>1. /\ ckpt'.context = ckpt.context /\ ckpt'.index = ckpt.index /\ ckpt'.retrieved
        /\ ckpt'.next = "persist" /\ ckpt.retrieved
    BY <1>1, <1>6 DEF WriteChapter, TypeOK
  <2>2. Context(ckpt.index)' = Context(ckpt.index) /\ sync' = sync
    BY <1>6, <2>1, BookUnchanged DEF WriteChapter
  <2>3. QED BY <2>1, <2>2 DEF Undisturbed, Plain
<1>7. CASE Persist
  <2>1. PICK i \in Indexes : i = ckpt.index
    BY <1>1, <1>7 DEF Persist, Promised
  <2>2. ckpt.context \in SUBSET Memories /\ ~sync /\ ckpt.retrieved
    BY <1>1, <1>7 DEF Persist, TypeOK, Promised, Undisturbed
  <2>3. ReplaceChapter(i, Fresh, ckpt.context)
    BY <1>7, <2>1 DEF Persist
  <2>4. Fresh \in Chapters /\ Fresh.text = stored + 1
    BY <1>1, <2>3 DEF Fresh, Chapters, ReplaceChapter, TypeOK, Texts
  <2>5. \A m \in ckpt.context : m.of \subseteq TextsBelow(i)
    BY <2>1, <2>2 DEF Follows, ContextFollows
  <2>6. Plain(Context(i))' = Plain(Context(i))
    BY <1>1, <2>2, <2>3, <2>4, <2>5, ReplaceFollows DEF Follows
  <2>7. CASE ckpt' = ckpt
    <3>1. Plain(ckpt.context) = Plain(Context(i))
      BY <2>1, <2>2 DEF Undisturbed
    <3>2. ckpt'.index = i /\ Plain(ckpt'.context) = Plain(ckpt.context)
      BY <2>1, <2>7
    <3>3. QED BY <2>6, <2>7, <3>1, <3>2 DEF Undisturbed, Plain
  <2>8. CASE ckpt' = [index |-> i + 1, next |-> "reconcile", draft |-> FALSE,
                      retrieved |-> FALSE, context |-> {}, last |-> stored']
    BY <2>8 DEF Undisturbed
  <2>9. QED BY <1>7, <2>1, <2>7, <2>8 DEF Persist
<1>8. CASE ReconcilePlan
  <2>1. ~ckpt.draft /\ ~ckpt.retrieved
    BY <1>8 DEF ReconcilePlan, Undisturbed
  <2>2. ~ckpt'.draft /\ ~ckpt'.retrieved /\ ckpt'.next \in {"reconcile", "progress"}
    BY <1>1, <1>8, <2>1 DEF ReconcilePlan, TypeOK
  <2>3. QED BY <2>2 DEF Undisturbed
<1>9. ASSUME ckpt' = ckpt, sync' = TRUE PROVE Undisturbed'
  BY <1>9 DEF Undisturbed
<1>10. ASSUME ckpt' = ckpt, ~ckpt.retrieved PROVE Undisturbed'
  BY <1>10 DEF Undisturbed
<1>11. ASSUME UNCHANGED <<chapters, memories, sync, ckpt>> PROVE Undisturbed'
  <2>1. Context(ckpt.index)' = Context(ckpt.index)
    BY <1>11 DEF Context, LatestState, States, RecentChapters, HistoricalSummaries
  <2>2. QED BY <1>11, <2>1 DEF Undisturbed, Plain
<1>12. QED
  BY <1>2, <1>3, <1>4, <1>5, <1>6, <1>7, <1>8, <1>9, <1>10, <1>11
  DEF Next, vars, Reconcile, Stop, Load, Edit, Delete, Rewrite, MayRewrite, BetweenChapters,
      FinishRewrite

\* What is retrieved is complete, whatever was before.
LEMMA RetrievalCompletes ==
    ASSUME Typed, Complete, Retrieve
    PROVE  Undisturbed'
<1>1. /\ ckpt'.context = Context(ckpt.index) /\ ckpt'.index = ckpt.index
      /\ ckpt'.draft = ckpt.draft /\ ckpt'.next = "router" /\ ckpt.next = "router"
  BY DEF Typed, Retrieve, TypeOK
<1>2. Context(ckpt.index)' = Context(ckpt.index)
  BY <1>1, BookUnchanged DEF Retrieve
<1>3. QED BY <1>1, <1>2 DEF Complete, Undisturbed, Plain

\* No step leads to the retrieval with a draft.
LEMMA DraftsStayAway ==
    ASSUME Typed, Complete, Next
    PROVE  (ckpt.next = "router" => ~ckpt.draft)'
<1>1. CASE ckpt' = Rewound(Current)
  BY <1>1, RewindIsTyped
<1>2. CASE Restart
  <2>1. ckpt'.next \in {"progress", "persist"}
    BY <1>2 DEF Restart, Placed, Typed, TypeOK
  <2>2. QED BY <2>1
<1>3. CASE CheckProgress
  <2>1. CASE ckpt' = [Placed(Total) EXCEPT !.next = "end"]
    <3>1. ckpt'.next = "end"
      BY <2>1 DEF Placed, Typed, TypeOK
    <3>2. QED BY <3>1
  <2>2. CASE ckpt' = [Placed(Current) EXCEPT !.next = "router", !.draft = FALSE, !.context = {}]
    <3>1. ~ckpt'.draft
      BY <2>2 DEF Placed, Typed, TypeOK
    <3>2. QED BY <3>1
  <2>3. QED BY <1>1, <1>3, <2>1, <2>2 DEF CheckProgress
<1>4. CASE Start
  <2>1. ckpt'.draft = ckpt.draft /\ ckpt'.next \in {ckpt.next, "persist"}
    BY <1>4 DEF Start, Typed, TypeOK
  <2>2. QED BY <2>1 DEF Complete
<1>5. CASE Retrieve \/ WriteChapter
  <2>1. CASE Retrieve
    <3>1. ckpt'.draft = ckpt.draft /\ ckpt.next = "router"
      BY <2>1 DEF Retrieve, Typed, TypeOK
    <3>2. QED BY <3>1 DEF Complete
  <2>2. CASE WriteChapter
    <3>1. ckpt'.next = "persist"
      BY <2>2 DEF WriteChapter, Typed, TypeOK
    <3>2. QED BY <3>1
  <2>3. QED BY <1>5, <2>1, <2>2
<1>6. CASE Persist
  <2>1. CASE ckpt' = ckpt
    BY <1>6, <2>1 DEF Persist
  <2>2. CASE ckpt' = [index |-> ckpt.index + 1, next |-> "reconcile", draft |-> FALSE,
                      retrieved |-> FALSE, context |-> {}, last |-> stored']
    <3>1. ckpt'.next = "reconcile"
      BY <2>2
    <3>2. QED BY <3>1
  <2>3. QED BY <1>6, <2>1, <2>2 DEF Persist
<1>7. CASE ReconcilePlan
  <2>1. ckpt'.next \in {"reconcile", "progress"}
    BY <1>7 DEF ReconcilePlan, Typed, TypeOK
  <2>2. QED BY <2>1
<1>8. CASE UNCHANGED ckpt
  BY <1>8 DEF Complete
<1>9. QED
  BY <1>1, <1>2, <1>3, <1>4, <1>5, <1>6, <1>7, <1>8
  DEF Next, Reconcile, Stop, Load, Edit, Delete, Rewrite, FinishRewrite

LEMMA CompleteStep ==
    ASSUME ~MidChapterRewrites, Typed, Follows, Complete, [Next]_vars
    PROVE  Complete'
<1>1. CASE UNCHANGED vars
  BY <1>1, BookUnchanged DEF vars, Complete, Undisturbed, Plain
<1>2. CASE Next
  <2>1. CASE Restart
    BY <1>2, <2>1, DraftsStayAway DEF Complete, Restart
  <2>2. CASE Retrieve
    BY <1>2, <2>2, DraftsStayAway, RetrievalCompletes DEF Complete
  <2>3. CASE ~Restart /\ ~Retrieve
    <3>1. restarted' = restarted
      BY <1>2, <2>3
      DEF Next, Reconcile, Start, Stop, CheckProgress, WriteChapter, Persist, ReconcilePlan,
          Load, Edit, Delete, Rewrite, FinishRewrite
    <3>2. CASE restarted
      BY <1>2, <3>1, <3>2, DraftsStayAway DEF Complete
    <3>3. CASE ~restarted
      BY <1>2, <2>3, <3>1, <3>3, DraftsStayAway, UndisturbedStep DEF Complete
    <3>4. QED BY <3>2, <3>3
  <2>4. QED BY <2>1, <2>2, <2>3
<1>3. QED BY <1>1, <1>2

\* A chapter is stored from a context in which nothing is of a replaced text and,
\* unless a fresh input or a replan came after it was read, nothing is missing: it
\* has the chapters and summaries before the chapter as they are by then.
THEOREM ContextsAreCurrent ==
    ASSUME ~MidChapterRewrites
    PROVE  Spec => ContextIsCurrent
<1>1. Init => Complete
  BY DEF Init, Complete, Undisturbed
<1>2. Typed /\ Follows /\ Complete /\ [Next]_vars => Complete'
  BY CompleteStep
<1>3. ASSUME Typed, Complete, [Next]_vars, gen, chapters' # chapters, ~restarted
      PROVE  Plain(ckpt.context) = Plain(Context(ckpt.index))
  BY <1>3, StoringStep DEF Typed, Promised, Complete, Undisturbed, Persist
<1>4. Typed /\ Follows /\ Complete /\ [Next]_vars =>
        [gen /\ chapters' # chapters =>
           /\ \A m \in ckpt.context : m.of \subseteq CurrentTexts
           /\ ~restarted => Plain(ckpt.context) = Plain(Context(ckpt.index))]_vars
  BY <1>3, ContextsAreOfTheBook
<1>5. QED BY <1>1, <1>2, <1>4, BookFollowed, PTL DEF Spec, ContextIsCurrent
=============================================================================
