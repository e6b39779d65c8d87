------------------------- MODULE CheckpointSyncProofs -------------------------
(***************************************************************************)
(* What holds of the checkpoint and its requests for any length of book    *)
(* and any number of polling clients, with uninformed starts, lost commits *)
(* and failing reconciliations.                                            *)
(***************************************************************************)
EXTENDS CheckpointSync, TLAPS

-----------------------------------------------------------------------------
(* Types. *)

\* What a state of the graph promises its next node: a review has a draft, and
\* the router a chapter of the book to write.
Sound(state) ==
    state # None => /\ state.next = "review" => state.draft # None
                    /\ state.next = "router" => state.index \in Indexes

TypeInv ==
    /\ TypeOK
    /\ Sound(ckpt) /\ Sound(run)
    /\ gen \in {"running", "persisted"} => run # None
    /\ gen = "persisted" => run.index \in Indexes
    /\ \A a \in Reconcilers : rec[a] \in {"rewind", "clear"} => request[a] # None

LEMMA PositionFacts ==
    /\ 0 \in Positions
    /\ \A i \in Indexes : i \in Positions /\ i + 1 \in Positions
  BY CheckpointAssumption DEF Indexes, Positions

\* The graph's own steps: what they write is a sound state.
LEMMA GraphTypes ==
    ASSUME TypeInv,
           SetUp \/ PersistSetup \/ ChapterCommitted \/ Check \/ Write \/ Review
    PROVE  /\ run' \in Checkpoints /\ Sound(run') /\ ckpt' = run'
           /\ gen' = "running"
           /\ UNCHANGED <<dbVars, asked, opVars, recVars>>
<1>. USE CheckpointAssumption DEF TypeInv, TypeOK, Checkpoints, Sound, Commit, At
<1>1. ASSUME run \in Checkpoints, SetUp \/ PersistSetup
      PROVE  run' \in Checkpoints /\ Sound(run')
  BY <1>1 DEF SetUp, PersistSetup, Nodes
<1>2. ASSUME run \in Checkpoints, ChapterCommitted
      PROVE  run' \in Checkpoints /\ Sound(run')
  BY <1>2 DEF ChapterCommitted, Nodes, Indexes, Positions
<1>3. ASSUME run \in Checkpoints, Check
      PROVE  run' \in Checkpoints /\ Sound(run')
  BY <1>3 DEF Check, Trusted, Nodes, Indexes, Positions
<1>4. ASSUME run \in Checkpoints, Write
      PROVE  run' \in Checkpoints /\ Sound(run')
  <2>. DEFINE written == [of |-> run.index, reviewed |-> FALSE]
  <2>1. written \in Drafts
    BY <1>4 DEF Write, Drafts
  <2>2. run' = [run EXCEPT !.draft = written, !.next = "review"]
    BY <1>4 DEF Write
  <2>. HIDE DEF written
  <2>. QED
    BY <1>4, <2>1, <2>2 DEF Nodes
<1>5. ASSUME run \in Checkpoints, Review
      PROVE  run' \in Checkpoints /\ Sound(run')
  <2>. DEFINE reviewed == [run.draft EXCEPT !.reviewed = TRUE]
  <2>1. run.draft \in Drafts
    BY <1>5 DEF Review
  <2>2. reviewed \in Drafts
    BY <2>1 DEF Drafts
  <2>3. run' = [run EXCEPT !.draft = reviewed, !.next = "persist"]
    BY <1>5 DEF Review
  <2>. HIDE DEF reviewed
  <2>. QED
    BY <1>5, <2>2, <2>3 DEF Nodes
<1>6. run \in Checkpoints
  BY DEF SetUp, PersistSetup, ChapterCommitted, Check, Write, Review
<1>7. ckpt' = run' /\ gen' = "running" /\ UNCHANGED <<dbVars, asked, opVars, recVars>>
  BY DEF SetUp, PersistSetup, ChapterCommitted, Check, Write, Review, vars, dbVars, opVars, recVars
<1>. QED
  BY <1>1, <1>2, <1>3, <1>4, <1>5, <1>6, <1>7

\* Every step keeps the types and what they rest on.
LEMMA TypeStep == TypeInv /\ [Next]_vars => TypeInv'
<1>. SUFFICES ASSUME TypeInv, [Next]_vars
              PROVE  TypeInv'
  OBVIOUS
<1>. USE CheckpointAssumption DEF TypeInv, TypeOK, Commands, Reconcilers
<1>1. ASSUME NEW kind \in {"fresh", "replan", "go on"}, Ask(kind)
      PROVE  TypeInv'
  BY <1>1 DEF Ask, dbVars, opVars, recVars, Sound
<1>2. CASE Acquire
  BY <1>2 DEF Acquire, StartReconciling, RecGoto, dbVars, opVars, Sound
<1>3. CASE Refused
  BY <1>3, PositionFacts DEF Refused, StopGeneration, NoCommand, dbVars, opVars, Sound
<1>4. CASE StartFresh
  <2>. DEFINE draft == IF ckpt = None THEN None ELSE ckpt.draft
  <2>1. draft \in Drafts \cup {None}
    BY DEF Checkpoints
  <2>2. run' = [index |-> asked.seen, draft |-> draft,
                next |-> IF asked.kind = "replan" THEN "plan" ELSE "setup"]
    BY <1>4 DEF StartFresh
  <2>3. run' \in Checkpoints /\ Sound(run')
    <3>. HIDE DEF draft
    <3>. QED
      BY <2>1, <2>2 DEF Checkpoints, Nodes, Sound
  <2>. QED
    BY <1>4, <2>3 DEF StartFresh, dbVars, opVars, recVars, Sound
<1>5. CASE GoOn
  <2>1. run' \in {ckpt, [ckpt EXCEPT !.next = "review"]}
        /\ (run' # ckpt => ckpt.draft # None)
    BY <1>5 DEF GoOn, Resumed
  <2>2. run' \in Checkpoints /\ Sound(run')
    BY <1>5, <2>1 DEF GoOn, Checkpoints, Nodes, Sound
  <2>. QED
    BY <1>5, <2>2 DEF GoOn, dbVars, opVars, recVars, Sound
<1>6. ASSUME SetUp \/ PersistSetup \/ ChapterCommitted \/ Check \/ Write \/ Review
      PROVE  TypeInv'
  <2>. HIDE DEF Reconcilers, Commands
  <2>1. /\ run' \in Checkpoints /\ Sound(run') /\ ckpt' = run'
        /\ gen' = "running"
        /\ UNCHANGED <<dbVars, asked, opVars, recVars>>
    BY <1>6, GraphTypes
  <2>. QED
    BY <2>1 DEF dbVars, opVars, recVars, Sound
<1>7. CASE PersistChapter
  <2>1. run.index \in Indexes /\ run.draft \in Drafts
    BY <1>7 DEF PersistChapter, Checkpoints, At
  <2>2. [of |-> run.draft.of, reviewed |-> run.draft.reviewed, by |-> "generation"] \in Texts
    BY <2>1 DEF Drafts, Texts
  <2>3. chapters' \in [Indexes -> Texts \cup {None}]
    BY <1>7, <2>1, <2>2 DEF PersistChapter
  <2>4. current' \in Positions /\ sync' = None /\ gen' = "persisted"
    BY <1>7, <2>1, PositionFacts DEF PersistChapter
  <2>. QED
    BY <1>7, <2>1, <2>3, <2>4 DEF PersistChapter, At, opVars, recVars, Sound
<1>8. CASE GenerationStops
  BY <1>8, PositionFacts DEF GenerationStops, StopGeneration, NoCommand, dbVars, opVars,
                             recVars, Sound
<1>9. ASSUME NEW k \in Indexes, Edit(k) \/ Delete(k) \/ Rewrite(k)
      PROVE  TypeInv'
  <2>1. rec' = [rec EXCEPT !["operation"] = "read"]
        /\ request' = [request EXCEPT !["operation"] = None]
        /\ op' = "reconciling"
        /\ UNCHANGED <<ckpt, gen, asked, run, previous>>
    BY <1>9 DEF Edit, Delete, Rewrite, ThenReconcile, StartReconciling, RecGoto, genVars
  <2>2. current' \in Positions /\ sync' \in Positions \cup {None}
    <3>1. previous.current \in Positions /\ previous.sync \in Positions \cup {None}
      OBVIOUS
    <3>2. k \in Positions
      BY PositionFacts
    <3>3. \/ current' = current /\ sync' = current
          \/ current' = k /\ sync' = k
          \/ current' = previous.current /\ sync' = previous.sync
      BY <1>9 DEF Edit, Delete, Rewrite
    <3>. QED
      BY <3>1, <3>2, <3>3
  <2>3. CASE Edit(k)
    <3>. DEFINE edited == [chapters[k] EXCEPT !.by = "edit"]
    <3>1. chapters[k] \in Texts
      BY <2>3 DEF Edit, Exists
    <3>2. edited \in Texts
      BY <3>1 DEF Texts
    <3>3. chapters' = [chapters EXCEPT ![k] = edited]
      BY <2>3 DEF Edit
    <3>. HIDE DEF edited
    <3>. QED
      BY <2>1, <2>2, <3>2, <3>3 DEF Sound
  <2>4. CASE Rewrite(k)
    <3>1. [of |-> k, reviewed |-> TRUE, by |-> "rewrite"] \in Texts
      BY DEF Texts
    <3>2. chapters' \in [Indexes -> Texts \cup {None}]
      BY <2>4, <3>1 DEF Rewrite
    <3>. QED
      BY <2>1, <2>2, <3>2 DEF Sound
  <2>5. CASE Delete(k)
    BY <2>1, <2>2, <2>5 DEF Delete, Sound
  <2>. QED
    BY <1>9, <2>3, <2>4, <2>5
<1>10. CASE StartRewrite
  BY <1>10 DEF StartRewrite, dbVars, genVars, recVars, Sound
<1>11. CASE OperationEnds
  BY <1>11, PositionFacts DEF OperationEnds, dbVars, genVars, Sound
<1>12. ASSUME NEW a \in Reconcilers, Reconcile(a)
       PROVE  TypeInv'
  <2>. HIDE DEF Reconcilers, Commands
  <2>1. CASE ReadRequest(a)
    BY <1>12, <2>1 DEF ReadRequest, RecGoto, dbVars, genVars, opVars, Sound
  <2>2. CASE Rewind(a)
    <3>1. request[a] \in Positions
      BY <1>12, <2>2 DEF Rewind
    <3>2. Rewound(request[a]) \in Checkpoints /\ Sound(Rewound(request[a]))
      BY <3>1 DEF Rewound, Checkpoints, Nodes, Sound, Indexes, Positions
    <3>3. ckpt' \in Checkpoints \cup {None} /\ Sound(ckpt')
      BY <2>2, <3>2 DEF Rewind, Sound
    <3>. QED
      BY <1>12, <2>2, <3>3 DEF Rewind, RecGoto, dbVars, genVars, opVars, Sound
  <2>3. CASE ClearRequest(a)
    BY <1>12, <2>3 DEF ClearRequest, RecGoto, genVars, opVars, Sound
  <2>4. CASE ReconcileFails(a)
    BY <1>12, <2>4 DEF ReconcileFails, RecGoto, dbVars, genVars, opVars, Sound
  <2>. QED
    BY <1>12, <2>1, <2>2, <2>3, <2>4 DEF Reconcile
<1>13. ASSUME NEW p \in Pollers, Poll(p)
       PROVE  TypeInv'
  <2>. HIDE DEF Commands
  <2>. QED
    BY <1>13 DEF Poll, StartReconciling, RecGoto, dbVars, genVars, opVars, Sound
<1>14. CASE UNCHANGED vars
  <2>. HIDE DEF Commands, Reconcilers
  <2>. QED
    BY <1>14 DEF vars, dbVars, genVars, opVars, recVars, Sound
<1>. QED
  BY <1>1, <1>2, <1>3, <1>4, <1>5, <1>6, <1>7, <1>8, <1>9, <1>10, <1>11, <1>12, <1>13, <1>14
  DEF Next, Generate, Operate

\* The type invariant, for any length of book and any number of polls.
THEOREM TypeCorrect == Spec => []TypeOK
<1>1. Init => TypeInv
  BY CheckpointAssumption
  DEF Init, TypeInv, TypeOK, Commands, NoCommand, Positions, Sound
<1>2. TypeInv => TypeOK
  BY DEF TypeInv
<1>. QED
  BY <1>1, <1>2, TypeStep, PTL DEF Spec

-----------------------------------------------------------------------------
(* The pending request. *)

\* A rewrite has read a progress whose request was current, and writes both back.
CurrentInv ==
    /\ RequestIsCurrent
    /\ previous.sync # None => previous.sync = previous.current

LEMMA CurrentStep == CurrentInv /\ [Next]_vars => CurrentInv'
<1>. SUFFICES ASSUME CurrentInv, [Next]_vars
              PROVE  CurrentInv'
  OBVIOUS
<1>. USE DEF CurrentInv, RequestIsCurrent
<1>1. ASSUME NEW kind \in {"fresh", "replan", "go on"}, Ask(kind)
      PROVE  CurrentInv'
  BY <1>1 DEF Ask, dbVars, opVars
<1>2. ASSUME Acquire \/ Refused \/ StartFresh \/ GoOn
      PROVE  CurrentInv'
  BY <1>2 DEF Acquire, Refused, StartFresh, GoOn, dbVars, opVars
<1>3. ASSUME SetUp \/ PersistSetup \/ ChapterCommitted \/ Check \/ Write \/ Review
             \/ GenerationStops
      PROVE  CurrentInv'
  BY <1>3 DEF SetUp, PersistSetup, ChapterCommitted, Check, Write, Review,
              GenerationStops, dbVars, opVars
<1>4. CASE PersistChapter
  BY <1>4 DEF PersistChapter, opVars
<1>5. ASSUME NEW k \in Indexes, Edit(k) \/ Delete(k)
      PROVE  CurrentInv'
  BY <1>5 DEF Edit, Delete
<1>6. ASSUME NEW k \in Indexes, Rewrite(k)
      PROVE  CurrentInv'
  BY <1>6 DEF Rewrite
<1>7. CASE StartRewrite
  BY <1>7 DEF StartRewrite, dbVars
<1>8. CASE OperationEnds
  BY <1>8 DEF OperationEnds, dbVars
<1>9. ASSUME NEW a \in Reconcilers, Reconcile(a)
      PROVE  CurrentInv'
  BY <1>9 DEF Reconcile, ReadRequest, Rewind, ClearRequest, ReconcileFails, dbVars, opVars
<1>10. ASSUME NEW p \in Pollers, Poll(p)
       PROVE  CurrentInv'
  BY <1>10 DEF Poll, dbVars, opVars
<1>11. CASE UNCHANGED vars
  BY <1>11 DEF vars, dbVars, opVars
<1>. QED
  BY <1>1, <1>2, <1>3, <1>4, <1>5, <1>6, <1>7, <1>8, <1>9, <1>10, <1>11
  DEF Next, Generate, Operate

\* A pending request asks for the position the tables confirm, whatever the
\* polls, the failures and the deaths: what reconciles it later rewinds the
\* checkpoint to where the novel is.
THEOREM RequestStaysCurrent == Spec => []RequestIsCurrent
<1>1. Init => CurrentInv
  BY DEF Init, CurrentInv, RequestIsCurrent
<1>2. CurrentInv => RequestIsCurrent
  BY DEF CurrentInv
<1>. QED
  BY <1>1, <1>2, CurrentStep, PTL DEF Spec

-----------------------------------------------------------------------------
(* The start of a generation. *)

\* While a generation prepares, no chapter operation runs, and its
\* reconciliation, once it is through, has left no request; only an operation
\* could leave another.
PreparedInv ==
    /\ gen = "preparing" => op = "idle"
    /\ gen = "preparing" /\ rec["generation"] = "idle" => sync = None
    /\ DOMAIN rec = Reconcilers

LEMMA PreparedStep == PreparedInv /\ [Next]_vars => PreparedInv'
<1>. SUFFICES ASSUME PreparedInv, [Next]_vars
              PROVE  PreparedInv'
  OBVIOUS
<1>. USE CheckpointAssumption DEF PreparedInv, Reconcilers
<1>1. ASSUME NEW kind \in {"fresh", "replan", "go on"}, Ask(kind)
      PROVE  PreparedInv'
  BY <1>1 DEF Ask, dbVars, opVars, recVars
<1>2. CASE Acquire
  BY <1>2 DEF Acquire, GateHeld, StartReconciling, RecGoto, dbVars, opVars
<1>3. CASE Refused
  BY <1>3 DEF Refused, StopGeneration, dbVars, opVars
<1>4. ASSUME StartFresh \/ GoOn
      PROVE  PreparedInv'
  BY <1>4 DEF StartFresh, GoOn, recVars
<1>5. ASSUME SetUp \/ PersistSetup \/ Check \/ Write \/ Review
      PROVE  PreparedInv'
  BY <1>5 DEF SetUp, PersistSetup, Check, Write, Review, At, recVars
<1>6. ASSUME PersistChapter \/ ChapterCommitted \/ GenerationStops
      PROVE  PreparedInv'
  BY <1>6 DEF PersistChapter, ChapterCommitted, GenerationStops, StopGeneration, recVars
<1>7. ASSUME NEW k \in Indexes, Edit(k) \/ Delete(k) \/ Rewrite(k)
      PROVE  PreparedInv'
  <2>1. gen # "preparing"
    BY <1>7 DEF Edit, Delete, Rewrite, MayOperate, GateHeld
  <2>2. gen' = gen /\ DOMAIN rec' = DOMAIN rec
    BY <1>7 DEF Edit, Delete, Rewrite, ThenReconcile, StartReconciling, RecGoto, genVars
  <2>. QED
    BY <2>1, <2>2
<1>8. ASSUME StartRewrite \/ OperationEnds
      PROVE  PreparedInv'
  BY <1>8 DEF StartRewrite, OperationEnds, MayOperate, GateHeld, dbVars, genVars, recVars
<1>9. ASSUME NEW a \in Reconcilers, Reconcile(a)
      PROVE  PreparedInv'
  <2>1. CASE ReadRequest(a)
    BY <1>9, <2>1 DEF ReadRequest, RecGoto, dbVars, genVars, opVars
  <2>2. CASE Rewind(a)
    BY <1>9, <2>2 DEF Rewind, RecGoto, dbVars, genVars, opVars
  <2>3. CASE ClearRequest(a)
    BY <1>9, <2>3 DEF ClearRequest, RecGoto, genVars, opVars
  <2>4. CASE ReconcileFails(a)
    BY <1>9, <2>4 DEF ReconcileFails, RecGoto, dbVars, genVars, opVars
  <2>. QED
    BY <1>9, <2>1, <2>2, <2>3, <2>4 DEF Reconcile
<1>10. ASSUME NEW p \in Pollers, Poll(p)
       PROVE  PreparedInv'
  BY <1>10 DEF Poll, StartReconciling, RecGoto, dbVars, genVars, opVars
<1>11. CASE UNCHANGED vars
  BY <1>11 DEF vars, dbVars, genVars, opVars, recVars
<1>. QED
  BY <1>1, <1>2, <1>3, <1>4, <1>5, <1>6, <1>7, <1>8, <1>9, <1>10, <1>11
  DEF Next, Generate, Operate

\* Only the two starts take a preparing generation to a running one.
LEMMA StartsAreReady ==
    [Next]_vars /\ gen = "preparing" /\ gen' = "running" => CheckpointReady
<1>. SUFFICES ASSUME [Next]_vars, gen = "preparing", gen' = "running"
              PROVE  StartFresh \/ GoOn
  BY DEF StartFresh, GoOn
<1>1. ASSUME NEW kind \in {"fresh", "replan", "go on"}
      PROVE  ~Ask(kind)
  BY DEF Ask
<1>2. Generate => StartFresh \/ GoOn
  BY DEF Generate, Acquire, Refused, StopGeneration, SetUp, PersistSetup, PersistChapter,
         ChapterCommitted, Check, Write, Review, At, GenerationStops
<1>3. ~Operate
  BY DEF Operate, Edit, Delete, Rewrite, StartRewrite, OperationEnds, genVars
<1>4. ASSUME NEW a \in Reconcilers
      PROVE  ~Reconcile(a)
  BY DEF Reconcile, ReadRequest, Rewind, ClearRequest, ReconcileFails, genVars
<1>5. ASSUME NEW p \in Pollers
      PROVE  ~Poll(p)
  BY DEF Poll, genVars
<1>6. ~UNCHANGED vars
  BY DEF vars, genVars
<1>. QED
  BY <1>1, <1>2, <1>3, <1>4, <1>5, <1>6 DEF Next

\* No generation starts over a pending request: the promise of the 503 of
\* _ensure_checkpoint_ready, with polls that reconcile beside the gate.
THEOREM NoBlindStarts == Spec => NoBlindStart
<1>1. Init => PreparedInv
  BY DEF Init, PreparedInv
<1>2. PreparedInv /\ [Next]_vars => [gen = "preparing" /\ gen' = "running" => sync = None]_vars
  BY StartsAreReady DEF PreparedInv, CheckpointReady
<1>. QED
  BY <1>1, <1>2, PreparedStep, PTL DEF Spec, NoBlindStart
=============================================================================
