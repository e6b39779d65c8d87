--------------------------- MODULE SerialSyncProofs ---------------------------
(***************************************************************************)
(* What holds of the tables and the checkpoint when nobody reconciles      *)
(* beside the execution gate (Alone): edits survive and rewinds are        *)
(* confirmed.  Where whoever starts a run has seen the novel as it is      *)
(* (Serial), the chapters have no gap and the checkpoint is in step; where *)
(* no run dies between the transaction of a chapter and its checkpoint     *)
(* either (Clean), the tables implement Manuscript.                        *)
(***************************************************************************)
EXTENDS CheckpointSyncProofs

Alone == Pollers = {}

Serial == Alone /\ StartIsInformed

-----------------------------------------------------------------------------
(* The inductive invariant. *)

\* A run died after it had stored its draft and before its checkpoint said so;
\* nobody has edited the chapter since, for an edit leaves a request.
Lagging(state) ==
    /\ ~RestartIsClean
    /\ state.index + 1 = current
    /\ state.draft # None
    /\ state.next \in {"persist", "review"}
    /\ chapters[state.index].by # "edit"

\* A run that was asked for before chapters were deleted may begin past them.
InPlace(state) == state.index >= current /\ (StartIsInformed => state.index = current)

Fits(state) == InPlace(state) \/ Lagging(state)

\* The novel a command has seen may have lost chapters since, but not got any.
AskedBefore == gen \in {"asked", "preparing"} => current <= asked.seen

\* Every chapter is before the next one to write, with no gap if whoever starts
\* a run has seen the novel as it is.
ChaptersFit ==
    /\ \A i \in Indexes : chapters[i] # None => i < current
    /\ StartIsInformed => Contiguous

RunFits ==
    /\ gen = "running" => ckpt = run /\ Fits(run)
    /\ gen = "persisted" => /\ ckpt = run
                            /\ run.index + 1 = current
                            /\ run.draft # None
                            /\ run.next = "persist"
                            /\ chapters[run.index] # None
                            /\ chapters[run.index].by = "generation"

CheckpointFits ==
    sync = None /\ ckpt # None /\ gen # "persisted" => Fits(ckpt)

Active(a) == rec[a] \in {"read", "rewind", "clear"}

\* The gate keeps the actors apart, their reconciliations included, and a
\* rewrite writes back what is still there.
Apart ==
    /\ gen \in {"preparing", "running", "persisted"} => op = "idle"
    /\ Active("generation") => gen = "preparing"
    /\ Active("operation") => op = "reconciling"
    /\ op = "rewriting" => previous = [current |-> current, sync |-> sync]

RewindFits ==
    \A a \in Reconcilers :
        /\ rec[a] \in {"rewind", "clear"} => request[a] = current
        /\ rec[a] = "clear" /\ ckpt # None => ckpt.index = current

SerialInv ==
    ChaptersFit /\ AskedBefore /\ RunFits /\ CheckpointFits /\ Apart /\ RewindFits

\* The invariants of CheckpointSyncProofs, which hold of every specification.
Common == TypeInv /\ CurrentInv /\ PreparedInv

-----------------------------------------------------------------------------
(* Its steps, an actor at a time. *)

\* What the types say of the numbers the proofs compare.
LEMMA TableFacts ==
    ASSUME TypeInv
    PROVE  /\ current \in Nat /\ current <= Total /\ Total \in Nat
           /\ current # None
           /\ \A i \in Indexes : i \in Nat /\ i < Total
           /\ \A s \in Checkpoints : s.index \in Nat
           /\ chapters \in [Indexes -> Texts \cup {None}]
  BY CheckpointAssumption DEF TypeInv, TypeOK, Positions, Indexes, Checkpoints

\* A command has seen a position, and the one that is confirmed when it is asked.
LEMMA SeenIsAPosition == ASSUME TypeInv PROVE asked.seen \in Nat
<1>1. asked.seen \in Positions
  BY DEF TypeInv, TypeOK, Commands
<1>2. Positions \subseteq Nat
  BY DEF Positions
<1>. QED
  BY <1>1, <1>2

\* A command that is asked has seen the novel as it then is.
LEMMA SeenByAsking ==
    ASSUME TypeInv, NEW kind, Ask(kind)
    PROVE  current <= asked'.seen
<1>1. asked' = [kind |-> kind, seen |-> current]
  BY DEF Ask
<1>2. current \in Nat
  BY TableFacts
<1>. QED
  BY <1>1, <1>2

\* What none of the actors of a step touches still fits.
LEMMA Untouched ==
    ASSUME Alone, Common, SerialInv,
           UNCHANGED <<dbVars, ckpt, op, previous, recVars>>,
           gen' \in {"idle", "asked"}, gen # "persisted", ~Active("generation"),
           gen' = "asked" => current <= asked'.seen
    PROVE  SerialInv'
  BY DEF SerialInv, ChaptersFit, Contiguous, AskedBefore, RunFits, CheckpointFits, Fits,
         InPlace, Lagging, Apart, Active, RewindFits, dbVars, recVars

\* A generation that starts, is refused or goes on.
LEMMA StartStep ==
    ASSUME Alone, Common, SerialInv, Acquire \/ Refused \/ StartFresh \/ GoOn
    PROVE  SerialInv'
<1>. USE DEF SerialInv, ChaptersFit, Contiguous, AskedBefore, RunFits, CheckpointFits,
             Fits, InPlace, Lagging, Apart, Active, RewindFits
<1>1. CASE Acquire
  BY <1>1 DEF Acquire, GateHeld, StartReconciling, RecGoto, dbVars, opVars, Common, TypeInv,
              TypeOK, Reconcilers
<1>2. CASE Refused
  BY <1>2, CheckpointAssumption
  DEF Refused, StopGeneration, dbVars, opVars, Common, TypeInv, TypeOK, Reconcilers
<1>3. CASE StartFresh
  <2>1. /\ run'.index = asked.seen /\ ckpt' = run' /\ gen = "preparing" /\ gen' = "running"
        /\ StartIsInformed => asked.seen = current
        /\ ~Active("generation")
        /\ UNCHANGED <<dbVars, opVars, recVars>>
    BY <1>3 DEF StartFresh, CheckpointReady
  <2>2. InPlace(run)'
    BY <2>1 DEF dbVars
  <2>. QED
    BY <2>1, <2>2 DEF dbVars, opVars, recVars, Reconcilers, Alone
<1>4. CASE GoOn
  <2>1. /\ run' \in {ckpt, [ckpt EXCEPT !.next = "review"]} /\ ckpt' = run'
        /\ ckpt # None /\ gen = "preparing" /\ gen' = "running" /\ rec["generation"] = "idle"
        /\ UNCHANGED <<dbVars, opVars, recVars>>
    BY <1>4 DEF GoOn, CheckpointReady, Resumed
  <2>2. sync = None
    BY <2>1 DEF Common, PreparedInv
  <2>3. Fits(ckpt) /\ ckpt \in Checkpoints
    BY <2>1, <2>2 DEF Common, TypeInv, TypeOK
  <2>4. run'.index = ckpt.index /\ run'.draft = ckpt.draft
        /\ (run'.next = ckpt.next \/ run'.next = "review")
    BY <2>1, <2>3 DEF Checkpoints
  <2>5. Fits(run)'
    BY <2>1, <2>3, <2>4 DEF dbVars
  <2>. QED
    BY <2>1, <2>5 DEF dbVars, opVars, recVars, Reconcilers, Alone
<1>. QED
  BY <1>1, <1>2, <1>3, <1>4

\* The steps of the graph that only the checkpoint sees.
LEMMA GraphStep ==
    ASSUME Alone, Common, SerialInv,
           SetUp \/ PersistSetup \/ ChapterCommitted \/ Check \/ Write \/ Review
    PROVE  SerialInv'
<1>1. /\ run' \in Checkpoints /\ ckpt' = run' /\ gen' = "running"
      /\ UNCHANGED <<dbVars, asked, opVars, recVars>>
  BY GraphTypes DEF Common
<1>2. gen \in {"running", "persisted"} /\ run \in Checkpoints
  BY DEF SetUp, PersistSetup, ChapterCommitted, Check, Write, Review, At, Common, TypeInv,
         TypeOK
<1>3. Fits(run)'
  <2>. USE <1>2 DEF SerialInv, RunFits, Fits, InPlace, Lagging, At, Commit, Checkpoints, Common
  <2>1. CASE SetUp
    BY <2>1, <1>1 DEF SetUp, dbVars
  <2>2. CASE PersistSetup
    BY <2>2, <1>1 DEF PersistSetup, dbVars
  <2>3. CASE ChapterCommitted
    BY <2>3, <1>1, TableFacts DEF ChapterCommitted, dbVars
  <2>4. CASE Check
    BY <2>4, <1>1, TableFacts DEF Check, Trusted, dbVars
  <2>5. CASE Write
    BY <2>5, <1>1 DEF Write, dbVars
  <2>6. CASE Review
    <3>1. run'.index = run.index /\ run'.next = "persist" /\ Fits(run)
      BY <2>6 DEF Review
    <3>2. run.draft # None /\ run.draft \in Drafts
      BY <2>6 DEF Review, TypeInv, Sound
    <3>3. run'.draft = [run.draft EXCEPT !.reviewed = TRUE]
      BY <2>6 DEF Review
    <3>4. run'.draft # None
      BY <3>2, <3>3, CheckpointAssumption DEF Drafts
    <3>. QED
      BY <3>1, <3>2, <3>4, <1>1, <2>6 DEF dbVars, Review
  <2>. QED
    BY <2>1, <2>2, <2>3, <2>4, <2>5, <2>6
<1>. QED
  BY <1>1, <1>2, <1>3
  DEF SerialInv, ChaptersFit, Contiguous, AskedBefore, RunFits, CheckpointFits, Apart,
      Active, RewindFits, Reconcilers, Alone, dbVars, opVars, recVars

\* The transaction of a chapter, and a generation that stops before or after it.
LEMMA PersistStep ==
    ASSUME Alone, Common, SerialInv, PersistChapter \/ GenerationStops
    PROVE  SerialInv'
<1>. USE DEF SerialInv, ChaptersFit, Contiguous, AskedBefore, RunFits, CheckpointFits,
             Fits, InPlace, Apart, Active, RewindFits
<1>1. CASE PersistChapter
  <2>. DEFINE row == [of |-> run.draft.of, reviewed |-> run.draft.reviewed, by |-> "generation"]
  <2>1. /\ gen = "running" /\ run.next = "persist" /\ run.draft # None
        /\ run.index \in Indexes /\ run \in Checkpoints
        /\ chapters' = [chapters EXCEPT ![run.index] = row]
        /\ current' = run.index + 1 /\ sync' = None /\ gen' = "persisted"
        /\ UNCHANGED <<ckpt, asked, run, opVars, recVars>>
    BY <1>1 DEF PersistChapter, At, Common, TypeInv, TypeOK
  <2>2. row \in Texts
    BY <2>1 DEF Checkpoints, Drafts, Texts
  <2>3. row # None /\ row.by = "generation"
    BY <2>2, CheckpointAssumption
  <2>. HIDE DEF row
  <2>4. chapters'[run.index] = row /\ \A i \in Indexes \ {run.index} : chapters'[i] = chapters[i]
    BY <2>1, TableFacts DEF Common
  <2>5. /\ run.index >= current \/ run.index + 1 = current
        /\ StartIsInformed => run.index = current \/ run.index + 1 = current
    BY <2>1 DEF Lagging
  <2>6. ChaptersFit'
    BY <2>1, <2>3, <2>4, <2>5, TableFacts DEF Common
  <2>7. RunFits'
    BY <2>1, <2>3, <2>4
  <2>. QED
    BY <2>1, <2>6, <2>7 DEF Reconcilers, Alone, opVars, recVars
<1>2. CASE GenerationStops
  <2>1. /\ gen \in {"running", "persisted"} /\ gen' = "idle"
        /\ RestartIsClean => gen = "running"
        /\ UNCHANGED <<dbVars, ckpt, opVars, recVars>>
    BY <1>2 DEF GenerationStops, StopGeneration
  <2>2. ckpt # None => Fits(ckpt)
    BY <2>1 DEF Lagging
  <2>. QED
    BY <2>1, <2>2 DEF Lagging, Reconcilers, Alone, dbVars, opVars, recVars
<1>. QED
  BY <1>1, <1>2

\* The chapter operations.
LEMMA OperationStep ==
    ASSUME Alone, Common, SerialInv,
           \/ \E k \in Indexes : Edit(k) \/ Delete(k) \/ Rewrite(k)
           \/ StartRewrite \/ OperationEnds
    PROVE  SerialInv'
<1>. USE DEF SerialInv, Apart, Active, RewindFits, AskedBefore
<1>1. ASSUME NEW k \in Indexes, Edit(k) \/ Delete(k) \/ Rewrite(k)
      PROVE  SerialInv'
  <2>1. /\ gen \notin {"preparing", "running", "persisted"}
        /\ op' = "reconciling"
        /\ rec' = [rec EXCEPT !["operation"] = "read"]
        /\ UNCHANGED <<ckpt, gen, asked, run>>
    BY <1>1 DEF Edit, Delete, Rewrite, MayOperate, GateHeld, ThenReconcile, StartReconciling,
                RecGoto, genVars
  <2>2. Apart' /\ RewindFits'
    BY <2>1 DEF Common, PreparedInv, Reconcilers, Alone
  <2>3. RunFits'
    BY <2>1 DEF RunFits
  <2>4. ChaptersFit' /\ CheckpointFits'
    <3>1. CASE Edit(k)
      <4>1. [chapters[k] EXCEPT !.by = "edit"] # None
        BY <3>1, TableFacts, CheckpointAssumption DEF Edit, Exists, Common, Texts
      <4>2. chapters' = [chapters EXCEPT ![k] = [@ EXCEPT !.by = "edit"]]
            /\ current' = current /\ sync' = current
        BY <3>1 DEF Edit
      <4>3. \A i \in Indexes : chapters'[i] # None <=> chapters[i] # None
        BY <3>1, <4>1, <4>2, TableFacts DEF Edit, Exists, Common
      <4>. QED
        BY <4>2, <4>3, TableFacts
        DEF ChaptersFit, Contiguous, AskedBefore, CheckpointFits, Common
    <3>2. CASE Delete(k)
      <4>1. k < current /\ k # None
        BY <3>2, TableFacts, CheckpointAssumption
        DEF Delete, Exists, ChaptersFit, Contiguous, AskedBefore, Common
      <4>2. /\ chapters' = [i \in Indexes |-> IF i < k THEN chapters[i] ELSE None]
            /\ current' = k /\ sync' = k
        BY <3>2 DEF Delete
      <4>. QED
        BY <4>1, <4>2, TableFacts
        DEF ChaptersFit, Contiguous, AskedBefore, CheckpointFits, Common
    <3>3. CASE Rewrite(k)
      <4>. DEFINE row == [of |-> k, reviewed |-> TRUE, by |-> "rewrite"]
      <4>1. row \in Texts
        BY DEF Texts
      <4>2. row # None /\ row.by = "rewrite"
        BY <4>1, CheckpointAssumption
      <4>3. chapters' = [chapters EXCEPT ![k] = row] /\ chapters[k] # None
            /\ current' = current /\ sync' = sync
        BY <3>3 DEF Rewrite, Exists
      <4>. HIDE DEF row
      <4>4. ChaptersFit'
        BY <4>2, <4>3, TableFacts DEF ChaptersFit, Contiguous, AskedBefore, Common
      <4>5. ASSUME NEW s \in Checkpoints, Fits(s)
            PROVE  Fits(s)'
        <5>1. CASE InPlace(s)
          BY <5>1, <4>3 DEF Fits, InPlace
        <5>2. CASE Lagging(s)
          <6>1. s.index \in Indexes
            BY <5>2, TableFacts DEF Lagging, Indexes, Common
          <6>. QED
            BY <5>2, <6>1, <4>2, <4>3, TableFacts DEF Fits, InPlace, Lagging, Common
        <5>. QED
          BY <4>5, <5>1, <5>2 DEF Fits
      <4>6. CheckpointFits'
        BY <2>1, <4>3, <4>5 DEF CheckpointFits, Common, TypeInv, TypeOK
      <4>. QED
        BY <4>4, <4>6
    <3>. QED
      BY <1>1, <3>1, <3>2, <3>3
  <2>5. AskedBefore'
    <3>1. current' <= current /\ current' \in Nat
      <4>1. CASE Edit(k) \/ Rewrite(k)
        BY <4>1, TableFacts DEF Edit, Rewrite, Common
      <4>2. CASE Delete(k)
        BY <4>2, TableFacts DEF Delete, Exists, ChaptersFit, Common
      <4>. QED
        BY <1>1, <4>1, <4>2
    <3>2. asked.seen \in Nat
      BY SeenIsAPosition DEF Common
    <3>. QED
      BY <2>1, <3>1, <3>2, TableFacts DEF Common
  <2>. QED
    BY <2>2, <2>3, <2>4, <2>5
<1>2. CASE StartRewrite
  BY <1>2 DEF StartRewrite, MayOperate, GateHeld, ChaptersFit, Contiguous, AskedBefore,
              RunFits, CheckpointFits, Fits, InPlace, Lagging, dbVars, genVars, recVars
<1>3. CASE OperationEnds
  BY <1>3 DEF OperationEnds, ChaptersFit, Contiguous, AskedBefore, RunFits, CheckpointFits,
              Fits, InPlace, Lagging, dbVars, genVars, Reconcilers, Alone, Common,
              PreparedInv
<1>. QED
  BY <1>1, <1>2, <1>3

\* The reconciliations.
LEMMA ReconcileStep ==
    ASSUME Alone, Common, SerialInv, NEW a \in Reconcilers, Reconcile(a)
    PROVE  SerialInv'
<1>. USE DEF SerialInv, Apart, Active, RewindFits, ChaptersFit, Contiguous, AskedBefore
<1>1. Active(a) /\ a \in {"generation", "operation"} /\ gen \notin {"running", "persisted"}
  BY DEF Reconcile, ReadRequest, Rewind, ClearRequest, ReconcileFails, Reconcilers, Alone
<1>2. CASE ReadRequest(a)
  BY <1>1, <1>2
  DEF ReadRequest, RecGoto, Common, CurrentInv, RequestIsCurrent, PreparedInv, TypeInv,
      TypeOK, Reconcilers, Alone, RunFits, CheckpointFits, Fits, InPlace, Lagging, dbVars,
      genVars, opVars
<1>0. current >= current /\ current # None
  BY TableFacts DEF Common
<1>3. CASE Rewind(a)
  BY <1>0, <1>1, <1>3
  DEF Rewind, Rewound, RecGoto, Common, PreparedInv, Reconcilers, Alone, RunFits,
      CheckpointFits, Fits, InPlace, dbVars, genVars, opVars
<1>4. CASE ClearRequest(a)
  BY <1>0, <1>1, <1>4
  DEF ClearRequest, RecGoto, Common, PreparedInv, TypeInv, TypeOK, Reconcilers, Alone, RunFits,
      CheckpointFits, Fits, InPlace, Lagging, genVars, opVars
<1>5. CASE ReconcileFails(a)
  BY <1>1, <1>5
  DEF ReconcileFails, RecGoto, Common, PreparedInv, TypeInv, TypeOK, Reconcilers, Alone,
      RunFits, CheckpointFits, Fits, InPlace, Lagging, dbVars, genVars, opVars
<1>. QED
  BY <1>2, <1>3, <1>4, <1>5 DEF Reconcile

\* Every step, from the lemmas on the actors.
LEMMA SerialStep ==
    ASSUME Alone, Common, SerialInv, [Next]_vars
    PROVE  SerialInv'
<1>1. ASSUME NEW kind \in {"fresh", "replan", "go on"}, Ask(kind)
      PROVE  SerialInv'
  <2>1. current <= asked'.seen
    BY <1>1, SeenByAsking DEF Common
  <2>2. /\ gen = "idle" /\ gen' = "asked"
        /\ UNCHANGED <<dbVars, ckpt, op, previous, recVars>>
    BY <1>1 DEF Ask, opVars
  <2>3. ~Active("generation")
    BY <2>2 DEF SerialInv, Apart
  <2>. QED
    BY <2>1, <2>2, <2>3, Untouched
<1>2. CASE UNCHANGED vars
  BY <1>2
  DEF vars, dbVars, genVars, opVars, recVars, SerialInv, ChaptersFit, Contiguous,
      AskedBefore, RunFits, CheckpointFits, Fits, InPlace, Lagging, Apart, Active,
      RewindFits
<1>3. ASSUME NEW p \in Pollers
      PROVE  FALSE
  BY DEF Alone
<1>. QED
  BY <1>1, <1>2, <1>3, StartStep, GraphStep, PersistStep, OperationStep, ReconcileStep
  DEF Next, Generate, Operate

\* The tables, the checkpoint and the actors fit as SerialInv says, whoever starts
\* a run and wherever a run dies, as long as nobody reconciles beside the gate.
THEOREM SerialInvariant == Alone => (Spec => [](Common /\ SerialInv))
<1>. SUFFICES ASSUME Alone
              PROVE  Spec => [](Common /\ SerialInv)
  OBVIOUS
<1>1. Init => Common
  BY CheckpointAssumption
  DEF Init, Common, TypeInv, TypeOK, Commands, NoCommand, Positions, Sound, CurrentInv,
      RequestIsCurrent, PreparedInv
<1>2. Init => SerialInv
  BY CheckpointAssumption
  DEF Init, SerialInv, ChaptersFit, AskedBefore, Contiguous, RunFits, CheckpointFits,
      Apart, Active, RewindFits, Indexes, Reconcilers
<1>3. Common /\ [Next]_vars => Common'
  BY TypeStep, CurrentStep, PreparedStep DEF Common
<1>4. Common /\ SerialInv /\ [Next]_vars => SerialInv'
  BY SerialStep
<1>. QED
  BY <1>1, <1>2, <1>3, <1>4, PTL DEF Spec

-----------------------------------------------------------------------------
(* What follows from it. *)

\* The chapters are the first ones of the book without a gap, although runs die
\* between the transaction of a chapter and its checkpoint.
THEOREM ChaptersAreContiguous == Serial => (Spec => []Contiguous)
<1>. SUFFICES ASSUME Serial
              PROVE  Spec => []Contiguous
  OBVIOUS
<1>1. Common /\ SerialInv => Contiguous
  BY DEF SerialInv, ChaptersFit, Serial
<1>2. Alone
  BY DEF Serial
<1>. QED
  BY <1>1, <1>2, SerialInvariant, PTL

\* Without a pending request the checkpoint is where the tables are, or one
\* stored draft behind.
THEOREM CheckpointsAreInStep == Serial => (Spec => []InStep)
<1>. SUFFICES ASSUME Serial
              PROVE  Spec => []InStep
  OBVIOUS
<1>1. Common /\ SerialInv => InStep
  BY DEF SerialInv, CheckpointFits, Fits, InPlace, Lagging, InStep, Serial
<1>2. Alone
  BY DEF Serial
<1>. QED
  BY <1>1, <1>2, SerialInvariant, PTL

\* rewind_checkpoint goes to the position the tables confirm.
THEOREM RewindsAreConfirmed == Alone => (Spec => RewindIsConfirmed)
<1>1. ASSUME Common, SerialInv, NEW a \in Reconcilers, Rewind(a), ckpt # None
      PROVE  ckpt'.index = current
  BY <1>1 DEF Rewind, Rewound, SerialInv, RewindFits
<1>2. Common /\ SerialInv =>
        [\A a \in Reconcilers : Rewind(a) /\ ckpt # None => ckpt'.index = current]_vars
  BY <1>1
<1>. QED
  BY <1>2, SerialInvariant, PTL DEF RewindIsConfirmed

\* What a stored draft replaces: nothing, or the same text once more.
LEMMA PersistReplaces ==
    ASSUME Alone, Common, SerialInv, PersistChapter,
           NEW i \in Indexes, chapters[i] # None, chapters'[i] # chapters[i]
    PROVE  ~RestartIsClean /\ chapters[i].by # "edit"
<1>1. /\ gen = "running" /\ run.index \in Indexes
      /\ \A j \in Indexes \ {run.index} : chapters'[j] = chapters[j]
  BY TableFacts DEF PersistChapter, At, Common
<1>2. i = run.index /\ i < current
  BY <1>1 DEF SerialInv, ChaptersFit
<1>3. Lagging(run)
  BY <1>1, <1>2, TableFacts DEF SerialInv, RunFits, Fits, InPlace, Common
<1>. QED
  BY <1>2, <1>3 DEF Lagging

\* No run stores a draft over an edited chapter: the request that an edit leaves
\* has rewound the checkpoint before a run starts from it.
THEOREM EditsAreKept == Alone => (Spec => EditsSurvive)
<1>. SUFFICES ASSUME Alone
              PROVE  Spec => EditsSurvive
  OBVIOUS
<1>1. Common /\ SerialInv => [PersistChapter => ~Overwrites("edit")]_vars
  BY PersistReplaces DEF Overwrites
<1>. QED
  BY <1>1, SerialInvariant, PTL DEF EditsSurvive

\* The same of a rewritten chapter, provided that no run dies between the
\* transaction of a chapter and its checkpoint.
THEOREM RewritesAreKept == Alone /\ RestartIsClean => (Spec => RewritesSurvive)
<1>. SUFFICES ASSUME Alone, RestartIsClean
              PROVE  Spec => RewritesSurvive
  OBVIOUS
<1>1. Common /\ SerialInv => [PersistChapter => ~Overwrites("rewrite")]_vars
  BY PersistReplaces DEF Overwrites
<1>. QED
  BY <1>1, SerialInvariant, PTL DEF RewritesSurvive
-----------------------------------------------------------------------------
(* The tables of the system are a manuscript: the refinement of Manuscript. *)

\* A draft is of the chapter its state is at, none is set up, and what is about to
\* be stored was reviewed.
DraftFits(state) ==
    state # None /\ state.draft # None =>
        /\ state.draft.of = state.index
        /\ state.next # "setup"
        /\ state.next = "persist" => state.draft.reviewed

\* A row is a reviewed text of its own place in the book.
RowsFit == \A i \in Indexes : chapters[i] # None => chapters[i].of = i /\ chapters[i].reviewed

TextInv == RowsFit /\ DraftFits(ckpt) /\ DraftFits(run)

Clean == Serial /\ RestartIsClean

\* A run starts with a draft of the chapter that is next, or with none.
LEMMA StartTexts ==
    ASSUME Clean, Common, SerialInv, TextInv, Acquire \/ Refused \/ StartFresh \/ GoOn
    PROVE  TextInv'
<1>. USE DEF TextInv, RowsFit, DraftFits
<1>1. CASE Acquire
  BY <1>1 DEF Acquire, dbVars
<1>2. CASE Refused
  BY <1>2 DEF Refused, StopGeneration, dbVars
<1>3. CASE StartFresh
  <2>. DEFINE draft == IF ckpt = None THEN None ELSE ckpt.draft
              next == IF asked.kind = "replan" THEN "plan" ELSE "setup"
  <2>1. /\ run' = [index |-> current, draft |-> draft, next |-> next] /\ ckpt' = run'
        /\ asked.kind # "replan" => draft = None
        /\ gen = "preparing" /\ rec["generation"] = "idle"
        /\ UNCHANGED dbVars
    BY <1>3 DEF StartFresh, CheckpointReady, Clean, Serial
  <2>2. sync = None
    BY <2>1 DEF Common, PreparedInv
  <2>3. ckpt # None => ckpt.index = current
    BY <2>1, <2>2 DEF SerialInv, CheckpointFits, Fits, InPlace, Lagging, Clean, Serial
  <2>4. draft # None => draft.of = current /\ next = "plan"
    BY <2>1, <2>3
  <2>. HIDE DEF draft, next
  <2>. QED
    BY <2>1, <2>4 DEF dbVars
<1>4. CASE GoOn
  <2>1. /\ run' \in {ckpt, [ckpt EXCEPT !.next = "review"]} /\ ckpt' = run'
        /\ ckpt \in Checkpoints /\ UNCHANGED dbVars
    BY <1>4 DEF GoOn, Resumed, Common, TypeInv, TypeOK
  <2>2. /\ run'.index = ckpt.index /\ run'.draft = ckpt.draft
        /\ run'.next \in {ckpt.next, "review"} /\ ckpt # None
    BY <1>4, <2>1 DEF Checkpoints, GoOn
  <2>. QED
    BY <2>1, <2>2 DEF dbVars
<1>. QED
  BY <1>1, <1>2, <1>3, <1>4

\* The nodes of the graph keep the draft of its chapter and store what was reviewed.
LEMMA GraphTexts ==
    ASSUME Clean, Common, SerialInv, TextInv,
           SetUp \/ PersistSetup \/ ChapterCommitted \/ Check \/ Write \/ Review
    PROVE  TextInv'
<1>1. /\ run' \in Checkpoints /\ ckpt' = run' /\ UNCHANGED dbVars
  BY GraphTypes DEF Common
<1>2. gen \in {"running", "persisted"} /\ run \in Checkpoints /\ run # None
  BY CheckpointAssumption
  DEF SetUp, PersistSetup, ChapterCommitted, Check, Write, Review, At, Common, TypeInv, TypeOK
<1>3. DraftFits(run)'
  <2>. USE <1>2 DEF TextInv, DraftFits, At, Commit, Checkpoints
  <2>1. CASE SetUp
    BY <2>1 DEF SetUp
  <2>2. CASE PersistSetup
    BY <2>2 DEF PersistSetup
  <2>3. CASE ChapterCommitted
    BY <2>3 DEF ChapterCommitted
  <2>4. CASE Check
    <3>1. run.index = current
      BY <2>4 DEF Check, SerialInv, RunFits, Fits, InPlace, Lagging, Clean, Serial
    <3>. QED
      BY <2>4, <3>1 DEF Check, Trusted
  <2>5. CASE Write
    <3>. DEFINE written == [of |-> run.index, reviewed |-> FALSE]
    <3>1. run' = [run EXCEPT !.draft = written, !.next = "review"]
      BY <2>5 DEF Write
    <3>2. written.of = run.index
      OBVIOUS
    <3>. HIDE DEF written
    <3>. QED
      BY <3>1, <3>2
  <2>6. CASE Review
    <3>. DEFINE reviewed == [run.draft EXCEPT !.reviewed = TRUE]
    <3>1. run' = [run EXCEPT !.draft = reviewed, !.next = "persist"]
      BY <2>6 DEF Review
    <3>2. run.draft # None /\ run.draft \in Drafts
      BY <2>6 DEF Review, Common, TypeInv, Sound
    <3>3. reviewed.of = run.draft.of /\ reviewed.reviewed
      BY <3>2 DEF Drafts
    <3>4. run.draft.of = run.index
      BY <3>2
    <3>. HIDE DEF reviewed
    <3>. QED
      BY <3>1, <3>3, <3>4
  <2>. QED
    BY <2>1, <2>2, <2>3, <2>4, <2>5, <2>6
<1>. QED
  BY <1>1, <1>3 DEF TextInv, RowsFit, dbVars, DraftFits

\* The rows of the table after a step that replaces one of them.
LEMMA RowReplaced ==
    ASSUME Common, RowsFit, NEW k \in Indexes, NEW row,
           chapters' = [chapters EXCEPT ![k] = row],
           row.of = k, row.reviewed
    PROVE  RowsFit'
BY TableFacts DEF Common, RowsFit

\* What a transaction of a chapter stores.
LEMMA PersistTexts ==
    ASSUME Clean, Common, SerialInv, TextInv, PersistChapter
    PROVE  /\ TextInv'
           /\ current \in Indexes /\ current' = current + 1
           /\ \E row \in Texts : /\ chapters' = [chapters EXCEPT ![current] = row]
                                 /\ row.of = current /\ row.reviewed /\ row.by = "generation"
<1>. DEFINE row == [of |-> run.draft.of, reviewed |-> run.draft.reviewed, by |-> "generation"]
<1>1. /\ gen = "running" /\ run.next = "persist" /\ run.draft # None
      /\ run.index \in Indexes /\ run \in Checkpoints /\ run # None
      /\ chapters' = [chapters EXCEPT ![run.index] = row]
      /\ current' = run.index + 1
      /\ UNCHANGED <<ckpt, run>>
  BY CheckpointAssumption DEF PersistChapter, At, Common, TypeInv, TypeOK
<1>2. row \in Texts
  BY <1>1 DEF Checkpoints, Drafts, Texts
<1>3. run.index = current
  BY <1>1 DEF SerialInv, RunFits, Fits, InPlace, Lagging, Clean, Serial
<1>4. row.of = current /\ row.reviewed /\ row.by = "generation"
  BY <1>1, <1>3 DEF TextInv, DraftFits
<1>. HIDE DEF row
<1>5. RowsFit'
  BY <1>1, <1>3, <1>4, RowReplaced DEF TextInv
<1>. QED
  BY <1>1, <1>2, <1>3, <1>4, <1>5 DEF TextInv, DraftFits

\* What a chapter operation leaves in the tables: a row that is edited or
\* rewritten in its place, or the rows before the deleted ones.
LEMMA OperationTexts ==
    ASSUME Clean, Common, SerialInv, TextInv, NEW k \in Indexes,
           Edit(k) \/ Delete(k) \/ Rewrite(k)
    PROVE  /\ TextInv' /\ k < current
           /\ \/ /\ chapters' = [i \in Indexes |-> IF i < k THEN chapters[i] ELSE None]
                 /\ current' = k
              \/ /\ current' = current
                 /\ \E row \in Texts : /\ chapters' = [chapters EXCEPT ![k] = row]
                                       /\ row.of = k /\ row.reviewed
<1>1. UNCHANGED <<ckpt, run>>
  BY DEF Edit, Delete, Rewrite, genVars
<1>2. chapters[k] # None
  BY DEF Edit, Delete, Rewrite, Exists
<1>3. k < current /\ chapters[k] \in Texts
  BY <1>2, TableFacts DEF SerialInv, ChaptersFit, Common
<1>4. CASE Edit(k)
  <2>. DEFINE row == [chapters[k] EXCEPT !.by = "edit"]
  <2>1. row \in Texts /\ row.of = k /\ row.reviewed
    BY <1>2, <1>3 DEF Texts, TextInv, RowsFit
  <2>2. chapters' = [chapters EXCEPT ![k] = row] /\ current' = current
    BY <1>4 DEF Edit
  <2>. HIDE DEF row
  <2>. QED
    BY <1>1, <1>3, <2>1, <2>2, RowReplaced DEF TextInv, DraftFits
<1>5. CASE Delete(k)
  <2>1. /\ chapters' = [i \in Indexes |-> IF i < k THEN chapters[i] ELSE None]
        /\ current' = k
    BY <1>5 DEF Delete
  <2>. QED
    BY <1>1, <1>3, <2>1 DEF TextInv, DraftFits, RowsFit
<1>6. CASE Rewrite(k)
  <2>. DEFINE row == [of |-> k, reviewed |-> TRUE, by |-> "rewrite"]
  <2>1. row \in Texts /\ row.of = k /\ row.reviewed
    BY DEF Texts
  <2>2. chapters' = [chapters EXCEPT ![k] = row] /\ current' = current
    BY <1>6 DEF Rewrite, SerialInv, Apart
  <2>. HIDE DEF row
  <2>. QED
    BY <1>1, <1>3, <2>1, <2>2, RowReplaced DEF TextInv, DraftFits
<1>. QED
  BY <1>4, <1>5, <1>6

\* The other steps, which leave the chapters and the progress as they are.
LEMMA OtherTexts ==
    ASSUME Clean, Common, TextInv,
           \/ \E kind \in {"fresh", "replan", "go on"} : Ask(kind)
           \/ GenerationStops \/ StartRewrite \/ OperationEnds
           \/ \E a \in Reconcilers : Reconcile(a)
           \/ UNCHANGED vars
    PROVE  TextInv' /\ UNCHANGED <<chapters, current>>
<1>. USE DEF TextInv, RowsFit, DraftFits
<1>1. ASSUME NEW kind \in {"fresh", "replan", "go on"}, Ask(kind)
      PROVE  TextInv' /\ UNCHANGED <<chapters, current>>
  BY <1>1 DEF Ask, dbVars
<1>2. ASSUME GenerationStops \/ StartRewrite \/ OperationEnds \/ UNCHANGED vars
      PROVE  TextInv' /\ UNCHANGED <<chapters, current>>
  BY <1>2 DEF GenerationStops, StopGeneration, StartRewrite, OperationEnds, vars, dbVars,
              genVars
<1>3. ASSUME NEW a \in Reconcilers, ReadRequest(a) \/ ClearRequest(a) \/ ReconcileFails(a)
      PROVE  TextInv' /\ UNCHANGED <<chapters, current>>
  BY <1>3 DEF ReadRequest, ClearRequest, ReconcileFails, dbVars, genVars
<1>4. ASSUME NEW a \in Reconcilers, Rewind(a)
      PROVE  TextInv' /\ UNCHANGED <<chapters, current>>
  BY <1>4 DEF Rewind, Rewound, dbVars, genVars
<1>. QED
  BY <1>1, <1>2, <1>3, <1>4 DEF Reconcile

\* Init maps to the empty manuscript.
LEMMA ManuscriptStarts == Init => Novel!ManuscriptInit
BY DEF Init, Novel!ManuscriptInit, Novel!Indexes, Indexes, Text

\* The transaction of a chapter writes the next chapter of the manuscript.
LEMMA PersistIsWriteNext ==
    ASSUME Clean, Common, SerialInv, TextInv, PersistChapter
    PROVE  Novel!WriteNext
<1>1. PICK row \in Texts :
         /\ chapters' = [chapters EXCEPT ![current] = row]
         /\ row.of = current /\ row.reviewed /\ row.by = "generation"
  BY PersistTexts
<1>2. current \in Indexes /\ current' = current + 1 /\ current < Total
  BY PersistTexts, TableFacts DEF Common
<1>3. row # None
  BY CheckpointAssumption
<1>4. /\ chapters'[current] = row
      /\ \A i \in Indexes \ {current} : chapters'[i] = chapters[i]
  BY <1>1, <1>2, TableFacts DEF Common
<1>5. \A i \in Indexes : Text(i)' = IF i = current THEN "generated" ELSE Text(i)
  BY <1>1, <1>2, <1>3, <1>4 DEF Text
<1>. QED
  BY <1>2, <1>5 DEF Novel!WriteNext

\* The chapter operations edit, rewrite and delete in the manuscript.
LEMMA OperationIsManuscript ==
    ASSUME Clean, Common, SerialInv, TextInv, NEW k \in Indexes,
           Edit(k) \/ Delete(k) \/ Rewrite(k)
    PROVE  Novel!EditOne(k) \/ Novel!DeleteFrom(k) \/ Novel!RewriteOne(k)
<1>1. k < current
  BY OperationTexts
<1>2. CASE Delete(k)
  <2>1. /\ chapters' = [i \in Indexes |-> IF i < k THEN chapters[i] ELSE None]
        /\ current' = k
    BY <1>2 DEF Delete
  <2>2. \A i \in Indexes : Text(i)' = IF i < k THEN Text(i) ELSE "none"
    BY <2>1 DEF Text
  <2>. QED
    BY <1>1, <2>1, <2>2 DEF Novel!DeleteFrom, Novel!Indexes, Indexes
<1>3. ASSUME NEW row \in Texts, NEW text \in {"edited", "generated"},
             chapters' = [chapters EXCEPT ![k] = row], row.of = k, row.reviewed,
             text = IF row.by = "edit" THEN "edited" ELSE "generated"
      PROVE  [i \in Indexes |-> Text(i)]' = [[i \in Indexes |-> Text(i)] EXCEPT ![k] = text]
  <2>1. row # None
    BY CheckpointAssumption
  <2>2. chapters'[k] = row /\ \A i \in Indexes \ {k} : chapters'[i] = chapters[i]
    BY <1>3, TableFacts DEF Common
  <2>3. \A i \in Indexes : Text(i)' = IF i = k THEN text ELSE Text(i)
    BY <1>3, <2>1, <2>2 DEF Text
  <2>. QED
    BY <2>3
<1>4. CASE Edit(k)
  <2>. DEFINE row == [chapters[k] EXCEPT !.by = "edit"]
  <2>1. chapters[k] \in Texts /\ chapters[k].of = k /\ chapters[k].reviewed
    BY <1>4, TableFacts DEF Edit, Exists, Common, TextInv, RowsFit
  <2>2. row \in Texts /\ row.of = k /\ row.reviewed /\ row.by = "edit"
    BY <2>1 DEF Texts
  <2>3. chapters' = [chapters EXCEPT ![k] = row] /\ current' = current
    BY <1>4 DEF Edit
  <2>. HIDE DEF row
  <2>4. [i \in Indexes |-> Text(i)]' = [[i \in Indexes |-> Text(i)] EXCEPT ![k] = "edited"]
    BY <1>3, <2>2, <2>3
  <2>. QED
    BY <1>1, <2>3, <2>4 DEF Novel!EditOne
<1>5. CASE Rewrite(k)
  <2>. DEFINE row == [of |-> k, reviewed |-> TRUE, by |-> "rewrite"]
  <2>1. row \in Texts /\ row.of = k /\ row.reviewed /\ row.by = "rewrite"
    BY DEF Texts
  <2>2. chapters' = [chapters EXCEPT ![k] = row] /\ current' = current
    BY <1>5 DEF Rewrite, SerialInv, Apart
  <2>. HIDE DEF row
  <2>3. [i \in Indexes |-> Text(i)]' = [[i \in Indexes |-> Text(i)] EXCEPT ![k] = "generated"]
    BY <1>3, <2>1, <2>2
  <2>. QED
    BY <1>1, <2>2, <2>3 DEF Novel!RewriteOne
<1>. QED
  BY <1>2, <1>4, <1>5

\* A step that leaves the rows and the progress is a stutter of the manuscript.
LEMMA TablesStutter ==
    ASSUME UNCHANGED <<chapters, current>>
    PROVE  UNCHANGED <<[i \in Indexes |-> Text(i)], current>>
BY DEF Text

\* Every step keeps what is known of the texts ...
LEMMA TextStep ==
    ASSUME Clean, Common, SerialInv, TextInv, [Next]_vars
    PROVE  TextInv'
<1>1. ~(\E p \in Pollers : Poll(p))
  BY DEF Clean, Serial, Alone
<1>. QED
  BY <1>1, StartTexts, GraphTexts, PersistTexts, OperationTexts, OtherTexts
  DEF Next, Generate, Operate

\* ... and is a step of the manuscript or a stutter.
LEMMA ManuscriptStep ==
    ASSUME Clean, Common, SerialInv, TextInv, [Next]_vars
    PROVE  [Novel!ManuscriptNext]_<<[i \in Indexes |-> Text(i)], current>>
<1>1. ~(\E p \in Pollers : Poll(p))
  BY DEF Clean, Serial, Alone
<1>2. CASE PersistChapter
  BY <1>2, PersistIsWriteNext DEF Novel!ManuscriptNext
<1>3. ASSUME NEW k \in Indexes, Edit(k) \/ Delete(k) \/ Rewrite(k)
      PROVE  Novel!ManuscriptNext
  BY <1>3, OperationIsManuscript DEF Novel!ManuscriptNext, Novel!Indexes, Indexes
<1>4. ASSUME Acquire \/ Refused \/ StartFresh \/ GoOn
      PROVE  UNCHANGED <<chapters, current>>
  BY <1>4 DEF Acquire, Refused, StartFresh, GoOn, dbVars
<1>5. ASSUME SetUp \/ PersistSetup \/ ChapterCommitted \/ Check \/ Write \/ Review
      PROVE  UNCHANGED <<chapters, current>>
  BY <1>5, GraphTypes DEF Common, dbVars
<1>. QED
  BY <1>1, <1>2, <1>3, <1>4, <1>5, OtherTexts, TablesStutter DEF Next, Generate, Operate

\* The tables behave as a manuscript, for a book of any length: the chapters are
\* written one after the other, each with a text of its place that was reviewed,
\* and change by edits, rewrites and deletions only, while the two copies of the
\* progress are reconciled behind it.
THEOREM ImplementsManuscript == Clean => (Spec => ManuscriptSpec)
<1>. SUFFICES ASSUME Clean
              PROVE  Spec => ManuscriptSpec
  OBVIOUS
<1>1. Init => TextInv
  BY DEF Init, TextInv, RowsFit, DraftFits
<1>2. Common /\ SerialInv /\ TextInv /\ [Next]_vars => TextInv'
  BY TextStep
<1>3. Common /\ SerialInv /\ TextInv /\ [Next]_vars
        => [Novel!ManuscriptNext]_<<[i \in Indexes |-> Text(i)], current>>
  BY ManuscriptStep
<1>4. Spec => [](Common /\ SerialInv)
  BY SerialInvariant DEF Clean, Serial
<1>. QED
  BY <1>1, <1>2, <1>3, <1>4, ManuscriptStarts, PTL
  DEF Spec, ManuscriptSpec, Novel!ManuscriptSpec
=============================================================================
