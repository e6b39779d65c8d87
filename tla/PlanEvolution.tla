---------------------------- MODULE PlanEvolution ----------------------------
(***************************************************************************)
(* How the plan of a book evolves (application/planning.py and the value   *)
(* object novel_plan.py): the first plan, the details of a volume that is  *)
(* entered, the replans of the future, of a volume and of the scale, and   *)
(* the shift of the events a chapter did not deliver.                      *)
(*                                                                         *)
(* The model proposes volumes and slots; what a plan becomes of them is    *)
(* deterministic: the slots of the past and of the lock window are taken   *)
(* from the plan before, the words that are left are shared out by the     *)
(* weights of the other slots, and the result is validated.  A slot is its *)
(* volume, its words, its level of detail, the plan its text is from and   *)
(* what it refers to: story arcs of the blueprint, and foreshadowing that  *)
(* it sets up or pays off.                                                 *)
(***************************************************************************)
EXTENDS Integers, Sequences, FiniteSetsExt, SequencesExt

CONSTANTS
    Sizes,          \* chapters a book may have
    Averages,       \* average words of a chapter a scale may ask for
    MinWords,       \* words of a chapter, at least (3000) ...
    MaxWords,       \* ... and at most (7000)
    MaxVolume,      \* chapters of a volume, at most (25)
    LockWindow,     \* chapters after the completed ones no plan may change (5)
    Weights,        \* intensity weights the model may give a slot
    Arcs,           \* ids of the story arcs of a blueprint that are told apart
    Hooks,          \* ids of foreshadowing: setup_ids and payoff_ids
    MaxPlotted,     \* bound: chapters of the longest book that has any of them
    MaxReferring,   \* bound: chapters of a generation that refer to any of them
    MaxHeavy,       \* bound: chapters of a generation above the least weight
    MaxVersion      \* bound: versions of a plan

ASSUME PlanAssumption ==
    /\ Sizes \subseteq Nat \ {0}
    /\ MinWords \in Nat /\ MaxWords \in Nat /\ MinWords <= MaxWords
    /\ Averages \subseteq MinWords .. MaxWords
    /\ MaxVolume \in Nat \ {0}
    /\ LockWindow \in Nat
    /\ Weights \subseteq Nat \ {0}
    /\ MaxHeavy \in Nat
    /\ MaxPlotted \in Nat
    /\ MaxReferring \in Nat
    /\ MaxVersion \in Nat

VARIABLES
    plan,       \* the accepted plan: version, scale, blueprint and slots
    completed,  \* chapters of the book that are written
    build       \* the last plan that was built: what it was for, the next
                \* chapter at the time, whether its volumes fit the lock, and
                \* what came of it

vars == <<plan, completed, build>>

-----------------------------------------------------------------------------
(* Scales and blueprints *)

Ceiling(a, b) == (a + b - 1) \div b

Scales == {[chapters |-> n, words |-> n * average] : n \in Sizes, average \in Averages}

\* Bound: the books with arcs and foreshadowing.  The others have weights.
Plotted(chapters) == chapters <= MaxPlotted

\* The arcs a blueprint may have: where each begins and ends, and whether its
\* escalation points lie between (which the blueprint is not asked for).  That a
\* core arc closes in the last chapter is asked of blueprint and plan alike.
ArcPlans(chapters) ==
    LET spans == {s \in [first : 1 .. chapters, last : 1 .. chapters, sound : BOOLEAN] :
                    s.first <= s.last}
    IN  UNION {[ids -> spans] : ids \in SUBSET (IF Plotted(chapters) THEN Arcs ELSE {})}

\* A blueprint names its volumes and says where each of them ends, and its arcs.
Blueprints(chapters) ==
    LET count == Ceiling(chapters, MaxVolume)
        start(ends, i) == IF i = 1 THEN 1 ELSE ends[i - 1] + 1
    IN  {[ids |-> [i \in 1 .. count |-> i], ends |-> ends, arcs |-> arcs] :
           ends \in {e \in [1 .. count -> 1 .. chapters] :
                       /\ e[count] = chapters
                       /\ \A i \in 1 .. count : e[i] - start(e, i) \in 0 .. MaxVolume - 1},
           arcs \in ArcPlans(chapters)}

\* The same volumes with other names.
Renamed(blueprint) == [blueprint EXCEPT !.ids = [i \in DOMAIN blueprint.ids |-> -i]]

AnyBlueprint(chapters) == Blueprints(chapters) \union {Renamed(b) : b \in Blueprints(chapters)}

Names(blueprint) == ToSet(blueprint.ids)

\* The volume a chapter is in.
VolumeOf(blueprint, chapter) ==
    blueprint.ids[CHOOSE i \in DOMAIN blueprint.ends :
                     /\ chapter <= blueprint.ends[i]
                     /\ \A j \in 1 .. i - 1 : blueprint.ends[j] < chapter]

\* The arcs of a blueprint a chapter is in.
ArcsAt(blueprint, c) ==
    {a \in DOMAIN blueprint.arcs : c \in blueprint.arcs[a].first .. blueprint.arcs[a].last}

\* The intensity weights a generation may give the chapters.
Weightings(chapters) ==
    {w \in [1 .. chapters -> Weights] :
        Cardinality({c \in 1 .. chapters : w[c] # Min(Weights)})
            <= (IF Plotted(chapters) THEN 0 ELSE MaxHeavy)}

Reference == [arcs : SUBSET Arcs, setups : SUBSET Hooks, payoffs : SUBSET Hooks]

NoReference == [arcs |-> {}, setups |-> {}, payoffs |-> {}]

\* What the chapters of a generation may refer to: the arcs of the blueprint they
\* are in or, which is a bound, foreshadowing if it has none.
Referrings(chapters, blueprint) ==
    LET references == {r \in Reference :
                         /\ r.arcs \subseteq DOMAIN blueprint.arcs
                         /\ r.setups \union r.payoffs # {} =>
                              Plotted(chapters) /\ DOMAIN blueprint.arcs = {}}
    IN  {refs \in [1 .. chapters -> references] :
           /\ \A c \in 1 .. chapters : refs[c].arcs \subseteq ArcsAt(blueprint, c)
           /\ Cardinality({c \in 1 .. chapters : refs[c] # NoReference}) <= MaxReferring}

-----------------------------------------------------------------------------
(* The words of the chapters *)

SumOver(f, S) == MapThenSumSet(LAMBDA i : f[i], S)

\* Variant: what the integer parts leave is not given to anybody.
AllocateFloors(excess, weights, capacity) ==
    LET I == DOMAIN weights
    IN  [i \in I |-> Min({capacity, (excess * weights[i]) \div SumOver(weights, I)})]

\* The words the integer parts leave go to the largest remainders, to the first
\* of equal ones.
ByRemainder(rest, weights, active) ==
    LET weight == SumOver(weights, active)
        whole == [i \in active |-> (rest * weights[i]) \div weight]
        part == [i \in active |-> (rest * weights[i]) % weight]
        left == rest - SumOver(whole, active)
        ahead == [i \in active |-> {j \in active : \/ part[j] > part[i]
                                                   \/ part[j] = part[i] /\ j < i}]
    IN  [i \in active |-> IF Cardinality(ahead[i]) < left THEN whole[i] + 1 ELSE whole[i]]

\* The excess over the minimum, by weight: whoever would get the capacity or
\* more gets just that and the others share the rest.
AllocateExcess(excess, weights, capacity) ==
    LET I == DOMAIN weights
        fill[active \in SUBSET I] ==
            LET rest == excess - capacity * Cardinality(I \ active)
                saturated == {i \in active :
                                rest * weights[i] >= capacity * SumOver(weights, active)}
                shares == ByRemainder(rest, weights, active)
            IN  IF active = {} \/ rest = 0
                THEN [i \in I |-> IF i \in active THEN 0 ELSE capacity]
                ELSE IF saturated # {} THEN fill[active \ saturated]
                ELSE [i \in I |-> IF i \in active THEN shares[i] ELSE capacity]
    IN  fill[I]

Allocatable(words, count) == words \in count * MinWords .. count * MaxWords

\* allocate_word_targets, for chapters with these weights.
Targets(words, weights) ==
    LET more == AllocateExcess(words - Cardinality(DOMAIN weights) * MinWords, weights,
                               MaxWords - MinWords)
    IN  [i \in DOMAIN weights |-> MinWords + more[i]]

-----------------------------------------------------------------------------
(* A plan from the slots the model gave *)

NoPlan == [version |-> 0, scale |-> [chapters |-> 0, words |-> 0],
           blueprint |-> [ids |-> <<>>, ends |-> <<>>, arcs |-> <<>>], slots |-> <<>>]

Exists == plan.version > 0

Chapters(p) == 1 .. p.scale.chapters

\* Variant: only what is written is locked.
LockedWritten == completed

\* _locked_through: the chapters a new plan takes over as they are.
LockedThrough == completed + LockWindow

IsLocked(c) == c \in Chapters(plan) /\ c <= LockedThrough

\* Variant: the targets of the lock are given out anew with the others.
KeepsNoWords(c, preserve) == FALSE

\* The chapters whose words are kept: all of them when only a volume is planned.
KeepsWords(c, preserve) == c \in Chapters(plan) /\ (preserve \/ c <= completed + LockWindow)

\* Raw slots: chapter, volume, weight, detailed, made, refs.  The words of those
\* that are not protected are what the protected ones leave.
FreeWords(scale, raw, preserve) ==
    scale.words - SumOver([r \in raw |-> plan.slots[r.chapter].words],
                          {r \in raw : KeepsWords(r.chapter, preserve)})

Free(raw, preserve) == {r \in raw : ~KeepsWords(r.chapter, preserve)}

Closes(scale, raw, preserve) ==
    LET free == Free(raw, preserve)
        rest == FreeWords(scale, raw, preserve)
    IN  IF free = {} THEN rest = 0 ELSE Allocatable(rest, Cardinality(free))

\* _materialize_slots and _budgeted_volumes, of raw slots that are one for
\* every chapter.
Materialized(scale, raw, preserve) ==
    LET slotOf(c) == CHOOSE r \in raw : r.chapter = c
        free == {r.chapter : r \in Free(raw, preserve)}
        words == Targets(FreeWords(scale, raw, preserve), [c \in free |-> slotOf(c).weight])
    IN  [c \in 1 .. scale.chapters |->
            IF IsLocked(c)
            THEN plan.slots[c]
            ELSE [volume |-> slotOf(c).volume,
                  words |-> IF c \in free THEN words[c] ELSE plan.slots[c].words,
                  detailed |-> slotOf(c).detailed,
                  made |-> slotOf(c).made,
                  refs |-> slotOf(c).refs]]

\* The slots are in their volumes, and their words are legal and add up.
SlotsFit(p) ==
    /\ \A c \in Chapters(p) : /\ p.slots[c].volume = VolumeOf(p.blueprint, c)
                              /\ p.slots[c].words \in MinWords .. MaxWords
    /\ SumOver([c \in Chapters(p) |-> p.slots[c].words], Chapters(p)) = p.scale.words

\* The arcs escalate within their chapters, and a slot is of arcs the plan has
\* there.
ArcsHold(p) ==
    /\ \A a \in DOMAIN p.blueprint.arcs : p.blueprint.arcs[a].sound
    /\ \A c \in Chapters(p) : p.slots[c].refs.arcs \subseteq ArcsAt(p.blueprint, c)

\* What is foreshadowed is paid off, in a later chapter, and nothing else is.
HooksHold(p) ==
    \A h \in Hooks :
        LET setUp == {c \in Chapters(p) : h \in p.slots[c].refs.setups}
            paid == {c \in Chapters(p) : h \in p.slots[c].refs.payoffs}
        IN  /\ setUp = {} <=> paid = {}
            /\ setUp # {} => Min(setUp) < Min(paid)

\* validate_novel_plan, as far as the model and what is kept may go wrong.
IsValid(p) == SlotsFit(p) /\ ArcsHold(p) /\ HooksHold(p)

\* validate_plan_transition
KeepsTheLock(p) ==
    \A c \in Chapters(plan) :
        c <= completed + LockWindow => c \in Chapters(p) /\ p.slots[c] = plan.slots[c]

\* Variant: the plan is not validated.
OutcomeUnvalidated(p, raw, preserve) ==
    IF ~Closes(p.scale, raw, preserve) THEN "unclosable"
    ELSE IF \E r \in raw : r.volume \notin Names(p.blueprint) THEN "crash"
    ELSE IF ~KeepsTheLock(p) THEN "touches the lock"
    ELSE "valid"

\* Variant: nobody looks whether foreshadowing is paid off.
VerdictOfSlots(p) ==
    IF ~SlotsFit(p) THEN "invalid"
    ELSE IF ~ArcsHold(p) THEN "dangling"
    ELSE IF ~KeepsTheLock(p) THEN "touches the lock"
    ELSE "valid"

\* What a plan is refused for: the first of the errors of validate_novel_plan, in
\* this order, and then those of validate_plan_transition.
Verdict(p) ==
    IF ~SlotsFit(p) THEN "invalid"
    ELSE IF ~ArcsHold(p) THEN "dangling"
    ELSE IF ~HooksHold(p) THEN "unpaid"
    ELSE IF ~KeepsTheLock(p) THEN "touches the lock"
    ELSE "valid"

\* What comes of a plan p of these raw slots.  A slot that stayed of a volume the
\* blueprint does not know is a KeyError.
Outcome(p, raw, preserve) ==
    IF ~Closes(p.scale, raw, preserve) THEN "unclosable"
    ELSE IF \E r \in raw : r.volume \notin Names(p.blueprint) THEN "crash"
    ELSE Verdict(p)

\* Whether the volumes of the plan before are all in the blueprint, those of the
\* lock with the same chapters.
FitsTheLock(blueprint) ==
    /\ Names(plan.blueprint) \subseteq Names(blueprint)
    /\ \A c \in Chapters(plan) : IsLocked(c) =>
        /\ c <= Last(blueprint.ends)
        /\ VolumeOf(blueprint, c) = plan.slots[c].volume

\* build_plan: what does not pass is not stored, and the plan stays as it was.
Build(kind, scale, blueprint, raw, preserve) ==
    LET candidate == [version |-> plan.version + 1, scale |-> scale, blueprint |-> blueprint,
                      slots |-> Materialized(scale, raw, preserve)]
        outcome == Outcome(candidate, raw, preserve)
    IN  /\ plan.version < MaxVersion
        /\ build' = [kind |-> kind, chapter |-> completed + 1,
                     fits |-> FitsTheLock(blueprint), outcome |-> outcome]
        /\ plan' = IF outcome = "valid" THEN candidate ELSE plan
        /\ UNCHANGED completed

-----------------------------------------------------------------------------
(* Operations *)

Init ==
    /\ plan = NoPlan
    /\ completed \in {0} \union {n - 1 : n \in Sizes}
    /\ build = [kind |-> "none", chapter |-> 0, fits |-> TRUE, outcome |-> "valid"]

\* The slots the model writes for these volumes: those of the volume that is
\* being written in detail, the others as a skeleton.
Written(blueprint, volumes, weights, refs) ==
    {[chapter |-> c, volume |-> VolumeOf(blueprint, c), weight |-> weights[c],
      detailed |-> VolumeOf(blueprint, c) = VolumeOf(blueprint, completed + 1),
      made |-> plan.version + 1, refs |-> refs[c]] :
        c \in {d \in DOMAIN weights : VolumeOf(blueprint, d) \in volumes}}

\* The slots of the plan before that no volume of this generation replaces.
Retained(volumes) ==
    {[chapter |-> c, volume |-> plan.slots[c].volume, weight |-> plan.slots[c].words,
      detailed |-> plan.slots[c].detailed, made |-> plan.slots[c].made,
      refs |-> plan.slots[c].refs] :
        c \in {d \in Chapters(plan) : plan.slots[d].volume \notin volumes}}

\* Chapters that were written before there was a plan count as detailed.
Legacy(raw) == {[r EXCEPT !.detailed = r.detailed \/ r.chapter <= completed] : r \in raw}

\* The plan of a new book, and that of one with chapters and no plan.
FirstPlan ==
    /\ ~Exists
    /\ \E scale \in Scales :
         /\ completed < scale.chapters
         /\ \E blueprint \in Blueprints(scale.chapters),
               weights \in Weightings(scale.chapters) :
              \E refs \in Referrings(scale.chapters, blueprint) :
                Build("first", scale, blueprint,
                      Legacy(Written(blueprint, Names(blueprint), weights, refs)), FALSE)

\* The next chapter is written to a slot that is detailed.
Complete ==
    /\ Exists /\ completed < plan.scale.chapters
    /\ plan.slots[completed + 1].detailed
    /\ completed' = completed + 1
    /\ UNCHANGED <<plan, build>>

\* The chapters from some chapter on are deleted; the plan stays.
Rewind ==
    /\ Exists
    /\ completed' \in 0 .. completed - 1
    /\ UNCHANGED <<plan, build>>

\* Variant: a plan of a volume gives the words of its chapters out anew.
PlanVolumeAnew(kind) ==
    LET volume == {VolumeOf(plan.blueprint, completed + 1)}
    IN  \E weights \in Weightings(plan.scale.chapters),
           refs \in Referrings(plan.scale.chapters, plan.blueprint) :
          Build(kind, plan.scale, plan.blueprint,
                Written(plan.blueprint, volume, weights, refs) \union Retained(volume), FALSE)

\* Variant: a plan of a volume draws the arcs anew.
PlanVolumeAndArcs(kind) ==
    LET volume == {VolumeOf(plan.blueprint, completed + 1)}
    IN  \E arcs \in ArcPlans(plan.scale.chapters), weight \in Weights :
          LET blueprint == [plan.blueprint EXCEPT !.arcs = arcs]
          IN  \E refs \in Referrings(plan.scale.chapters, blueprint) :
                Build(kind, plan.scale, blueprint,
                      Written(blueprint, volume, [c \in Chapters(plan) |-> weight], refs)
                          \union Retained(volume), TRUE)

\* The volume of the next chapter is planned again, with the volumes and arcs of
\* the plan before; no words are moved.
PlanVolume(kind) ==
    LET volume == {VolumeOf(plan.blueprint, completed + 1)}
    IN  \E weight \in Weights, refs \in Referrings(plan.scale.chapters, plan.blueprint) :
          Build(kind, plan.scale, plan.blueprint,
                Written(plan.blueprint, volume, [c \in Chapters(plan) |-> weight], refs)
                    \union Retained(volume), TRUE)

\* The router: a chapter whose slot is a skeleton has its volume detailed.
VolumeDetail ==
    /\ Exists /\ completed < plan.scale.chapters
    /\ ~plan.slots[completed + 1].detailed
    /\ PlanVolume("volume_detail")

ReplanVolume ==
    /\ Exists /\ completed < plan.scale.chapters
    /\ PlanVolume("volume")

\* Volumes and arcs are drawn anew; slots of volumes with other names are still
\* there.
Redraw(kind, scale) ==
    \E blueprint \in AnyBlueprint(scale.chapters), weights \in Weightings(scale.chapters) :
        \E refs \in Referrings(scale.chapters, blueprint) :
            Build(kind, scale, blueprint,
                  Written(blueprint, Names(blueprint), weights, refs)
                      \union Retained(Names(blueprint)), FALSE)

ReplanFuture ==
    /\ Exists /\ completed < plan.scale.chapters
    /\ Redraw("future", plan.scale)

\* _candidate_scale: a book does not shrink below the lock.
ScaleFits(scale) == scale.chapters >= completed + LockWindow

ReplanScale ==
    /\ Exists /\ completed < plan.scale.chapters
    /\ \E scale \in Scales : ScaleFits(scale) /\ Redraw("scale", scale)

\* reschedule_minor_drift: what chapter "completed" left undone goes to the
\* first slot after the lock, if there is one.
MinorDrift ==
    /\ Exists /\ completed > 0 /\ plan.version < MaxVersion
    /\ completed + LockWindow < plan.scale.chapters
    /\ LET next == completed + LockWindow + 1
           moved == [version |-> plan.version + 1, scale |-> plan.scale,
                     blueprint |-> plan.blueprint,
                     slots |-> [plan.slots EXCEPT ![next].made = plan.version + 1]]
       IN  /\ build' = [kind |-> "drift", chapter |-> completed + 1, fits |-> TRUE,
                        outcome |-> Verdict(moved)]
           /\ plan' = IF Verdict(moved) = "valid" THEN moved ELSE plan
    /\ UNCHANGED completed

Next ==
    \/ FirstPlan
    \/ Complete
    \/ Rewind
    \/ VolumeDetail
    \/ ReplanVolume
    \/ ReplanFuture
    \/ ReplanScale
    \/ MinorDrift

Spec == Init /\ [][Next]_vars

-----------------------------------------------------------------------------
(* Properties *)

Kinds == {"none", "first", "volume_detail", "volume", "future", "scale", "drift"}
Outcomes == {"valid", "unclosable", "crash", "invalid", "dangling", "unpaid",
             "touches the lock"}

\* Type correctness: the plan in force is one that validates, whatever was
\* replanned, rewound and shifted before.
TypeOK ==
    /\ completed \in Nat
    /\ build \in [kind : Kinds, chapter : Nat, fits : BOOLEAN, outcome : Outcomes]
    /\ plan.version \in 0 .. MaxVersion
    /\ Exists => /\ plan.scale \in Scales
                 /\ plan.blueprint \in AnyBlueprint(plan.scale.chapters)
                 /\ completed <= plan.scale.chapters
                 /\ DOMAIN plan.slots = Chapters(plan)
                 /\ IsValid(plan)

\* allocate_word_targets against what its comment promises: the words add up,
\* nobody gets less than the minimum or more than the maximum, who weighs more
\* gets no less, and the chapters fall into some that are at the maximum and
\* could have had more, and the others, who share what is left over by weight:
\* none of them is a whole word off its share.  (Looked at once, at the start.)
AllocationIsExact ==
    build.kind = "none" =>
    \A n \in Sizes : \A count \in 1 .. n :
      \A weights \in [1 .. count -> Weights \union {w + 1 : w \in Weights}],
         words \in count * MinWords .. count * MaxWords :
        LET all == 1 .. count
            targets == Targets(words, weights)
            more == [i \in all |-> targets[i] - MinWords]
        IN  /\ SumOver(targets, all) = words
            /\ \A i \in all : targets[i] \in MinWords .. MaxWords
            /\ \A i, j \in all : weights[i] > weights[j] => targets[i] >= targets[j]
            /\ \E open \in SUBSET all :
                 LET weight == SumOver(weights, open)
                     shared == SumOver(more, open)
                 IN  /\ \A i \in all \ open : /\ targets[i] = MaxWords
                                              /\ shared * weights[i] >= more[i] * weight
                     /\ \A i \in open : more[i] * weight - shared * weights[i]
                                          \in 1 - weight .. weight - 1

\* A plan that build_plan or the drift produces never touches the chapters
\* that are written or the window after them: what is taken over from the plan
\* before and what validate_plan_transition asks for are the same chapters,
\* also when the book shrinks or was rewound.
LockIsKept == build.outcome # "touches the lock"

\* A shift of events always passes.  A plan of a volume, and a replan of the
\* future that keeps the volumes of the lock, always close in volumes and words:
\* what is kept never leaves the other chapters too few or too many, whatever is
\* locked after however many replans and rewinds.  What can refuse them is what
\* the slots that are kept refer to: for a plan of a volume, which takes over the
\* arcs, only foreshadowing of which the other half was in a slot it replaced.
ReplanCloses ==
    /\ build.kind = "drift" => build.outcome = "valid"
    /\ build.kind \in {"volume_detail", "volume"} => build.outcome \in {"valid", "unpaid"}
    /\ build.kind = "future" /\ build.fits =>
         build.outcome \in {"valid", "dangling", "unpaid"}

\* Planning a volume and shifting events move no words from chapter to chapter.
WordsStable ==
    [][build'.kind \in {"volume_detail", "volume", "drift"} /\ plan' # plan =>
         /\ plan'.scale = plan.scale
         /\ \A c \in Chapters(plan) : plan'.slots[c].words = plan.slots[c].words]_vars

\* "Before a new volume is entered, the volume of the chapter is detailed"
\* (the router's message): once the plan that details a volume is accepted the
\* chapter it was made for has a detailed slot.
DetailedWhenEntered ==
    build.kind = "volume_detail" /\ build.outcome = "valid" /\ build.chapter = completed + 1
        => plan.slots[completed + 1].detailed

=============================================================================
