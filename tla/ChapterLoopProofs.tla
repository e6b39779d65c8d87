-------------------------- MODULE ChapterLoopProofs --------------------------
(***************************************************************************)
(* What the writing loop guarantees for books of any length, any lock, any *)
(* limits of revisions and restarts and any number of versions, as long as *)
(* fresh starts and the schema upgrade come between two chapters.          *)
(*                                                                         *)
(* The inductive invariant says of every place a checkpoint can stop at    *)
(* what the checkpoint remembers there.  It is stated of a checkpoint and  *)
(* of the tables, LoopInv(c, d): a node ends with its update or fails, and *)
(* either way its transactions may have been had, so that what is to be    *)
(* shown of a node is LoopInv of the checkpoint it makes and of the tables *)
(* it leaves, together and each with what was there before (Settled).      *)
(* There is one lemma per update a node makes and one per action.          *)
(* A second invariant beside it, Tied(c, d), says what plan and window an  *)
(* outline in the checkpoint was made for.  A third one, BatchInv(c), is    *)
(* of the batch that makes a plan alone, and holds wherever fresh starts   *)
(* and upgrades come.                                                      *)
(***************************************************************************)
EXTENDS ChapterLoop, TLAPS

\* The nodes between the router and the draft, with the draft, of the plan, and
\* those that are reached with no chapter under way.
WayNodes == {"memory", "quota", "tactical", "outline", "outline_review",
             "chapter_plan_review", "write"}
DraftNodes == {"compact", "reflect", "reflect_review", "revise", "revise_review"}
PlanNodes == {"plan", "volume", "finalize", "plan_review"}
CalmNodes == PlanNodes \cup {"start", "end", "progress", "reconcile"}

\* A chapter is under way: its draft or its memory is there.
Underway(c) == c.text \/ (c.index > 0 /\ c.memFor = c.index)

\* A planned book has its plan, and nothing asks for another.
Accepted(c) == Planned(c) => ~c.replan /\ c.plan # 0

\* The position of the checkpoint is that of the chapters, but for a draft that
\* is being stored or that a user rewrote after it was.
Placed(c, d) ==
    /\ ~c.text => c.index = d.chapters
    /\ c.text => c.index < Total /\ d.chapters \in {c.index, c.index + 1}
    /\ c.next \in WayNodes \cup DraftNodes \cup {"router"} => c.index < Total
    /\ c.next = "reconcile" => c.index > 0
    /\ c.memFor <= c.index

\* What is under way, drafted, checked and planned at each node.
Sequenced(c) ==
    /\ c.next \in CalmNodes => ~Underway(c)
    /\ c.next = "persist" /\ ~c.text => ~Underway(c)
    /\ c.next \in DraftNodes => c.text
    /\ c.replan => Planned(c)
    /\ c.next \in WayNodes \ {"write"} => ~c.text
    /\ Underway(c) => Accepted(c)
    /\ c.next \in WayNodes => Accepted(c)
    /\ c.next \in PlanNodes \cup {"reconcile", "tactical", "chapter_plan_review"} => Planned(c)
    /\ c.next = "outline_review" => ~Planned(c)
    /\ c.next = "compact" => ~c.checked
    /\ c.next \in {"reflect", "reflect_review", "revise", "revise_review"} => c.checked
    /\ c.next = "persist" /\ c.text => c.checked

\* The memory is of the position wherever a later node relies on it.
Remembers(c) ==
    c.index > 0 =>
        /\ c.next \in WayNodes \ {"memory"} => c.memFor = c.index
        /\ c.text => c.memFor = c.index
        /\ c.memFor = c.index => c.memory = c.index

\* The reservation a checkpoint remembers is in the tables.
Charged(c, d) ==
    /\ c.quotaFor \in d.paid \cup {Unset}
    /\ c.text => c.index \in d.paid
    /\ c.next \in {"tactical", "chapter_plan_review"} => c.index \in d.paid
    /\ c.next = "outline" /\ Planned(c) => c.index \in d.paid

\* The proposal is a review or a revision of the chapter in hand.
OfTheDraft(c) ==
    /\ c.pending.kind \in {"reflection", "revision"}
    /\ c.pending.chapter = c.index + 1

\* The outline will not be taken for the one of the next chapter.
Outdated(c) ==
    c.outline.chapter <= c.index \/ c.replan \/ c.outline.plan < c.plan \/ c.plan = 0

\* A proposal that is pending is about what the checkpoint is about, and a review
\* that is next finds its own.
Proposed(c) ==
    LET p == c.pending
        found(kind, chapter) == p.kind = kind /\ p.chapter = chapter
    IN  /\ p.chapter <= c.index + 1
        /\ OfTheDraft(c) => c.text /\ c.checked /\ p.current
        /\ p.kind \in {"chapter_plan", "chapter_outline"} /\ p.chapter = c.index + 1 /\ ~c.text
              => p.current
        /\ p.kind = "novel_plan" => Planned(c) /\ ~c.text /\ p.current /\ Outdated(c)
        /\ c.next = "write" => ~OfTheDraft(c) /\ p.kind # "novel_plan"
        /\ c.next = "reconcile" => p.kind # "novel_plan"
        /\ c.next = "plan_review" => found("novel_plan", 0)
        /\ c.next = "chapter_plan_review" => found("chapter_plan", c.index + 1)
        /\ c.next = "outline_review" => found("chapter_outline", c.index + 1)
        /\ c.next = "reflect_review" => found("reflection", c.index + 1)
        /\ c.next = "revise_review" => found("revision", c.index + 1)

\* The plan of the checkpoint is not ahead of the tables, nor its outline of the
\* plan; a plan the tables accepted from the pending proposal is their latest.
Bound(c, d) ==
    /\ c.outline.chapter <= c.index + 1
    /\ c.next = "reconcile" => c.outline.chapter <= c.index
    /\ c.outline.plan <= c.plan
    /\ c.plan <= d.plan
    /\ c.next \in PlanNodes => Outdated(c)
    /\ c.pending.kind = "novel_plan" /\ c.pending.id = d.accepted.key
          => d.accepted.version = d.plan

\* A gate that was taken is of the draft that is stored, and then of the chapter.
Judged(c) ==
    /\ c.next = "persist" /\ c.text /\ c.gate.taken
          => c.gate.about = c.index + 1 /\ c.gate.current
    /\ c.next = "reconcile" /\ c.gate.taken => c.gate.about = c.index

\* A batch that replaces a structure requires a human.
Batched(c) ==
    /\ c.gen.mode \in {"replan", "legacy_upgrade"} => c.gen.forced
    /\ c.next \in {"volume", "finalize", "plan_review"} => c.gen.mode # "none"
    /\ c.pending.kind = "novel_plan" => c.gen.mode # "none"

LoopInv(c, d) ==
    /\ c \in Checkpoints /\ d \in Tables
    /\ Placed(c, d) /\ Sequenced(c) /\ Remembers(c) /\ Charged(c, d)
    /\ Proposed(c) /\ Bound(c, d) /\ Judged(c) /\ Batched(c)

USE DEF PlanNodes, WayNodes, DraftNodes, CalmNodes, Nodes, Planned, Unset, Nobody, Chapter

-----------------------------------------------------------------------------
(* How nodes end, and where the router leads *)

\* A node that settles leaves the invariant if its update, its tables and the
\* old checkpoint over its tables have it.
LEMMA Settled ==
    ASSUME NEW new, NEW store, NEW mode, Settle(new, store, mode),
           LoopInv(ckpt, db), LoopInv(new, store), LoopInv(ckpt, store)
    PROVE  LoopInv(ckpt', db')
BY Zenon DEF Settle, Fails

\* An update that has the invariant over the tables as they are is enough.
LEMMA Updated ==
    ASSUME NEW new, NEW mode, Settle(new, db, mode), LoopInv(ckpt, db), LoopInv(new, db)
    PROVE  LoopInv(ckpt', db')
BY Settled

\* Where the router leads, and what is known of the checkpoint there.
LEMMA Routed ==
    ASSUME NEW c
    PROVE  LET onPlan == Planned(c) => ~c.replan /\ c.plan # 0
               onWay == onPlan /\ ~c.text /\ (c.index > 0 => c.memFor = c.index)
               charged == Planned(c) => c.quotaFor = c.index
           IN  \/ Route(c) = "plan" /\ ~onPlan /\ Planned(c)
               \/ Route(c) = "compact" /\ onPlan /\ c.text /\ ~c.checked
               \/ Route(c) = "reflect" /\ onPlan /\ c.text /\ c.checked
               \/ Route(c) = "memory" /\ onPlan /\ ~c.text /\ c.index > 0
               \/ Route(c) = "quota" /\ onWay /\ Planned(c)
               \/ Route(c) = "tactical" /\ onWay /\ Planned(c) /\ charged /\ ~WindowActive(c)
               \/ Route(c) = "outline" /\ onWay /\ charged /\ ~OutlineReady(c)
                  /\ (Planned(c) => WindowActive(c))
               \/ Route(c) = "write" /\ onWay /\ charged /\ OutlineReady(c)
                  /\ (Planned(c) => WindowActive(c))
<1> DEFINE called(i) == Called(c, Destinations[i])
           isFirst(i) == called(i) /\ \A j \in 1 .. i - 1 : ~called(j)
           first == CHOOSE i \in 1 .. 8 : isFirst(i)
<1>1. /\ Destinations[1] = "plan"    /\ Destinations[2] = "compact"
      /\ Destinations[3] = "reflect" /\ Destinations[4] = "memory"
      /\ Destinations[5] = "quota"   /\ Destinations[6] = "tactical"
      /\ Destinations[7] = "outline" /\ Destinations[8] = "write"
  BY DEF Destinations
<1>2. /\ called(1) <=> Planned(c) /\ (c.replan \/ c.plan = 0)
      /\ called(2) <=> c.text /\ ~c.checked
      /\ called(3) <=> c.text
      /\ called(4) <=> c.index > 0 /\ c.memFor # c.index
      /\ called(5) <=> Uncharged(c)
      /\ called(6) <=> Planned(c) /\ ~WindowActive(c)
      /\ called(7) <=> ~OutlineReady(c)
      /\ called(8)
  BY <1>1 DEF Called
<1>3. PICK i \in 1 .. 8 : isFirst(i)
  <2>1. \A i \in 1 .. 8 : i \in {1, 2, 3, 4, 5, 6, 7, 8}
    OBVIOUS
  <2> HIDE DEF called
  <2>2. called(8)
    BY <1>2
  <2>3. (\E i \in 1 .. 8 : called(i) /\ \A j \in 1 .. i - 1 : ~called(j))
    BY <2>1, <2>2
  <2> QED BY <2>3
<1>4. first \in 1 .. 8 /\ isFirst(first)
  <2> HIDE DEF called
  <2> QED BY <1>3
<1>5. Route(c) = Destinations[first]
  BY DEF Route
<1>6. QED
  <2> HIDE DEF called, first
  <2>1. first \in {1, 2, 3, 4, 5, 6, 7, 8}
    BY <1>4
  <2>2. called(first) /\ \A j \in 1 .. 8 : j < first => ~called(j)
    BY <1>4
  <2>3. QED BY <1>1, <1>2, <1>5, <2>1, <2>2 DEF Uncharged

\* The id of a new proposal is not the one the tables remember.
LEMMA FreshIdIsFresh ==
    ASSUME db \in Tables
    PROVE  FreshId \in 0 .. 2 /\ FreshId # db.accepted.key
<1>1. db.accepted.key \in 0 .. 2
  BY DEF Tables
<1>2. \E id \in 1 .. 2 : id # db.accepted.key
  BY <1>1
<1> QED BY <1>2 DEF FreshId

\* A proposal of this kind, made now.
IsNew(p, kind, chapter) ==
    /\ p \in Proposals
    /\ p.id # db.accepted.key
    /\ p.kind = kind /\ p.chapter = chapter /\ p.current

\* The tables as far as the checkpoint relies on them.
Stored(s, chapters, plan, paid, accepted) ==
    /\ s.chapters = chapters /\ s.plan = plan
    /\ s.paid = paid /\ s.accepted = accepted

\* What a fresh start puts over the checkpoint, and where it leads.
Seeding(schema, replan, next) ==
    /\ schema >= ckpt.schema
    /\ ckpt.replan => replan
    /\ replan => schema = 5
    /\ next = IF schema = 5 /\ (db.plan = 0 \/ replan) THEN "plan" ELSE "persist"

\* What is left of a checkpoint that goes back to index.
Rewinding(index, next, outline) ==
    /\ next = "router" => index < Total
    /\ outline.chapter <= index
    /\ outline.plan <= ckpt.plan

\* No window is a window, ...
LEMMA NoWindowIsTyped == NoWindow \in Windows
BY LoopAssumption DEF NoWindow, Windows, Indexes

\* ... and what stands for no proposal, outline, gate or batch is typed too.
LEMMA NothingIsTyped ==
    /\ NoProposal \in Proposals
    /\ NoOutline \in Outlines
    /\ NoGate \in Gates
    /\ NoGeneration \in Generations
BY NoWindowIsTyped, LoopAssumption
DEF NoProposal, NoOutline, NoGate, NoGeneration, Proposals, Outlines, Gates, Generations,
    Kinds, Modes, Indexes

\* A batch that begins has a mode and requires a human if it replaces something.
LEMMA NewGenerationIsTyped ==
    ASSUME ckpt \in Checkpoints
    PROVE  /\ NewGeneration \in Generations
           /\ NewGeneration.mode # "none"
           /\ NewGeneration.mode \in {"replan", "legacy_upgrade"} => NewGeneration.forced
<1>1. ckpt.plan \in Nat /\ ckpt.index \in Nat /\ ckpt.replan \in BOOLEAN
  BY LoopAssumption DEF Checkpoints, Indexes
<1>2. /\ Mode \in Modes \ {"none"}
      /\ Mode = "replan" => ckpt.replan
  BY <1>1 DEF Mode, Modes
<1>3. PICK f \in BOOLEAN : f = (Mode = "legacy_upgrade" \/ ckpt.replan)
  BY Zenon
<1>4. NewGeneration = [mode |-> Mode, expected |-> ckpt.plan, left |-> 1, restarts |-> 0,
     forced |-> f]
  BY <1>3, Zenon DEF NewGeneration
<1>5. NewGeneration \in Generations
  BY <1>4, <1>1, <1>2, LoopAssumption DEF Generations
<1>6. NewGeneration.mode = Mode /\ NewGeneration.forced = f
  BY <1>4
<1>7. Mode \in {"replan", "legacy_upgrade"} => f
  BY <1>2, <1>3, Zenon
<1> QED BY <1>5, <1>6, <1>7, <1>2

-----------------------------------------------------------------------------
(* What the updates of the nodes make of a checkpoint that has the invariant *)

USE DEF Placed, Sequenced, Indexes, Accepted, Underway, OfTheDraft, Outdated

\* The plan that was proposed is reviewed.
LEMMA PlanTakenUp ==
    ASSUME LoopInv(ckpt, db),
           ckpt.next = "plan",
           Matches("novel_plan", 0)
    PROVE  LoopInv([ckpt EXCEPT !.next = "plan_review"], db)
<1> DEFINE new == [ckpt EXCEPT !.next = "plan_review"]
<1>1. ckpt \in Checkpoints /\ db \in Tables
  BY DEF LoopInv
<1>2. new \in Checkpoints
  BY <1>1, LoopAssumption DEF Checkpoints
<1>3. Placed(new, db) /\ Sequenced(new)
  BY DEF LoopInv, Checkpoints, Tables, Matches
<1>4. Remembers(new) /\ Charged(new, db)
  BY DEF LoopInv, Checkpoints, Tables, Remembers, Charged, Matches
<1>5. Proposed(new)
  BY DEF LoopInv, Checkpoints, Proposals, Outlines, Proposed, Bound, Matches
<1>6. Bound(new, db)
  BY DEF LoopInv, Checkpoints, Tables, Proposals, Outlines, Proposed, Bound, Matches
<1>7. Judged(new) /\ Batched(new)
  BY DEF LoopInv, Checkpoints, Proposals, Gates, Generations, Judged, Batched, Proposed, Matches
<1>8. QED
  BY <1>1, <1>2, <1>3, <1>4, <1>5, <1>6, <1>7 DEF LoopInv, new

\* The batch of volumes goes on.
LEMMA Generating ==
    ASSUME LoopInv(ckpt, db),
           NEW gen \in Generations,
           NEW next \in {"volume", "finalize"},
           ckpt.next \in {"plan", "volume", "finalize"},
           gen.mode # "none",
           gen.mode \in {"replan", "legacy_upgrade"} => gen.forced
    PROVE  LoopInv([ckpt EXCEPT !.next = next, !.gen = gen], db)
<1> DEFINE new == [ckpt EXCEPT !.next = next, !.gen = gen]
<1>1. ckpt \in Checkpoints /\ db \in Tables
  BY DEF LoopInv
<1>2. new \in Checkpoints
  BY <1>1, LoopAssumption DEF Checkpoints
<1>3. Placed(new, db) /\ Sequenced(new)
  BY DEF LoopInv, Checkpoints, Tables
<1>4. Remembers(new) /\ Charged(new, db)
  BY DEF LoopInv, Checkpoints, Tables, Remembers, Charged
<1>5. Proposed(new)
  BY DEF LoopInv, Checkpoints, Proposals, Outlines, Proposed, Bound
<1>6. Bound(new, db)
  BY DEF LoopInv, Checkpoints, Tables, Proposals, Outlines, Proposed, Bound
<1>7. Judged(new) /\ Batched(new)
  BY DEF LoopInv, Checkpoints, Proposals, Gates, Generations, Judged, Batched, Proposed
<1>8. QED
  BY <1>1, <1>2, <1>3, <1>4, <1>5, <1>6, <1>7 DEF LoopInv, new

\* The batch becomes a proposal.
LEMMA PlanProposed ==
    ASSUME LoopInv(ckpt, db),
           NEW p,
           ckpt.next = "finalize",
           IsNew(p, "novel_plan", 0)
    PROVE  LoopInv([ckpt EXCEPT !.next = "plan_review", !.pending = p], db)
<1> DEFINE new == [ckpt EXCEPT !.next = "plan_review", !.pending = p]
<1>1. ckpt \in Checkpoints /\ db \in Tables
  BY DEF LoopInv
<1>2. p \in Proposals
  BY <1>1 DEF IsNew
<1>3. new \in Checkpoints
  BY <1>1, <1>2, LoopAssumption DEF Checkpoints
<1>4. Placed(new, db) /\ Sequenced(new)
  BY DEF LoopInv, Checkpoints, Tables, IsNew
<1>5. Remembers(new) /\ Charged(new, db)
  BY DEF LoopInv, Checkpoints, Tables, Remembers, Charged, IsNew
<1>6. Proposed(new)
  BY DEF LoopInv, Checkpoints, Proposals, Outlines, Proposed, Bound, IsNew
<1>7. Bound(new, db)
  BY DEF LoopInv, Checkpoints, Tables, Proposals, Outlines, Proposed, Bound, IsNew
<1>8. Judged(new) /\ Batched(new)
  BY DEF LoopInv, Checkpoints, Proposals, Gates, Generations, Judged, Batched, Proposed, IsNew
<1>9. QED
  BY <1>1, <1>3, <1>4, <1>5, <1>6, <1>7, <1>8 DEF LoopInv, new

\* The memory of the position is there.
LEMMA Retrieved ==
    ASSUME LoopInv(ckpt, db),
           ckpt.next = "memory"
    PROVE  LoopInv([ckpt EXCEPT !.memory = ckpt.index, !.memFor = ckpt.index,
                                !.next = "router"], db)
<1> DEFINE new == [ckpt EXCEPT !.memory = ckpt.index, !.memFor = ckpt.index, !.next = "router"]
<1>1. ckpt \in Checkpoints /\ db \in Tables
  BY DEF LoopInv
<1>2. new \in Checkpoints
  BY <1>1, LoopAssumption DEF Checkpoints
<1>3. Placed(new, db) /\ Sequenced(new)
  BY DEF LoopInv, Checkpoints, Tables
<1>4. Remembers(new) /\ Charged(new, db)
  BY DEF LoopInv, Checkpoints, Tables, Remembers, Charged
<1>5. Proposed(new)
  BY DEF LoopInv, Checkpoints, Proposals, Outlines, Proposed, Bound
<1>6. Bound(new, db)
  BY DEF LoopInv, Checkpoints, Tables, Proposals, Outlines, Proposed, Bound
<1>7. Judged(new) /\ Batched(new)
  BY DEF LoopInv, Checkpoints, Proposals, Gates, Generations, Judged, Batched, Proposed
<1>8. QED
  BY <1>1, <1>2, <1>3, <1>4, <1>5, <1>6, <1>7 DEF LoopInv, new

\* A checkpoint of the older schema is upgraded between two chapters.
LEMMA Upgraded ==
    ASSUME LoopInv(ckpt, db),
           ckpt.next = "router",
           BetweenChapters,
           ckpt.pending = NoProposal
    PROVE  LoopInv([ckpt EXCEPT !.schema = 5], db)
<1> DEFINE new == [ckpt EXCEPT !.schema = 5]
<1>1. ckpt \in Checkpoints /\ db \in Tables
  BY DEF LoopInv
<1>2. new \in Checkpoints
  BY <1>1, LoopAssumption DEF Checkpoints
<1>3. Placed(new, db) /\ Sequenced(new)
  BY DEF LoopInv, Checkpoints, Tables, BetweenChapters, NoProposal
<1>4. Remembers(new) /\ Charged(new, db)
  BY DEF LoopInv, Checkpoints, Tables, Remembers, Charged, BetweenChapters, NoProposal
<1>5. Proposed(new)
  BY DEF LoopInv, Checkpoints, Proposals, Outlines, Proposed, Bound, BetweenChapters, NoProposal
<1>6. Bound(new, db)
  BY DEF LoopInv, Checkpoints, Tables, Proposals, Outlines, Proposed, Bound, BetweenChapters,
         NoProposal
<1>7. Judged(new) /\ Batched(new)
  BY DEF LoopInv, Checkpoints, Proposals, Gates, Generations, Judged, Batched, Proposed,
         BetweenChapters, NoProposal
<1>8. QED
  BY <1>1, <1>2, <1>3, <1>4, <1>5, <1>6, <1>7 DEF LoopInv, new

\* The router, or a retry of a draft, sends the checkpoint on.
LEMMA RoutedOn ==
    ASSUME NEW c,
           LoopInv(c, db),
           c.next = "router" \/ c.text
    PROVE  LoopInv([c EXCEPT !.next = Route(c)], db)
<1> DEFINE new == [c EXCEPT !.next = Route(c)]
<1>1. c \in Checkpoints /\ db \in Tables
  BY DEF LoopInv
<1>2. Route(c) \in Nodes
  BY <1>1, Routed DEF Nodes
<1>3. new \in Checkpoints
  BY <1>1, <1>2, LoopAssumption DEF Checkpoints
<1>4. Placed(new, db) /\ Sequenced(new)
  BY Routed DEF LoopInv, Checkpoints, Tables, OutlineReady
<1>5. Remembers(new) /\ Charged(new, db)
  BY Routed DEF LoopInv, Checkpoints, Tables, Remembers, Charged, OutlineReady
<1>6. Proposed(new)
  BY Routed DEF LoopInv, Checkpoints, Proposals, Outlines, Proposed, Bound, OutlineReady
<1>7. Bound(new, db)
  BY Routed DEF LoopInv, Checkpoints, Tables, Proposals, Outlines, Proposed, Bound, OutlineReady
<1>8. Judged(new) /\ Batched(new)
  BY Routed
  DEF LoopInv, Checkpoints, Proposals, Gates, Generations, Judged, Batched, Proposed,
      OutlineReady
<1>9. QED
  BY <1>1, <1>3, <1>4, <1>5, <1>6, <1>7, <1>8 DEF LoopInv, new

\* The quota of the chapter is reserved.
LEMMA Reserved ==
    ASSUME LoopInv(ckpt, db),
           NEW s \in Tables,
           Stored(s, db.chapters, db.plan, db.paid \cup {ckpt.index}, db.accepted),
           ckpt.next = "quota"
    PROVE  LoopInv([ckpt EXCEPT !.quotaFor = ckpt.index, !.next = "router"], s)
<1> DEFINE new == [ckpt EXCEPT !.quotaFor = ckpt.index, !.next = "router"]
<1>1. ckpt \in Checkpoints /\ db \in Tables
  BY DEF LoopInv
<1>2. new \in Checkpoints
  BY <1>1, LoopAssumption DEF Checkpoints
<1>3. Placed(new, s) /\ Sequenced(new)
  BY DEF LoopInv, Checkpoints, Tables, Stored
<1>4. Remembers(new) /\ Charged(new, s)
  BY DEF LoopInv, Checkpoints, Tables, Remembers, Charged, Stored
<1>5. Proposed(new)
  BY DEF LoopInv, Checkpoints, Proposals, Outlines, Proposed, Bound, Stored
<1>6. Bound(new, s)
  BY DEF LoopInv, Checkpoints, Tables, Proposals, Outlines, Proposed, Bound, Stored
<1>7. Judged(new) /\ Batched(new)
  BY DEF LoopInv, Checkpoints, Proposals, Gates, Generations, Judged, Batched, Proposed, Stored
<1>8. QED
  BY <1>1, <1>2, <1>3, <1>4, <1>5, <1>6, <1>7 DEF LoopInv, new

\* There is a window for the chapter.
LEMMA Tactics ==
    ASSUME LoopInv(ckpt, db),
           NEW w \in Windows,
           NEW e \in Nat,
           NEW f \in BOOLEAN,
           NEW u \in BOOLEAN,
           ckpt.next = "tactical"
    PROVE  LoopInv([ckpt EXCEPT !.window = w, !.expected = e, !.feedback = f,
                                !.unreconciled = u, !.next = "outline"], db)
<1> DEFINE new == [ckpt EXCEPT !.window = w, !.expected = e, !.feedback = f,
                               !.unreconciled = u, !.next = "outline"]
<1>1. ckpt \in Checkpoints /\ db \in Tables
  BY DEF LoopInv
<1>2. new \in Checkpoints
  BY <1>1, LoopAssumption DEF Checkpoints
<1>3. Placed(new, db) /\ Sequenced(new)
  BY DEF LoopInv, Checkpoints, Tables
<1>4. Remembers(new) /\ Charged(new, db)
  BY DEF LoopInv, Checkpoints, Tables, Remembers, Charged
<1>5. Proposed(new)
  BY DEF LoopInv, Checkpoints, Proposals, Outlines, Proposed, Bound
<1>6. Bound(new, db)
  BY DEF LoopInv, Checkpoints, Tables, Proposals, Outlines, Proposed, Bound
<1>7. Judged(new) /\ Batched(new)
  BY DEF LoopInv, Checkpoints, Proposals, Gates, Generations, Judged, Batched, Proposed
<1>8. QED
  BY <1>1, <1>2, <1>3, <1>4, <1>5, <1>6, <1>7 DEF LoopInv, new

\* The outline that was proposed is reviewed, ...
LEMMA OutlineKept ==
    ASSUME LoopInv(ckpt, db),
           NEW kind,
           NEW next,
           ckpt.next = "outline",
           IF Planned(ckpt) THEN kind = "chapter_plan"
                 /\ next = "chapter_plan_review" ELSE kind = "chapter_outline"
                       /\ next = "outline_review",
           Matches(kind, ckpt.index + 1)
    PROVE  LoopInv([ckpt EXCEPT !.next = next], db)
<1> DEFINE new == [ckpt EXCEPT !.next = next]
<1>1. ckpt \in Checkpoints /\ db \in Tables
  BY DEF LoopInv
<1>2. new \in Checkpoints
  BY <1>1, LoopAssumption DEF Checkpoints
<1>3. Placed(new, db) /\ Sequenced(new)
  BY DEF LoopInv, Checkpoints, Tables, Matches
<1>4. Remembers(new) /\ Charged(new, db)
  BY DEF LoopInv, Checkpoints, Tables, Remembers, Charged, Matches
<1>5. Proposed(new)
  BY DEF LoopInv, Checkpoints, Proposals, Outlines, Proposed, Bound, Matches
<1>6. Bound(new, db)
  BY DEF LoopInv, Checkpoints, Tables, Proposals, Outlines, Proposed, Bound, Matches
<1>7. Judged(new) /\ Batched(new)
  BY DEF LoopInv, Checkpoints, Proposals, Gates, Generations, Judged, Batched, Proposed, Matches
<1>8. QED
  BY <1>1, <1>2, <1>3, <1>4, <1>5, <1>6, <1>7 DEF LoopInv, new

\* ... or another one is.
LEMMA OutlineProposed ==
    ASSUME LoopInv(ckpt, db),
           NEW p,
           NEW kind,
           NEW next,
           ckpt.next = "outline",
           IF Planned(ckpt) THEN kind = "chapter_plan"
                 /\ next = "chapter_plan_review" ELSE kind = "chapter_outline"
                       /\ next = "outline_review",
           IsNew(p, kind, ckpt.index + 1)
    PROVE  LoopInv([ckpt EXCEPT !.next = next, !.pending = p], db)
<1> DEFINE new == [ckpt EXCEPT !.next = next, !.pending = p]
<1>1. ckpt \in Checkpoints /\ db \in Tables
  BY DEF LoopInv
<1>2. p \in Proposals
  BY <1>1 DEF IsNew
<1>3. new \in Checkpoints
  BY <1>1, <1>2, LoopAssumption DEF Checkpoints
<1>4. Placed(new, db) /\ Sequenced(new)
  BY DEF LoopInv, Checkpoints, Tables, IsNew
<1>5. Remembers(new) /\ Charged(new, db)
  BY DEF LoopInv, Checkpoints, Tables, Remembers, Charged, IsNew
<1>6. Proposed(new)
  BY DEF LoopInv, Checkpoints, Proposals, Outlines, Proposed, Bound, IsNew
<1>7. Bound(new, db)
  BY DEF LoopInv, Checkpoints, Tables, Proposals, Outlines, Proposed, Bound, IsNew
<1>8. Judged(new) /\ Batched(new)
  BY DEF LoopInv, Checkpoints, Proposals, Gates, Generations, Judged, Batched, Proposed, IsNew
<1>9. QED
  BY <1>1, <1>3, <1>4, <1>5, <1>6, <1>7, <1>8 DEF LoopInv, new

\* The window and the outline are accepted.
LEMMA WindowAccepted ==
    ASSUME LoopInv(ckpt, db),
           NEW w \in Windows,
           NEW o \in Outlines,
           NEW s \in Tables,
           Stored(s, db.chapters, db.plan, db.paid, s.accepted),
           ckpt.next = "chapter_plan_review",
           o.chapter = ckpt.index + 1,
           o.plan = ckpt.plan
    PROVE  LoopInv([Cleared(ckpt) EXCEPT !.next = "router", !.feedback = FALSE, !.window = w,
                                         !.expected = w.version, !.outline = o], s)
<1> DEFINE new == [Cleared(ckpt) EXCEPT !.next = "router", !.feedback = FALSE, !.window = w,
                                        !.expected = w.version, !.outline = o]
<1>1. ckpt \in Checkpoints /\ db \in Tables
  BY DEF LoopInv
<1>2. NoProposal \in Proposals
  BY <1>1, NothingIsTyped DEF Proposals
<1>3. w.version \in Nat
  BY <1>1, <1>2 DEF Windows
<1>4. new = [ckpt EXCEPT !.pending = NoProposal, !.next = "router", !.feedback = FALSE,
                         !.window = w, !.expected = w.version, !.outline = o]
  BY <1>1 DEF Checkpoints, Cleared
<1> HIDE DEF new
<1>5. new \in Checkpoints
  BY <1>1, <1>2, <1>3, <1>4, LoopAssumption, ZenonT(60) DEF Checkpoints
<1>6. Placed(new, s) /\ Sequenced(new)
  BY <1>4 DEF LoopInv, Checkpoints, Tables, NoProposal, Stored
<1>7. Remembers(new) /\ Charged(new, s)
  BY <1>4 DEF LoopInv, Checkpoints, Tables, Remembers, Charged, NoProposal, Stored
<1>8. Proposed(new)
  BY <1>4 DEF LoopInv, Checkpoints, Proposals, Outlines, Proposed, Bound, NoProposal, Stored
<1>9. Bound(new, s)
  BY <1>4
  DEF LoopInv, Checkpoints, Tables, Proposals, Outlines, Proposed, Bound, NoProposal, Stored
<1>10. Judged(new) /\ Batched(new)
  BY <1>4
  DEF LoopInv, Checkpoints, Proposals, Gates, Generations, Judged, Batched, Proposed,
      NoProposal, Stored
<1>11. QED
  BY <1>1, <1>5, <1>6, <1>7, <1>8, <1>9, <1>10 DEF LoopInv, new

\* The outline is to be made again, ...
LEMMA OutlineAgain ==
    ASSUME LoopInv(ckpt, db),
           ckpt.next \in {"chapter_plan_review", "outline_review"}
    PROVE  LoopInv([Cleared(ckpt) EXCEPT !.next = "outline"], db)
<1> DEFINE new == [Cleared(ckpt) EXCEPT !.next = "outline"]
<1>1. ckpt \in Checkpoints /\ db \in Tables
  BY DEF LoopInv
<1>2. NoProposal \in Proposals
  BY <1>1, NothingIsTyped DEF Proposals
<1>3. new = [ckpt EXCEPT !.pending = NoProposal, !.next = "outline"]
  BY <1>1 DEF Checkpoints, Cleared
<1> HIDE DEF new
<1>4. new \in Checkpoints
  BY <1>1, <1>2, <1>3, LoopAssumption DEF Checkpoints
<1>5. Placed(new, db) /\ Sequenced(new)
  BY <1>3 DEF LoopInv, Checkpoints, Tables, NoProposal
<1>6. Remembers(new) /\ Charged(new, db)
  BY <1>3 DEF LoopInv, Checkpoints, Tables, Remembers, Charged, NoProposal
<1>7. Proposed(new)
  BY <1>3 DEF LoopInv, Checkpoints, Proposals, Outlines, Proposed, Bound, NoProposal
<1>8. Bound(new, db)
  BY <1>3 DEF LoopInv, Checkpoints, Tables, Proposals, Outlines, Proposed, Bound, NoProposal
<1>9. Judged(new) /\ Batched(new)
  BY <1>3
  DEF LoopInv, Checkpoints, Proposals, Gates, Generations, Judged, Batched, Proposed, NoProposal
<1>10. QED
  BY <1>1, <1>4, <1>5, <1>6, <1>7, <1>8, <1>9 DEF LoopInv, new

\* ... with another window.
LEMMA TacticsAgain ==
    ASSUME LoopInv(ckpt, db),
           NEW instructed \in BOOLEAN,
           ckpt.next = "chapter_plan_review"
    PROVE  LoopInv([Cleared(ckpt) EXCEPT !.next = "tactical", !.window = NoWindow,
                                         !.feedback = instructed], db)
<1> DEFINE new == [Cleared(ckpt) EXCEPT !.next = "tactical", !.window = NoWindow,
                                        !.feedback = instructed]
<1>1. ckpt \in Checkpoints /\ db \in Tables
  BY DEF LoopInv
<1>2. NoProposal \in Proposals
  BY <1>1, NothingIsTyped DEF Proposals
<1>3. NoWindow \in Windows
  BY <1>1, <1>2, NoWindowIsTyped DEF Windows
<1>4. new = [ckpt EXCEPT !.pending = NoProposal, !.next = "tactical", !.window = NoWindow,
                         !.feedback = instructed]
  BY <1>1 DEF Checkpoints, Cleared
<1> HIDE DEF new
<1>5. new \in Checkpoints
  BY <1>1, <1>2, <1>3, <1>4, LoopAssumption DEF Checkpoints
<1>6. Placed(new, db) /\ Sequenced(new)
  BY <1>4 DEF LoopInv, Checkpoints, Tables, NoProposal
<1>7. Remembers(new) /\ Charged(new, db)
  BY <1>4 DEF LoopInv, Checkpoints, Tables, Remembers, Charged, NoProposal
<1>8. Proposed(new)
  BY <1>4 DEF LoopInv, Checkpoints, Proposals, Outlines, Proposed, Bound, NoProposal
<1>9. Bound(new, db)
  BY <1>4 DEF LoopInv, Checkpoints, Tables, Proposals, Outlines, Proposed, Bound, NoProposal
<1>10. Judged(new) /\ Batched(new)
  BY <1>4
  DEF LoopInv, Checkpoints, Proposals, Gates, Generations, Judged, Batched, Proposed, NoProposal
<1>11. QED
  BY <1>1, <1>5, <1>6, <1>7, <1>8, <1>9, <1>10 DEF LoopInv, new

\* The outline of a book without plan is accepted.
LEMMA OutlineAccepted ==
    ASSUME LoopInv(ckpt, db),
           ckpt.next = "outline_review"
    PROVE  LoopInv([Cleared(ckpt) EXCEPT !.next = "router",
                                         !.outline = [NoOutline EXCEPT !.chapter = Chapter]], db)
<1> DEFINE new == [Cleared(ckpt) EXCEPT !.next = "router",
                                        !.outline = [NoOutline EXCEPT !.chapter = Chapter]]
<1>1. ckpt \in Checkpoints /\ db \in Tables
  BY DEF LoopInv
<1>2. /\ ckpt.index + 1 \in Indexes
      /\ [NoOutline EXCEPT !.chapter = Chapter]
            = [chapter |-> ckpt.index + 1, plan |-> 0, window |-> 0]
  BY <1>1, LoopAssumption DEF LoopInv, Checkpoints, Tables, NoOutline, NoProposal
<1>3. NoProposal \in Proposals
  BY <1>1, <1>2, NothingIsTyped DEF Proposals
<1>4. [chapter |-> ckpt.index + 1, plan |-> 0, window |-> 0] \in Outlines
  BY <1>1, <1>2, <1>3 DEF Outlines
<1>5. new = [ckpt EXCEPT !.pending = NoProposal, !.next = "router",
                         !.outline = [chapter |-> ckpt.index + 1, plan |-> 0, window |-> 0]]
  BY <1>1, <1>2 DEF Checkpoints, Cleared
<1> HIDE DEF new
<1>6. new \in Checkpoints
  BY <1>1, <1>2, <1>3, <1>4, <1>5, LoopAssumption, ZenonT(60) DEF Checkpoints
<1>7. Placed(new, db) /\ Sequenced(new)
  BY <1>2, <1>5 DEF LoopInv, Checkpoints, Tables, NoProposal
<1>8. Remembers(new) /\ Charged(new, db)
  BY <1>2, <1>5 DEF LoopInv, Checkpoints, Tables, Remembers, Charged, NoProposal
<1>9. Proposed(new)
  BY <1>2, <1>5 DEF LoopInv, Checkpoints, Proposals, Outlines, Proposed, Bound, NoProposal
<1>10. Bound(new, db)
  BY <1>2, <1>5
  DEF LoopInv, Checkpoints, Tables, Proposals, Outlines, Proposed, Bound, NoProposal
<1>11. Judged(new) /\ Batched(new)
  BY <1>2, <1>5
  DEF LoopInv, Checkpoints, Proposals, Gates, Generations, Judged, Batched, Proposed, NoProposal
<1>12. QED
  BY <1>1, <1>6, <1>7, <1>8, <1>9, <1>10, <1>11 DEF LoopInv, new

\* There is a draft, paid for.
LEMMA Written ==
    ASSUME LoopInv(ckpt, db),
           NEW s \in Tables,
           Stored(s, db.chapters, db.plan, s.paid, db.accepted),
           ckpt.next = "write",
           s.paid = IF Precharged THEN db.paid ELSE db.paid \cup {ckpt.index}
    PROVE  LoopInv([Redrafted(ckpt) EXCEPT !.attempts = 0, !.checked = FALSE,
                                           !.next = "router"], s)
<1> DEFINE new == [Redrafted(ckpt) EXCEPT !.attempts = 0, !.checked = FALSE, !.next = "router"]
<1>1. ckpt \in Checkpoints /\ db \in Tables
  BY DEF LoopInv
<1>2. [ckpt.gate EXCEPT !.current = FALSE] \in Gates
  BY <1>1 DEF Checkpoints, Gates
<1>3. [ckpt.pending EXCEPT !.current = FALSE] \in Proposals
  BY <1>1, <1>2 DEF Checkpoints, Proposals
<1>4. 0 \in 0 .. MaxRevisions
  BY <1>1, <1>2, <1>3, LoopAssumption
<1>5. new = [ckpt EXCEPT !.text = TRUE, !.gate = [ckpt.gate EXCEPT !.current = FALSE],
                         !.pending = [ckpt.pending EXCEPT !.current = FALSE], !.attempts = 0,
                         !.checked = FALSE, !.next = "router"]
  BY <1>1 DEF Checkpoints, Redrafted
<1> HIDE DEF new
<1>6. new \in Checkpoints
  BY <1>1, <1>2, <1>3, <1>4, <1>5, LoopAssumption DEF Checkpoints
<1>7. Placed(new, s) /\ Sequenced(new)
  BY <1>5 DEF LoopInv, Checkpoints, Tables, Precharged, Gates, Stored
<1>8. Remembers(new) /\ Charged(new, s)
  BY <1>5 DEF LoopInv, Checkpoints, Tables, Remembers, Charged, Precharged, Gates, Stored
<1>9. Proposed(new)
  BY <1>5
  DEF LoopInv, Checkpoints, Proposals, Outlines, Proposed, Bound, Precharged, Gates, Stored
<1>10. Bound(new, s)
  BY <1>5
  DEF LoopInv, Checkpoints, Tables, Proposals, Outlines, Proposed, Bound, Precharged, Gates,
      Stored
<1>11. Judged(new) /\ Batched(new)
  BY <1>5
  DEF LoopInv, Checkpoints, Proposals, Gates, Generations, Judged, Batched, Proposed,
      Precharged, Stored
<1>12. QED
  BY <1>1, <1>6, <1>7, <1>8, <1>9, <1>10, <1>11 DEF LoopInv, new

\* The draft was checked for its length.
LEMMA Compacted ==
    ASSUME LoopInv(ckpt, db),
           ckpt.next = "compact"
    PROVE  LoopInv([Redrafted(ckpt) EXCEPT !.checked = TRUE, !.next = "router"], db)
<1> DEFINE new == [Redrafted(ckpt) EXCEPT !.checked = TRUE, !.next = "router"]
<1>1. ckpt \in Checkpoints /\ db \in Tables
  BY DEF LoopInv
<1>2. [ckpt.gate EXCEPT !.current = FALSE] \in Gates
  BY <1>1 DEF Checkpoints, Gates
<1>3. [ckpt.pending EXCEPT !.current = FALSE] \in Proposals
  BY <1>1, <1>2 DEF Checkpoints, Proposals
<1>4. new = [ckpt EXCEPT !.text = TRUE, !.gate = [ckpt.gate EXCEPT !.current = FALSE],
                         !.pending = [ckpt.pending EXCEPT !.current = FALSE], !.checked = TRUE,
                         !.next = "router"]
  BY <1>1 DEF Checkpoints, Redrafted
<1> HIDE DEF new
<1>5. new \in Checkpoints
  BY <1>1, <1>2, <1>3, <1>4, LoopAssumption DEF Checkpoints
<1>6. Placed(new, db) /\ Sequenced(new)
  BY <1>4 DEF LoopInv, Checkpoints, Tables, Gates
<1>7. Remembers(new) /\ Charged(new, db)
  BY <1>4 DEF LoopInv, Checkpoints, Tables, Remembers, Charged, Gates
<1>8. Proposed(new)
  BY <1>4 DEF LoopInv, Checkpoints, Proposals, Outlines, Proposed, Bound, Gates
<1>9. Bound(new, db)
  BY <1>4 DEF LoopInv, Checkpoints, Tables, Proposals, Outlines, Proposed, Bound, Gates
<1>10. Judged(new) /\ Batched(new)
  BY <1>4 DEF LoopInv, Checkpoints, Proposals, Gates, Generations, Judged, Batched, Proposed
<1>11. QED
  BY <1>1, <1>5, <1>6, <1>7, <1>8, <1>9, <1>10 DEF LoopInv, new

\* The review that was proposed is decided, ...
LEMMA ReviewTakenUp ==
    ASSUME LoopInv(ckpt, db),
           ckpt.next = "reflect",
           Matches("reflection", ckpt.index + 1)
    PROVE  LoopInv([ckpt EXCEPT !.next = "reflect_review"], db)
<1> DEFINE new == [ckpt EXCEPT !.next = "reflect_review"]
<1>1. ckpt \in Checkpoints /\ db \in Tables
  BY DEF LoopInv
<1>2. new \in Checkpoints
  BY <1>1, LoopAssumption DEF Checkpoints
<1>3. Placed(new, db) /\ Sequenced(new)
  BY DEF LoopInv, Checkpoints, Tables, Matches
<1>4. Remembers(new) /\ Charged(new, db)
  BY DEF LoopInv, Checkpoints, Tables, Remembers, Charged, Matches
<1>5. Proposed(new)
  BY DEF LoopInv, Checkpoints, Proposals, Outlines, Proposed, Bound, Matches
<1>6. Bound(new, db)
  BY DEF LoopInv, Checkpoints, Tables, Proposals, Outlines, Proposed, Bound, Matches
<1>7. Judged(new) /\ Batched(new)
  BY DEF LoopInv, Checkpoints, Proposals, Gates, Generations, Judged, Batched, Proposed, Matches
<1>8. QED
  BY <1>1, <1>2, <1>3, <1>4, <1>5, <1>6, <1>7 DEF LoopInv, new

\* ... another one is made, ...
LEMMA ReviewProposed ==
    ASSUME LoopInv(ckpt, db),
           NEW p,
           ckpt.next = "reflect",
           IsNew(p, "reflection", ckpt.index + 1)
    PROVE  LoopInv([ckpt EXCEPT !.next = "reflect_review", !.pending = p], db)
<1> DEFINE new == [ckpt EXCEPT !.next = "reflect_review", !.pending = p]
<1>1. ckpt \in Checkpoints /\ db \in Tables
  BY DEF LoopInv
<1>2. p \in Proposals
  BY <1>1 DEF IsNew
<1>3. new \in Checkpoints
  BY <1>1, <1>2, LoopAssumption DEF Checkpoints
<1>4. Placed(new, db) /\ Sequenced(new)
  BY DEF LoopInv, Checkpoints, Tables, IsNew
<1>5. Remembers(new) /\ Charged(new, db)
  BY DEF LoopInv, Checkpoints, Tables, Remembers, Charged, IsNew
<1>6. Proposed(new)
  BY DEF LoopInv, Checkpoints, Proposals, Outlines, Proposed, Bound, IsNew
<1>7. Bound(new, db)
  BY DEF LoopInv, Checkpoints, Tables, Proposals, Outlines, Proposed, Bound, IsNew
<1>8. Judged(new) /\ Batched(new)
  BY DEF LoopInv, Checkpoints, Proposals, Gates, Generations, Judged, Batched, Proposed, IsNew
<1>9. QED
  BY <1>1, <1>3, <1>4, <1>5, <1>6, <1>7, <1>8 DEF LoopInv, new

\* ... or the draft passes, or is revised, without the user.
LEMMA ReviewPassed ==
    ASSUME LoopInv(ckpt, db),
           NEW passed \in BOOLEAN,
           NEW next,
           ckpt.next = "reflect",
           next = IF passed THEN "persist" ELSE "revise"
    PROVE  LoopInv([ckpt EXCEPT !.gate = Reviewed(passed), !.next = next], db)
<1> DEFINE new == [ckpt EXCEPT !.gate = Reviewed(passed), !.next = next]
<1>1. ckpt \in Checkpoints /\ db \in Tables
  BY DEF LoopInv
<1>2. ckpt.index + 1 \in Indexes
  BY <1>1, LoopAssumption DEF LoopInv, Checkpoints, Tables, Reviewed, Gates
<1>3. Reviewed(passed) \in Gates
  BY <1>1, <1>2 DEF Reviewed, Gates
<1>4. new \in Checkpoints
  BY <1>1, <1>2, <1>3, LoopAssumption, ZenonT(60) DEF Checkpoints
<1>5. Placed(new, db) /\ Sequenced(new)
  BY <1>2 DEF LoopInv, Checkpoints, Tables, Reviewed, Gates
<1>6. Remembers(new) /\ Charged(new, db)
  BY <1>2 DEF LoopInv, Checkpoints, Tables, Remembers, Charged, Reviewed, Gates
<1>7. Proposed(new)
  BY <1>2 DEF LoopInv, Checkpoints, Proposals, Outlines, Proposed, Bound, Reviewed, Gates
<1>8. Bound(new, db)
  BY <1>2
  DEF LoopInv, Checkpoints, Tables, Proposals, Outlines, Proposed, Bound, Reviewed, Gates
<1>9. Judged(new) /\ Batched(new)
  BY <1>2
  DEF LoopInv, Checkpoints, Proposals, Gates, Generations, Judged, Batched, Proposed, Reviewed
<1>10. QED
  BY <1>1, <1>4, <1>5, <1>6, <1>7, <1>8, <1>9 DEF LoopInv, new

\* The user takes the draft.
LEMMA DraftAccepted ==
    ASSUME LoopInv(ckpt, db),
           ckpt.next = "reflect_review"
    PROVE  LoopInv([Cleared(ckpt) EXCEPT !.next = "persist", !.gate = DecidedGate(TRUE)], db)
<1> DEFINE new == [Cleared(ckpt) EXCEPT !.next = "persist", !.gate = DecidedGate(TRUE)]
<1>1. ckpt \in Checkpoints /\ db \in Tables
  BY DEF LoopInv
<1>2. NoProposal \in Proposals
  BY <1>1, NothingIsTyped DEF Proposals
<1>3. DecidedGate(TRUE) \in Gates
  BY <1>1, <1>2, NothingIsTyped DEF Checkpoints, DecidedGate, Proposals, Gates
<1>4. new = [ckpt EXCEPT !.pending = NoProposal, !.next = "persist", !.gate = DecidedGate(TRUE)]
  BY <1>1 DEF Checkpoints, Cleared
<1> HIDE DEF new
<1>5. new \in Checkpoints
  BY <1>1, <1>2, <1>3, <1>4, LoopAssumption DEF Checkpoints
<1>6. Placed(new, db) /\ Sequenced(new)
  BY <1>4 DEF LoopInv, Checkpoints, Tables, NoProposal, DecidedGate, NoGate
<1>7. Remembers(new) /\ Charged(new, db)
  BY <1>4 DEF LoopInv, Checkpoints, Tables, Remembers, Charged, NoProposal, DecidedGate, NoGate
<1>8. Proposed(new)
  BY <1>4
  DEF LoopInv, Checkpoints, Proposals, Outlines, Proposed, Bound, NoProposal, DecidedGate,
      NoGate
<1>9. Bound(new, db)
  BY <1>4
  DEF LoopInv, Checkpoints, Tables, Proposals, Outlines, Proposed, Bound, NoProposal,
      DecidedGate, NoGate
<1>10. Judged(new) /\ Batched(new)
  BY <1>4
  DEF LoopInv, Checkpoints, Proposals, Gates, Generations, Judged, Batched, Proposed,
      NoProposal, DecidedGate, NoGate
<1>11. QED
  BY <1>1, <1>5, <1>6, <1>7, <1>8, <1>9, <1>10 DEF LoopInv, new

\* The draft is to be written again.
LEMMA DraftRejected ==
    ASSUME LoopInv(ckpt, db),
           ckpt.next = "reflect_review"
    PROVE  LoopInv([Cleared(ckpt) EXCEPT !.next = "write"], db)
<1> DEFINE new == [Cleared(ckpt) EXCEPT !.next = "write"]
<1>1. ckpt \in Checkpoints /\ db \in Tables
  BY DEF LoopInv
<1>2. NoProposal \in Proposals
  BY <1>1, NothingIsTyped DEF Proposals
<1>3. new = [ckpt EXCEPT !.pending = NoProposal, !.next = "write"]
  BY <1>1 DEF Checkpoints, Cleared
<1> HIDE DEF new
<1>4. new \in Checkpoints
  BY <1>1, <1>2, <1>3, LoopAssumption DEF Checkpoints
<1>5. Placed(new, db) /\ Sequenced(new)
  BY <1>3 DEF LoopInv, Checkpoints, Tables, NoProposal
<1>6. Remembers(new) /\ Charged(new, db)
  BY <1>3 DEF LoopInv, Checkpoints, Tables, Remembers, Charged, NoProposal
<1>7. Proposed(new)
  BY <1>3 DEF LoopInv, Checkpoints, Proposals, Outlines, Proposed, Bound, NoProposal
<1>8. Bound(new, db)
  BY <1>3 DEF LoopInv, Checkpoints, Tables, Proposals, Outlines, Proposed, Bound, NoProposal
<1>9. Judged(new) /\ Batched(new)
  BY <1>3
  DEF LoopInv, Checkpoints, Proposals, Gates, Generations, Judged, Batched, Proposed, NoProposal
<1>10. QED
  BY <1>1, <1>4, <1>5, <1>6, <1>7, <1>8, <1>9 DEF LoopInv, new

\* A review the model did not give is tried again.
LEMMA ReviewRetried ==
    ASSUME LoopInv(ckpt, db),
           ckpt.next = "reflect_review"
    PROVE  LoopInv([Cleared(ckpt) EXCEPT !.next = "reflect"], db)
<1> DEFINE new == [Cleared(ckpt) EXCEPT !.next = "reflect"]
<1>1. ckpt \in Checkpoints /\ db \in Tables
  BY DEF LoopInv
<1>2. NoProposal \in Proposals
  BY <1>1, NothingIsTyped DEF Proposals
<1>3. new = [ckpt EXCEPT !.pending = NoProposal, !.next = "reflect"]
  BY <1>1 DEF Checkpoints, Cleared
<1> HIDE DEF new
<1>4. new \in Checkpoints
  BY <1>1, <1>2, <1>3, LoopAssumption DEF Checkpoints
<1>5. Placed(new, db) /\ Sequenced(new)
  BY <1>3 DEF LoopInv, Checkpoints, Tables, NoProposal
<1>6. Remembers(new) /\ Charged(new, db)
  BY <1>3 DEF LoopInv, Checkpoints, Tables, Remembers, Charged, NoProposal
<1>7. Proposed(new)
  BY <1>3 DEF LoopInv, Checkpoints, Proposals, Outlines, Proposed, Bound, NoProposal
<1>8. Bound(new, db)
  BY <1>3 DEF LoopInv, Checkpoints, Tables, Proposals, Outlines, Proposed, Bound, NoProposal
<1>9. Judged(new) /\ Batched(new)
  BY <1>3
  DEF LoopInv, Checkpoints, Proposals, Gates, Generations, Judged, Batched, Proposed, NoProposal
<1>10. QED
  BY <1>1, <1>4, <1>5, <1>6, <1>7, <1>8, <1>9 DEF LoopInv, new

\* The user asks for a revision.
LEMMA RevisionAsked ==
    ASSUME LoopInv(ckpt, db),
           ckpt.next = "reflect_review"
    PROVE  LoopInv([Cleared(ckpt) EXCEPT !.next = "revise", !.gate = DecidedGate(FALSE)], db)
<1> DEFINE new == [Cleared(ckpt) EXCEPT !.next = "revise", !.gate = DecidedGate(FALSE)]
<1>1. ckpt \in Checkpoints /\ db \in Tables
  BY DEF LoopInv
<1>2. NoProposal \in Proposals
  BY <1>1, NothingIsTyped DEF Proposals
<1>3. DecidedGate(FALSE) \in Gates
  BY <1>1, <1>2, NothingIsTyped DEF Checkpoints, DecidedGate, Proposals, Gates
<1>4. new = [ckpt EXCEPT !.pending = NoProposal, !.next = "revise", !.gate = DecidedGate(FALSE)]
  BY <1>1 DEF Checkpoints, Cleared
<1> HIDE DEF new
<1>5. new \in Checkpoints
  BY <1>1, <1>2, <1>3, <1>4, LoopAssumption DEF Checkpoints
<1>6. Placed(new, db) /\ Sequenced(new)
  BY <1>4 DEF LoopInv, Checkpoints, Tables, NoProposal, DecidedGate, NoGate
<1>7. Remembers(new) /\ Charged(new, db)
  BY <1>4 DEF LoopInv, Checkpoints, Tables, Remembers, Charged, NoProposal, DecidedGate, NoGate
<1>8. Proposed(new)
  BY <1>4
  DEF LoopInv, Checkpoints, Proposals, Outlines, Proposed, Bound, NoProposal, DecidedGate,
      NoGate
<1>9. Bound(new, db)
  BY <1>4
  DEF LoopInv, Checkpoints, Tables, Proposals, Outlines, Proposed, Bound, NoProposal,
      DecidedGate, NoGate
<1>10. Judged(new) /\ Batched(new)
  BY <1>4
  DEF LoopInv, Checkpoints, Proposals, Gates, Generations, Judged, Batched, Proposed,
      NoProposal, DecidedGate, NoGate
<1>11. QED
  BY <1>1, <1>5, <1>6, <1>7, <1>8, <1>9, <1>10 DEF LoopInv, new

\* The user replaces the draft in its review, ...
LEMMA DraftReplaced ==
    ASSUME LoopInv(ckpt, db),
           ckpt.next = "reflect_review"
    PROVE  LoopInv([Redrafted(Cleared(ckpt)) EXCEPT !.next = "reflect"], db)
<1> DEFINE new == [Redrafted(Cleared(ckpt)) EXCEPT !.next = "reflect"]
<1>1. ckpt \in Checkpoints /\ db \in Tables
  BY DEF LoopInv
<1>2. [ckpt.gate EXCEPT !.current = FALSE] \in Gates
  BY <1>1 DEF Checkpoints, Gates
<1>3. [NoProposal EXCEPT !.current = FALSE] \in Proposals
  BY <1>1, <1>2, NothingIsTyped DEF NoProposal, Proposals
<1>4. new = [ckpt EXCEPT !.text = TRUE, !.gate = [ckpt.gate EXCEPT !.current = FALSE],
                         !.pending = [NoProposal EXCEPT !.current = FALSE],
                         !.next = "reflect"]
  BY <1>1 DEF Checkpoints, Redrafted, Cleared
<1> HIDE DEF new
<1>5. new \in Checkpoints
  BY <1>1, <1>2, <1>3, <1>4, LoopAssumption DEF Checkpoints
<1>6. Placed(new, db) /\ Sequenced(new)
  BY <1>4 DEF LoopInv, Checkpoints, Tables, NoProposal, Gates
<1>7. Remembers(new) /\ Charged(new, db)
  BY <1>4 DEF LoopInv, Checkpoints, Tables, Remembers, Charged, NoProposal, Gates
<1>8. Proposed(new)
  BY <1>4 DEF LoopInv, Checkpoints, Proposals, Outlines, Proposed, Bound, NoProposal, Gates
<1>9. Bound(new, db)
  BY <1>4
  DEF LoopInv, Checkpoints, Tables, Proposals, Outlines, Proposed, Bound, NoProposal, Gates
<1>10. Judged(new) /\ Batched(new)
  BY <1>4
  DEF LoopInv, Checkpoints, Proposals, Gates, Generations, Judged, Batched, Proposed, NoProposal
<1>11. QED
  BY <1>1, <1>5, <1>6, <1>7, <1>8, <1>9, <1>10 DEF LoopInv, new

\* ... or in the review of its revision, which is revised again.
LEMMA DraftRewritten ==
    ASSUME LoopInv(ckpt, db),
           ckpt.next = "revise_review"
    PROVE  LoopInv([Redrafted(Cleared(ckpt)) EXCEPT !.next = "revise"], db)
<1> DEFINE new == [Redrafted(Cleared(ckpt)) EXCEPT !.next = "revise"]
<1>1. ckpt \in Checkpoints /\ db \in Tables
  BY DEF LoopInv
<1>2. [ckpt.gate EXCEPT !.current = FALSE] \in Gates
  BY <1>1 DEF Checkpoints, Gates
<1>3. [NoProposal EXCEPT !.current = FALSE] \in Proposals
  BY <1>1, <1>2, NothingIsTyped DEF NoProposal, Proposals
<1>4. new = [ckpt EXCEPT !.text = TRUE, !.gate = [ckpt.gate EXCEPT !.current = FALSE],
                         !.pending = [NoProposal EXCEPT !.current = FALSE], !.next = "revise"]
  BY <1>1 DEF Checkpoints, Redrafted, Cleared
<1> HIDE DEF new
<1>5. new \in Checkpoints
  BY <1>1, <1>2, <1>3, <1>4, LoopAssumption DEF Checkpoints
<1>6. Placed(new, db) /\ Sequenced(new)
  BY <1>4 DEF LoopInv, Checkpoints, Tables, NoProposal, Gates
<1>7. Remembers(new) /\ Charged(new, db)
  BY <1>4 DEF LoopInv, Checkpoints, Tables, Remembers, Charged, NoProposal, Gates
<1>8. Proposed(new)
  BY <1>4 DEF LoopInv, Checkpoints, Proposals, Outlines, Proposed, Bound, NoProposal, Gates
<1>9. Bound(new, db)
  BY <1>4
  DEF LoopInv, Checkpoints, Tables, Proposals, Outlines, Proposed, Bound, NoProposal, Gates
<1>10. Judged(new) /\ Batched(new)
  BY <1>4
  DEF LoopInv, Checkpoints, Proposals, Gates, Generations, Judged, Batched, Proposed, NoProposal
<1>11. QED
  BY <1>1, <1>5, <1>6, <1>7, <1>8, <1>9, <1>10 DEF LoopInv, new

\* The revision that was proposed is reviewed, ...
LEMMA RevisionTakenUp ==
    ASSUME LoopInv(ckpt, db),
           ckpt.next = "revise",
           Matches("revision", ckpt.index + 1)
    PROVE  LoopInv([ckpt EXCEPT !.next = "revise_review"], db)
<1> DEFINE new == [ckpt EXCEPT !.next = "revise_review"]
<1>1. ckpt \in Checkpoints /\ db \in Tables
  BY DEF LoopInv
<1>2. new \in Checkpoints
  BY <1>1, LoopAssumption DEF Checkpoints
<1>3. Placed(new, db) /\ Sequenced(new)
  BY DEF LoopInv, Checkpoints, Tables, Matches
<1>4. Remembers(new) /\ Charged(new, db)
  BY DEF LoopInv, Checkpoints, Tables, Remembers, Charged, Matches
<1>5. Proposed(new)
  BY DEF LoopInv, Checkpoints, Proposals, Outlines, Proposed, Bound, Matches
<1>6. Bound(new, db)
  BY DEF LoopInv, Checkpoints, Tables, Proposals, Outlines, Proposed, Bound, Matches
<1>7. Judged(new) /\ Batched(new)
  BY DEF LoopInv, Checkpoints, Proposals, Gates, Generations, Judged, Batched, Proposed, Matches
<1>8. QED
  BY <1>1, <1>2, <1>3, <1>4, <1>5, <1>6, <1>7 DEF LoopInv, new

\* ... another one is made, ...
LEMMA RevisionProposed ==
    ASSUME LoopInv(ckpt, db),
           NEW p,
           ckpt.next = "revise",
           IsNew(p, "revision", ckpt.index + 1)
    PROVE  LoopInv([ckpt EXCEPT !.next = "revise_review", !.pending = p], db)
<1> DEFINE new == [ckpt EXCEPT !.next = "revise_review", !.pending = p]
<1>1. ckpt \in Checkpoints /\ db \in Tables
  BY DEF LoopInv
<1>2. p \in Proposals
  BY <1>1 DEF IsNew
<1>3. new \in Checkpoints
  BY <1>1, <1>2, LoopAssumption DEF Checkpoints
<1>4. Placed(new, db) /\ Sequenced(new)
  BY DEF LoopInv, Checkpoints, Tables, IsNew
<1>5. Remembers(new) /\ Charged(new, db)
  BY DEF LoopInv, Checkpoints, Tables, Remembers, Charged, IsNew
<1>6. Proposed(new)
  BY DEF LoopInv, Checkpoints, Proposals, Outlines, Proposed, Bound, IsNew
<1>7. Bound(new, db)
  BY DEF LoopInv, Checkpoints, Tables, Proposals, Outlines, Proposed, Bound, IsNew
<1>8. Judged(new) /\ Batched(new)
  BY DEF LoopInv, Checkpoints, Proposals, Gates, Generations, Judged, Batched, Proposed, IsNew
<1>9. QED
  BY <1>1, <1>3, <1>4, <1>5, <1>6, <1>7, <1>8 DEF LoopInv, new

\* ... or is asked for.
LEMMA RevisionAgain ==
    ASSUME LoopInv(ckpt, db),
           ckpt.next = "revise_review"
    PROVE  LoopInv([Cleared(ckpt) EXCEPT !.next = "revise"], db)
<1> DEFINE new == [Cleared(ckpt) EXCEPT !.next = "revise"]
<1>1. ckpt \in Checkpoints /\ db \in Tables
  BY DEF LoopInv
<1>2. NoProposal \in Proposals
  BY <1>1, NothingIsTyped DEF Proposals
<1>3. new = [ckpt EXCEPT !.pending = NoProposal, !.next = "revise"]
  BY <1>1 DEF Checkpoints, Cleared
<1> HIDE DEF new
<1>4. new \in Checkpoints
  BY <1>1, <1>2, <1>3, LoopAssumption DEF Checkpoints
<1>5. Placed(new, db) /\ Sequenced(new)
  BY <1>3 DEF LoopInv, Checkpoints, Tables, NoProposal
<1>6. Remembers(new) /\ Charged(new, db)
  BY <1>3 DEF LoopInv, Checkpoints, Tables, Remembers, Charged, NoProposal
<1>7. Proposed(new)
  BY <1>3 DEF LoopInv, Checkpoints, Proposals, Outlines, Proposed, Bound, NoProposal
<1>8. Bound(new, db)
  BY <1>3 DEF LoopInv, Checkpoints, Tables, Proposals, Outlines, Proposed, Bound, NoProposal
<1>9. Judged(new) /\ Batched(new)
  BY <1>3
  DEF LoopInv, Checkpoints, Proposals, Gates, Generations, Judged, Batched, Proposed, NoProposal
<1>10. QED
  BY <1>1, <1>4, <1>5, <1>6, <1>7, <1>8, <1>9 DEF LoopInv, new

\* Auto mode takes the revision, which is reviewed again.
LEMMA RevisionAccepted ==
    ASSUME LoopInv(ckpt, db),
           NEW next,
           ckpt.next = "revise_review",
           next = "reflect"
    PROVE  LoopInv([Counted(Redrafted(Cleared(ckpt))) EXCEPT !.next = next], db)
<1> DEFINE new == [Counted(Redrafted(Cleared(ckpt))) EXCEPT !.next = next]
<1>1. ckpt \in Checkpoints /\ db \in Tables
  BY DEF LoopInv
<1>2. [ckpt.gate EXCEPT !.current = FALSE] \in Gates
  BY <1>1 DEF Checkpoints, Gates
<1>3. [NoProposal EXCEPT !.current = FALSE] \in Proposals
  BY <1>1, <1>2, NothingIsTyped DEF NoProposal, Proposals
<1>4. (IF ckpt.attempts < MaxRevisions THEN ckpt.attempts + 1
      ELSE ckpt.attempts) \in 0 .. MaxRevisions
  BY <1>1, <1>2, <1>3, LoopAssumption DEF Checkpoints
<1>5. new = [ckpt EXCEPT !.text = TRUE, !.gate = [ckpt.gate EXCEPT !.current = FALSE],
                         !.pending = [NoProposal EXCEPT !.current = FALSE],
                         !.attempts = IF ckpt.attempts < MaxRevisions
                                      THEN ckpt.attempts + 1 ELSE ckpt.attempts,
                         !.next = next]
  BY <1>1 DEF Checkpoints, Counted, Redrafted, Cleared
<1> HIDE DEF new
<1>6. new \in Checkpoints
  BY <1>1, <1>2, <1>3, <1>4, <1>5, LoopAssumption, ZenonT(60) DEF Checkpoints
<1>7. Placed(new, db) /\ Sequenced(new)
  BY <1>5 DEF LoopInv, Checkpoints, Tables, NoProposal, Gates
<1>8. Remembers(new) /\ Charged(new, db)
  BY <1>5 DEF LoopInv, Checkpoints, Tables, Remembers, Charged, NoProposal, Gates
<1>9. Proposed(new)
  BY <1>5 DEF LoopInv, Checkpoints, Proposals, Outlines, Proposed, Bound, NoProposal, Gates
<1>10. Bound(new, db)
  BY <1>5
  DEF LoopInv, Checkpoints, Tables, Proposals, Outlines, Proposed, Bound, NoProposal, Gates
<1>11. Judged(new) /\ Batched(new)
  BY <1>5
  DEF LoopInv, Checkpoints, Proposals, Gates, Generations, Judged, Batched, Proposed, NoProposal
<1>12. QED
  BY <1>1, <1>6, <1>7, <1>8, <1>9, <1>10, <1>11 DEF LoopInv, new

\* The user takes the revision, and the review is over.
LEMMA RevisionTaken ==
    ASSUME LoopInv(ckpt, db),
           ckpt.next = "revise_review"
    PROVE  LoopInv([Counted(Redrafted(Cleared(ckpt))) EXCEPT !.next = "persist",
                       !.gate.taken = FALSE], db)
<1> DEFINE new == [Counted(Redrafted(Cleared(ckpt))) EXCEPT !.next = "persist",
                      !.gate.taken = FALSE]
<1>1. ckpt \in Checkpoints /\ db \in Tables
  BY DEF LoopInv
<1>2. [ckpt.gate EXCEPT !.current = FALSE, !.taken = FALSE] \in Gates
  BY <1>1 DEF Checkpoints, Gates
<1>3. [NoProposal EXCEPT !.current = FALSE] \in Proposals
  BY <1>1, <1>2, NothingIsTyped DEF NoProposal, Proposals
<1>4. (IF ckpt.attempts < MaxRevisions THEN ckpt.attempts + 1
      ELSE ckpt.attempts) \in 0 .. MaxRevisions
  BY <1>1, <1>2, <1>3, LoopAssumption DEF Checkpoints
<1>5. new = [ckpt EXCEPT !.text = TRUE, !.gate = [ckpt.gate EXCEPT !.current = FALSE,
                         !.taken = FALSE], !.pending = [NoProposal EXCEPT !.current = FALSE],
                         !.attempts = IF ckpt.attempts < MaxRevisions
                                      THEN ckpt.attempts + 1 ELSE ckpt.attempts,
                         !.next = "persist"]
  BY <1>1, ZenonT(60) DEF Checkpoints, Counted, Redrafted, Cleared, Gates
<1> HIDE DEF new
<1>6. new \in Checkpoints
  BY <1>1, <1>2, <1>3, <1>4, <1>5, LoopAssumption, ZenonT(60) DEF Checkpoints
<1>7. Placed(new, db) /\ Sequenced(new)
  BY <1>5 DEF LoopInv, Checkpoints, Tables, NoProposal, Gates
<1>8. Remembers(new) /\ Charged(new, db)
  BY <1>5 DEF LoopInv, Checkpoints, Tables, Remembers, Charged, NoProposal, Gates
<1>9. Proposed(new)
  BY <1>5 DEF LoopInv, Checkpoints, Proposals, Outlines, Proposed, Bound, NoProposal, Gates
<1>10. Bound(new, db)
  BY <1>5
  DEF LoopInv, Checkpoints, Tables, Proposals, Outlines, Proposed, Bound, NoProposal, Gates
<1>11. Judged(new) /\ Batched(new)
  BY <1>5
  DEF LoopInv, Checkpoints, Proposals, Gates, Generations, Judged, Batched, Proposed, NoProposal
<1>12. QED
  BY <1>1, <1>6, <1>7, <1>8, <1>9, <1>10, <1>11 DEF LoopInv, new

\* There is no draft to store.
LEMMA NothingToKeep ==
    ASSUME LoopInv(ckpt, db),
           ckpt.next = "persist",
           ~ckpt.text
    PROVE  LoopInv([ckpt EXCEPT !.next = "progress"], db)
<1> DEFINE new == [ckpt EXCEPT !.next = "progress"]
<1>1. ckpt \in Checkpoints /\ db \in Tables
  BY DEF LoopInv
<1>2. new \in Checkpoints
  BY <1>1, LoopAssumption DEF Checkpoints
<1>3. Placed(new, db) /\ Sequenced(new)
  BY DEF LoopInv, Checkpoints, Tables
<1>4. Remembers(new) /\ Charged(new, db)
  BY DEF LoopInv, Checkpoints, Tables, Remembers, Charged
<1>5. Proposed(new)
  BY DEF LoopInv, Checkpoints, Proposals, Outlines, Proposed, Bound
<1>6. Bound(new, db)
  BY DEF LoopInv, Checkpoints, Tables, Proposals, Outlines, Proposed, Bound
<1>7. Judged(new) /\ Batched(new)
  BY DEF LoopInv, Checkpoints, Proposals, Gates, Generations, Judged, Batched, Proposed
<1>8. QED
  BY <1>1, <1>2, <1>3, <1>4, <1>5, <1>6, <1>7 DEF LoopInv, new

\* The draft is stored as a chapter.
LEMMA ChapterKept ==
    ASSUME LoopInv(ckpt, db),
           NEW next \in {"reconcile", "progress"},
           NEW s \in Tables,
           Stored(s, ckpt.index + 1, db.plan, db.paid, db.accepted),
           ckpt.next = "persist",
           ckpt.text,
           next = "reconcile" <=> Planned(ckpt)
    PROVE  LoopInv([ckpt EXCEPT !.index = @ + 1, !.text = FALSE, !.memory = Unset,
                                !.next = next], s)
<1> DEFINE new == [ckpt EXCEPT !.index = @ + 1, !.text = FALSE, !.memory = Unset, !.next = next]
<1>1. ckpt \in Checkpoints /\ db \in Tables
  BY DEF LoopInv
<1>2. ckpt.index + 1 \in Indexes
  BY <1>1, LoopAssumption DEF LoopInv, Checkpoints, Tables, Stored
<1>3. new \in Checkpoints
  BY <1>1, <1>2, LoopAssumption DEF Checkpoints
<1>4. Placed(new, s) /\ Sequenced(new)
  BY <1>2 DEF LoopInv, Checkpoints, Tables, Stored
<1>5. Remembers(new) /\ Charged(new, s)
  BY <1>2 DEF LoopInv, Checkpoints, Tables, Remembers, Charged, Stored
<1>6. Proposed(new)
  BY <1>2 DEF LoopInv, Checkpoints, Proposals, Outlines, Proposed, Bound, Stored
<1>7. Bound(new, s)
  BY <1>2 DEF LoopInv, Checkpoints, Tables, Proposals, Outlines, Proposed, Bound, Stored
<1>8. Judged(new) /\ Batched(new)
  BY <1>2
  DEF LoopInv, Checkpoints, Proposals, Gates, Generations, Judged, Batched, Proposed, Stored
<1>9. QED
  BY <1>1, <1>3, <1>4, <1>5, <1>6, <1>7, <1>8 DEF LoopInv, new

\* A planned book without a plan gets one.
LEMMA Unplanned ==
    ASSUME LoopInv(ckpt, db),
           ckpt.next = "reconcile",
           ckpt.plan = 0
    PROVE  LoopInv([ckpt EXCEPT !.next = "plan"], db)
<1> DEFINE new == [ckpt EXCEPT !.next = "plan"]
<1>1. ckpt \in Checkpoints /\ db \in Tables
  BY DEF LoopInv
<1>2. new \in Checkpoints
  BY <1>1, LoopAssumption DEF Checkpoints
<1>3. Placed(new, db) /\ Sequenced(new)
  BY DEF LoopInv, Checkpoints, Tables
<1>4. Remembers(new) /\ Charged(new, db)
  BY DEF LoopInv, Checkpoints, Tables, Remembers, Charged
<1>5. Proposed(new)
  BY DEF LoopInv, Checkpoints, Proposals, Outlines, Proposed, Bound
<1>6. Bound(new, db)
  BY DEF LoopInv, Checkpoints, Tables, Proposals, Outlines, Proposed, Bound
<1>7. Judged(new) /\ Batched(new)
  BY DEF LoopInv, Checkpoints, Proposals, Gates, Generations, Judged, Batched, Proposed
<1>8. QED
  BY <1>1, <1>2, <1>3, <1>4, <1>5, <1>6, <1>7 DEF LoopInv, new

\* The chapter is held against its plan, ...
LEMMA Fulfilled ==
    ASSUME LoopInv(ckpt, db),
           NEW s \in Tables,
           Stored(s, db.chapters, db.plan, db.paid, db.accepted),
           ckpt.next = "reconcile"
    PROVE  LoopInv([ckpt EXCEPT !.next = "progress"], s)
<1> DEFINE new == [ckpt EXCEPT !.next = "progress"]
<1>1. ckpt \in Checkpoints /\ db \in Tables
  BY DEF LoopInv
<1>2. new \in Checkpoints
  BY <1>1, LoopAssumption DEF Checkpoints
<1>3. Placed(new, s) /\ Sequenced(new)
  BY DEF LoopInv, Checkpoints, Tables, Stored
<1>4. Remembers(new) /\ Charged(new, s)
  BY DEF LoopInv, Checkpoints, Tables, Remembers, Charged, Stored
<1>5. Proposed(new)
  BY DEF LoopInv, Checkpoints, Proposals, Outlines, Proposed, Bound, Stored
<1>6. Bound(new, s)
  BY DEF LoopInv, Checkpoints, Tables, Proposals, Outlines, Proposed, Bound, Stored
<1>7. Judged(new) /\ Batched(new)
  BY DEF LoopInv, Checkpoints, Proposals, Gates, Generations, Judged, Batched, Proposed, Stored
<1>8. QED
  BY <1>1, <1>2, <1>3, <1>4, <1>5, <1>6, <1>7 DEF LoopInv, new

\* ... which is to be replaced, ...
LEMMA Drifted ==
    ASSUME LoopInv(ckpt, db),
           NEW s \in Tables,
           Stored(s, db.chapters, db.plan, db.paid, db.accepted),
           ckpt.next = "reconcile"
    PROVE  LoopInv([ckpt EXCEPT !.replan = TRUE, !.next = "plan"], s)
<1> DEFINE new == [ckpt EXCEPT !.replan = TRUE, !.next = "plan"]
<1>1. ckpt \in Checkpoints /\ db \in Tables
  BY DEF LoopInv
<1>2. new \in Checkpoints
  BY <1>1, LoopAssumption DEF Checkpoints
<1>3. Placed(new, s) /\ Sequenced(new)
  BY DEF LoopInv, Checkpoints, Tables, Stored
<1>4. Remembers(new) /\ Charged(new, s)
  BY DEF LoopInv, Checkpoints, Tables, Remembers, Charged, Stored
<1>5. Proposed(new)
  BY DEF LoopInv, Checkpoints, Proposals, Outlines, Proposed, Bound, Stored
<1>6. Bound(new, s)
  BY DEF LoopInv, Checkpoints, Tables, Proposals, Outlines, Proposed, Bound, Stored
<1>7. Judged(new) /\ Batched(new)
  BY DEF LoopInv, Checkpoints, Proposals, Gates, Generations, Judged, Batched, Proposed, Stored
<1>8. QED
  BY <1>1, <1>2, <1>3, <1>4, <1>5, <1>6, <1>7 DEF LoopInv, new

\* ... gives its events to a later chapter, ...
LEMMA Shifted ==
    ASSUME LoopInv(ckpt, db),
           NEW s \in Tables,
           Stored(s, db.chapters, db.plan + 1, db.paid, db.accepted),
           ckpt.next = "reconcile"
    PROVE  LoopInv([ckpt EXCEPT !.plan = @ + 1, !.next = "progress"], s)
<1> DEFINE new == [ckpt EXCEPT !.plan = @ + 1, !.next = "progress"]
<1>1. ckpt \in Checkpoints /\ db \in Tables
  BY DEF LoopInv
<1>2. ckpt.plan + 1 \in Nat
  BY <1>1, LoopAssumption DEF LoopInv, Checkpoints, Tables, Stored
<1>3. new \in Checkpoints
  BY <1>1, <1>2, LoopAssumption DEF Checkpoints
<1>4. Placed(new, s) /\ Sequenced(new)
  BY <1>2 DEF LoopInv, Checkpoints, Tables, Stored
<1>5. Remembers(new) /\ Charged(new, s)
  BY <1>2 DEF LoopInv, Checkpoints, Tables, Remembers, Charged, Stored
<1>6. Proposed(new)
  BY <1>2 DEF LoopInv, Checkpoints, Proposals, Outlines, Proposed, Bound, Stored
<1>7. Bound(new, s)
  BY <1>2 DEF LoopInv, Checkpoints, Tables, Proposals, Outlines, Proposed, Bound, Stored
<1>8. Judged(new) /\ Batched(new)
  BY <1>2
  DEF LoopInv, Checkpoints, Proposals, Gates, Generations, Judged, Batched, Proposed, Stored
<1>9. QED
  BY <1>1, <1>3, <1>4, <1>5, <1>6, <1>7, <1>8 DEF LoopInv, new

\* ... or asks the user to let it.
LEMMA DriftProposed ==
    ASSUME LoopInv(ckpt, db),
           NEW p,
           NEW s \in Tables,
           Stored(s, db.chapters, db.plan, db.paid, db.accepted),
           ckpt.next = "reconcile",
           IsNew(p, "novel_plan", 0)
    PROVE  LoopInv([ckpt EXCEPT !.gen = ManualDrift, !.next = "plan_review", !.pending = p], s)
<1> DEFINE new == [ckpt EXCEPT !.gen = ManualDrift, !.next = "plan_review", !.pending = p]
<1>1. ckpt \in Checkpoints /\ db \in Tables
  BY DEF LoopInv
<1>2. p \in Proposals
  BY <1>1 DEF IsNew
<1>3. ManualDrift \in Generations
  BY <1>1, <1>2, LoopAssumption DEF Checkpoints, ManualDrift, Generations, Modes
<1>4. new \in Checkpoints
  BY <1>1, <1>2, <1>3, LoopAssumption DEF Checkpoints
<1>5. Placed(new, s) /\ Sequenced(new)
  BY DEF LoopInv, Checkpoints, Tables, IsNew, ManualDrift, Stored
<1>6. Remembers(new) /\ Charged(new, s)
  BY DEF LoopInv, Checkpoints, Tables, Remembers, Charged, IsNew, ManualDrift, Stored
<1>7. Proposed(new)
  BY DEF LoopInv, Checkpoints, Proposals, Outlines, Proposed, Bound, IsNew, ManualDrift, Stored
<1>8. Bound(new, s)
  BY DEF LoopInv, Checkpoints, Tables, Proposals, Outlines, Proposed, Bound, IsNew, ManualDrift,
         Stored
<1>9. Judged(new) /\ Batched(new)
  BY DEF LoopInv, Checkpoints, Proposals, Gates, Generations, Judged, Batched, Proposed, IsNew,
         ManualDrift, Stored
<1>10. QED
  BY <1>1, <1>4, <1>5, <1>6, <1>7, <1>8, <1>9 DEF LoopInv, new

\* The next chapter is taken up.
LEMMA Continues ==
    ASSUME LoopInv(ckpt, db),
           ckpt.next = "progress",
           db.chapters < Total
    PROVE  LoopInv(Continued(ckpt), db)
<1> DEFINE new == Continued(ckpt)
<1>1. ckpt \in Checkpoints /\ db \in Tables
  BY DEF LoopInv
<1>2. new = [ckpt EXCEPT !.next = "router", !.text = FALSE, !.checked = FALSE, !.memory = Unset]
  BY <1>1 DEF Checkpoints, Continued
<1> HIDE DEF new
<1>3. new \in Checkpoints
  BY <1>1, <1>2, LoopAssumption, ZenonT(60) DEF Checkpoints
<1>4. Placed(new, db) /\ Sequenced(new)
  BY <1>2 DEF LoopInv, Checkpoints, Tables
<1>5. Remembers(new) /\ Charged(new, db)
  BY <1>2 DEF LoopInv, Checkpoints, Tables, Remembers, Charged
<1>6. Proposed(new)
  BY <1>2 DEF LoopInv, Checkpoints, Proposals, Outlines, Proposed, Bound
<1>7. Bound(new, db)
  BY <1>2 DEF LoopInv, Checkpoints, Tables, Proposals, Outlines, Proposed, Bound
<1>8. Judged(new) /\ Batched(new)
  BY <1>2 DEF LoopInv, Checkpoints, Proposals, Gates, Generations, Judged, Batched, Proposed
<1>9. QED
  BY <1>1, <1>3, <1>4, <1>5, <1>6, <1>7, <1>8 DEF LoopInv, new

\* The book is complete.
LEMMA Completed ==
    ASSUME LoopInv(ckpt, db),
           ckpt.next = "progress"
    PROVE  LoopInv([ckpt EXCEPT !.next = "end"], db)
<1> DEFINE new == [ckpt EXCEPT !.next = "end"]
<1>1. ckpt \in Checkpoints /\ db \in Tables
  BY DEF LoopInv
<1>2. new \in Checkpoints
  BY <1>1, LoopAssumption DEF Checkpoints
<1>3. Placed(new, db) /\ Sequenced(new)
  BY DEF LoopInv, Checkpoints, Tables
<1>4. Remembers(new) /\ Charged(new, db)
  BY DEF LoopInv, Checkpoints, Tables, Remembers, Charged
<1>5. Proposed(new)
  BY DEF LoopInv, Checkpoints, Proposals, Outlines, Proposed, Bound
<1>6. Bound(new, db)
  BY DEF LoopInv, Checkpoints, Tables, Proposals, Outlines, Proposed, Bound
<1>7. Judged(new) /\ Batched(new)
  BY DEF LoopInv, Checkpoints, Proposals, Gates, Generations, Judged, Batched, Proposed
<1>8. QED
  BY <1>1, <1>2, <1>3, <1>4, <1>5, <1>6, <1>7 DEF LoopInv, new

\* The plan is accepted.
LEMMA PlanAccepted ==
    ASSUME LoopInv(ckpt, db),
           NEW v \in Nat,
           NEW next \in {"persist", "progress"},
           NEW s \in Tables,
           Stored(s, db.chapters, s.plan, db.paid, s.accepted),
           s.plan >= v,
           v >= ckpt.plan,
           ckpt.next = "plan_review"
    PROVE  LoopInv([Cleared(ckpt) EXCEPT !.next = next, !.plan = v, !.gen = NoGeneration,
                                         !.replan = FALSE], s)
<1> DEFINE new == [Cleared(ckpt) EXCEPT !.next = next, !.plan = v, !.gen = NoGeneration,
                                        !.replan = FALSE]
<1>1. ckpt \in Checkpoints /\ db \in Tables
  BY DEF LoopInv
<1>2. NoProposal \in Proposals
  BY <1>1, NothingIsTyped DEF Proposals
<1>3. NoGeneration \in Generations
  BY <1>1, <1>2, NothingIsTyped DEF Generations
<1>4. new = [ckpt EXCEPT !.pending = NoProposal, !.next = next, !.plan = v,
                         !.gen = NoGeneration, !.replan = FALSE]
  BY <1>1 DEF Checkpoints, Cleared
<1> HIDE DEF new
<1>5. new \in Checkpoints
  BY <1>1, <1>2, <1>3, <1>4, LoopAssumption, ZenonT(60) DEF Checkpoints
<1>6. Placed(new, s) /\ Sequenced(new)
  BY <1>4 DEF LoopInv, Checkpoints, Tables, NoProposal, NoGeneration, Stored
<1>7. Remembers(new) /\ Charged(new, s)
  BY <1>4 DEF LoopInv, Checkpoints, Tables, Remembers, Charged, NoProposal, NoGeneration, Stored
<1>8. Proposed(new)
  BY <1>4
  DEF LoopInv, Checkpoints, Proposals, Outlines, Proposed, Bound, NoProposal, NoGeneration,
      Stored
<1>9. Bound(new, s)
  BY <1>4
  DEF LoopInv, Checkpoints, Tables, Proposals, Outlines, Proposed, Bound, NoProposal,
      NoGeneration, Stored
<1>10. Judged(new) /\ Batched(new)
  BY <1>4
  DEF LoopInv, Checkpoints, Proposals, Gates, Generations, Judged, Batched, Proposed,
      NoProposal, NoGeneration, Stored
<1>11. QED
  BY <1>1, <1>5, <1>6, <1>7, <1>8, <1>9, <1>10 DEF LoopInv, new

\* The plan is to be made again.
LEMMA PlanAgain ==
    ASSUME LoopInv(ckpt, db),
           ckpt.next = "plan_review"
    PROVE  LoopInv([Cleared(ckpt) EXCEPT !.next = "plan", !.gen = NoGeneration], db)
<1> DEFINE new == [Cleared(ckpt) EXCEPT !.next = "plan", !.gen = NoGeneration]
<1>1. ckpt \in Checkpoints /\ db \in Tables
  BY DEF LoopInv
<1>2. NoProposal \in Proposals
  BY <1>1, NothingIsTyped DEF Proposals
<1>3. NoGeneration \in Generations
  BY <1>1, <1>2, NothingIsTyped DEF Generations
<1>4. new = [ckpt EXCEPT !.pending = NoProposal, !.next = "plan", !.gen = NoGeneration]
  BY <1>1 DEF Checkpoints, Cleared
<1> HIDE DEF new
<1>5. new \in Checkpoints
  BY <1>1, <1>2, <1>3, <1>4, LoopAssumption DEF Checkpoints
<1>6. Placed(new, db) /\ Sequenced(new)
  BY <1>4 DEF LoopInv, Checkpoints, Tables, NoProposal, NoGeneration
<1>7. Remembers(new) /\ Charged(new, db)
  BY <1>4 DEF LoopInv, Checkpoints, Tables, Remembers, Charged, NoProposal, NoGeneration
<1>8. Proposed(new)
  BY <1>4
  DEF LoopInv, Checkpoints, Proposals, Outlines, Proposed, Bound, NoProposal, NoGeneration
<1>9. Bound(new, db)
  BY <1>4
  DEF LoopInv, Checkpoints, Tables, Proposals, Outlines, Proposed, Bound, NoProposal,
      NoGeneration
<1>10. Judged(new) /\ Batched(new)
  BY <1>4
  DEF LoopInv, Checkpoints, Proposals, Gates, Generations, Judged, Batched, Proposed,
      NoProposal, NoGeneration
<1>11. QED
  BY <1>1, <1>5, <1>6, <1>7, <1>8, <1>9, <1>10 DEF LoopInv, new

\* A command starts anew from the tables, between two chapters.
LEMMA Seeds ==
    ASSUME LoopInv(ckpt, db),
           NEW schema \in {4, 5},
           NEW replan \in BOOLEAN,
           NEW u \in BOOLEAN,
           NEW next \in {"plan", "persist"},
           BetweenChapters,
           Seeding(schema, replan, next)
    PROVE  LoopInv([ckpt EXCEPT !.schema = schema, !.index = db.chapters, !.unreconciled = u,
                                !.plan = db.plan, !.replan = replan, !.next = next], db)
<1> DEFINE new == [ckpt EXCEPT !.schema = schema, !.index = db.chapters, !.unreconciled = u,
                               !.plan = db.plan, !.replan = replan, !.next = next]
           index == db.chapters
           plan == db.plan
<1>1. ckpt \in Checkpoints /\ db \in Tables
  BY DEF LoopInv
<1>2. index \in Indexes /\ plan \in Nat
  BY <1>1 DEF Tables
<1> HIDE DEF index, plan
<1>3. new \in Checkpoints
  BY <1>1, <1>2, LoopAssumption, ZenonT(60) DEF Checkpoints, index, plan
<1>4. Placed(new, db) /\ Sequenced(new)
  BY DEF LoopInv, Checkpoints, Tables, BetweenChapters, Seeding
<1>5. Remembers(new) /\ Charged(new, db)
  BY DEF LoopInv, Checkpoints, Tables, Remembers, Charged, BetweenChapters, Seeding
<1>6. /\ db.chapters = ckpt.index /\ ckpt.plan <= db.plan
      /\ db.plan \in Nat /\ ckpt.plan \in Nat /\ ~ckpt.text
  BY <1>1 DEF LoopInv, Checkpoints, Tables, Bound, BetweenChapters
<1>7. Proposed(new)
  BY <1>6 DEF LoopInv, Checkpoints, Proposals, Outlines, Proposed, Bound, BetweenChapters,
              Seeding
<1>8. Bound(new, db)
  BY DEF LoopInv, Checkpoints, Tables, Proposals, Outlines, Proposed, Bound, BetweenChapters,
         Seeding
<1>9. Judged(new) /\ Batched(new)
  BY DEF LoopInv, Checkpoints, Proposals, Gates, Generations, Judged, Batched, Proposed,
         BetweenChapters, Seeding
<1>10. QED
  BY <1>1, <1>3, <1>4, <1>5, <1>7, <1>8, <1>9 DEF LoopInv, new

\* The chapters after the position are gone, or one of them changed.
LEMMA Rewinds ==
    ASSUME LoopInv(ckpt, db),
           NEW index \in Indexes,
           NEW next \in {"end", "router"},
           NEW o \in Outlines,
           NEW s \in Tables,
           Rewinding(index, next, o),
           Stored(s, index, db.plan, db.paid, db.accepted)
    PROVE  LoopInv([ckpt EXCEPT !.pending = NoProposal, !.text = FALSE, !.checked = FALSE,
                                !.memory = Unset, !.memFor = Unset, !.outline = o,
                                !.window = NoWindow, !.expected = 0, !.unreconciled = TRUE,
                                !.index = index, !.attempts = 0, !.next = next], s)
<1> DEFINE new == [ckpt EXCEPT !.pending = NoProposal, !.text = FALSE, !.checked = FALSE,
                               !.memory = Unset, !.memFor = Unset, !.outline = o,
                               !.window = NoWindow, !.expected = 0, !.unreconciled = TRUE,
                               !.index = index, !.attempts = 0, !.next = next]
<1>1. ckpt \in Checkpoints /\ db \in Tables
  BY DEF LoopInv
<1>2. NoProposal \in Proposals /\ NoWindow \in Windows
  BY <1>1, NothingIsTyped, NoWindowIsTyped DEF Proposals
<1>3. 0 \in 0 .. MaxRevisions
  BY <1>1, <1>2, LoopAssumption
<1>4. new \in Checkpoints
  BY <1>1, <1>2, <1>3, LoopAssumption DEF Checkpoints
<1>5. Placed(new, s) /\ Sequenced(new)
  BY DEF LoopInv, Checkpoints, Tables, NoProposal, NoOutline, Rewinding, Stored
<1>6. Remembers(new) /\ Charged(new, s)
  BY DEF LoopInv, Checkpoints, Tables, Remembers, Charged, NoProposal, NoOutline, Rewinding,
         Stored
<1>7. Proposed(new)
  BY DEF LoopInv, Checkpoints, Proposals, Outlines, Proposed, Bound, NoProposal, NoOutline,
         Rewinding, Stored
<1>8. Bound(new, s)
  BY DEF LoopInv, Checkpoints, Tables, Proposals, Outlines, Proposed, Bound, NoProposal,
         NoOutline, Rewinding, Stored
<1>9. Judged(new) /\ Batched(new)
  BY DEF LoopInv, Checkpoints, Proposals, Gates, Generations, Judged, Batched, Proposed,
         NoProposal, NoOutline, Rewinding, Stored
<1>10. QED
  BY <1>1, <1>4, <1>5, <1>6, <1>7, <1>8, <1>9 DEF LoopInv, new

\* Tables that grow leave the checkpoint what it relies on.
LEMMA StoreKept ==
    ASSUME LoopInv(ckpt, db), NEW s \in Tables,
           db.paid \subseteq s.paid,
           s.plan >= db.plan,
           ckpt.text \/ s.chapters = db.chapters,
           ckpt.text => s.chapters \in {ckpt.index, ckpt.index + 1},
           ckpt.pending.kind = "novel_plan" /\ ckpt.pending.id = s.accepted.key
             => s.accepted.version = s.plan
    PROVE  LoopInv(ckpt, s)
<1>1. Placed(ckpt, s) /\ Charged(ckpt, s)
  BY DEF LoopInv, Charged
<1>2. Bound(ckpt, s)
  BY DEF LoopInv, Bound, Checkpoints, Tables
<1> QED BY <1>1, <1>2 DEF LoopInv

HIDE DEF Placed, Sequenced, Indexes, Accepted, Underway, OfTheDraft, Outdated

-----------------------------------------------------------------------------
(* The actions of the plan *)

\* PlanInitialize keeps the invariant.
LEMMA PlanInitializeStep ==
    ASSUME LoopInv(ckpt, db), PlanInitialize
    PROVE  LoopInv(ckpt', db')
<1>1. CASE Matches("novel_plan", 0)
  BY <1>1, PlanTakenUp, Updated DEF PlanInitialize, At, Update, Step
<1>2. CASE ~Matches("novel_plan", 0)
  <2> DEFINE gen == IF ckpt.gen.mode = "none" THEN NewGeneration ELSE ckpt.gen
             new == [ckpt EXCEPT !.next = "volume", !.gen = gen]
  <2>1. ckpt.next = "plan" /\ Settle(new, db, run)
    BY <1>2 DEF PlanInitialize, At, Update, Step
  <2>2. /\ gen \in Generations
        /\ gen.mode # "none"
        /\ gen.mode \in {"replan", "legacy_upgrade"} => gen.forced
    BY NewGenerationIsTyped DEF LoopInv, Checkpoints, Batched
  <2>3. LoopInv(new, db)
    <3> HIDE DEF gen
    <3> QED BY <2>1, <2>2, Generating
  <2> QED BY <2>1, <2>3, Updated
<1> QED BY <1>1, <1>2

\* PlanVolume keeps the invariant.
LEMMA PlanVolumeStep ==
    ASSUME LoopInv(ckpt, db), PlanVolume
    PROVE  LoopInv(ckpt', db')
<1>1. CASE ckpt.gen.left = 0
  BY <1>1 DEF PlanVolume, Await, Fails
<1>2. CASE ckpt.gen.left # 0
  <2> DEFINE gen == [ckpt.gen EXCEPT !.left = 0]
             new == [ckpt EXCEPT !.next = "finalize", !.gen = gen]
  <2>1. [ckpt EXCEPT !.gen.left = 0, !.next = "finalize"] = new
    BY DEF LoopInv, Checkpoints
  <2>2. ckpt.next = "volume" /\ Settle(new, db, run)
    BY <1>2, <2>1 DEF PlanVolume, At, Update, Step
  <2>3. ckpt.gen \in Generations
    BY DEF LoopInv, Checkpoints
  <2>4. gen \in Generations /\ gen.mode = ckpt.gen.mode /\ gen.forced = ckpt.gen.forced
    BY <2>3 DEF Generations
  <2>5. LoopInv(new, db)
    <3>1. gen.mode # "none" /\ (gen.mode \in {"replan", "legacy_upgrade"} => gen.forced)
      BY <2>2, <2>4 DEF LoopInv, Batched
    <3> HIDE DEF gen
    <3> QED BY <2>2, <2>4, <3>1, Generating
  <2> QED BY <2>2, <2>5, Updated
<1> QED BY <1>1, <1>2

\* A proposal that is made is new.
LEMMA FreshProposal ==
    ASSUME db \in Tables, NEW kind \in Kinds, NEW chapter \in Indexes, NEW window \in Windows
    PROVE  /\ IsNew(Proposal(kind, chapter, window, TRUE), kind, chapter)
           /\ IsNew(Proposal(kind, chapter, window, FALSE), kind, chapter)
BY FreshIdIsFresh DEF Proposal, Proposals, IsNew

\* PlanFinalize keeps the invariant.
LEMMA PlanFinalizeStep ==
    ASSUME LoopInv(ckpt, db), PlanFinalize
    PROVE  LoopInv(ckpt', db')
<1>1. ckpt.next = "finalize" /\ ckpt \in Checkpoints /\ db \in Tables
  BY DEF PlanFinalize, At, LoopInv
<1>2. ASSUME Settle([ckpt EXCEPT !.next = "plan_review",
                         !.pending = Proposal("novel_plan", 0, NoWindow, TRUE)], db, run)
      PROVE  LoopInv(ckpt', db')
  <2>1. IsNew(Proposal("novel_plan", 0, NoWindow, TRUE), "novel_plan", 0)
    <3>1. "novel_plan" \in Kinds /\ 0 \in Indexes
      BY LoopAssumption DEF Kinds, Indexes
    <3> QED BY <1>1, <3>1, FreshProposal, NoWindowIsTyped
  <2>2. LoopInv([ckpt EXCEPT !.next = "plan_review",
                     !.pending = Proposal("novel_plan", 0, NoWindow, TRUE)], db)
    BY <1>1, <2>1, PlanProposed
  <2> QED BY <1>2, <2>2, Updated
<1>3. ASSUME MayRestart,
             Settle([ckpt EXCEPT !.gen.left = 1, !.gen.restarts = @ + 1, !.next = "volume"],
                    db, run)
      PROVE  LoopInv(ckpt', db')
  <2> DEFINE gen == [ckpt.gen EXCEPT !.left = 1, !.restarts = @ + 1]
             new == [ckpt EXCEPT !.next = "volume", !.gen = gen]
  <2>1. ckpt.gen \in Generations
    BY DEF LoopInv, Checkpoints
  <2>2. [ckpt EXCEPT !.gen.left = 1, !.gen.restarts = @ + 1, !.next = "volume"] = new
    BY <2>1 DEF LoopInv, Checkpoints, Generations
  <2>3. gen \in Generations /\ gen.mode = ckpt.gen.mode /\ gen.forced = ckpt.gen.forced
    <3>1. ckpt.gen.restarts + 1 \in 0 .. MaxRestarts
      BY <1>3, <2>1, LoopAssumption DEF Generations, MayRestart
    <3> QED BY <2>1, <3>1 DEF Generations
  <2>4. gen.mode # "none" /\ (gen.mode \in {"replan", "legacy_upgrade"} => gen.forced)
    BY <1>1, <2>3 DEF LoopInv, Batched
  <2>5. LoopInv(new, db)
    <3> HIDE DEF gen
    <3> QED BY <1>1, <2>3, <2>4, Generating
  <2>6. Settle(new, db, run)
    BY <1>3, <2>2
  <2> QED BY <2>5, <2>6, Updated
<1> QED BY <1>2, <1>3 DEF PlanFinalize, Update, Step

-----------------------------------------------------------------------------
(* The actions on the way to the draft *)

\* Router keeps the invariant.
LEMMA RouterStep ==
    ASSUME LoopInv(ckpt, db), Router, ~MidChapterRestarts
    PROVE  LoopInv(ckpt', db')
<1>1. ckpt.next = "router"
  BY DEF Router, At
<1>2. ASSUME Settle([ckpt EXCEPT !.next = Route(ckpt)], db, run)
      PROVE  LoopInv(ckpt', db')
  BY <1>1, <1>2, RoutedOn, Updated
<1>3. ASSUME NEW upgraded, upgraded = [ckpt EXCEPT !.schema = 5], MayUpgrade,
             Settle([upgraded EXCEPT !.next = Route(upgraded)], db, run)
      PROVE  LoopInv(ckpt', db')
  <2>1. LoopInv(upgraded, db)
    BY <1>1, <1>3, Upgraded DEF MayUpgrade
  <2>2. upgraded.next = "router"
    BY <1>1, <1>3 DEF LoopInv, Checkpoints
  <2>3. LoopInv([upgraded EXCEPT !.next = Route(upgraded)], db)
    BY <2>1, <2>2, RoutedOn
  <2> QED BY <1>3, <2>3, Updated
<1> QED BY <1>2, <1>3 DEF Router, Update, Step

\* RetrieveMemory keeps the invariant.
LEMMA RetrieveMemoryStep ==
    ASSUME LoopInv(ckpt, db), RetrieveMemory
    PROVE  LoopInv(ckpt', db')
BY Retrieved, Updated DEF RetrieveMemory, At, Update, Step

\* The tables with one more payment.
LEMMA OneMorePaid ==
    ASSUME LoopInv(ckpt, db)
    PROVE  LET s == [db EXCEPT !.paid = @ \cup {ckpt.index}]
           IN  /\ s \in Tables
               /\ Stored(s, db.chapters, db.plan, db.paid \cup {ckpt.index}, db.accepted)
               /\ LoopInv(ckpt, s)
<1> DEFINE s == [db EXCEPT !.paid = @ \cup {ckpt.index}]
<1>1. db \in Tables /\ ckpt.index \in Indexes
  BY DEF LoopInv, Checkpoints
<1>2. s \in Tables
  BY <1>1 DEF Tables
<1>3. Stored(s, db.chapters, db.plan, db.paid \cup {ckpt.index}, db.accepted)
  BY <1>1 DEF Tables, Stored
<1>4. LoopInv(ckpt, s)
  <2>1. /\ s.chapters = db.chapters /\ s.plan = db.plan
        /\ s.paid = db.paid \cup {ckpt.index} /\ s.accepted = db.accepted
    BY <1>3 DEF Stored
  <2>2. db.plan \in Nat
    BY <1>1 DEF Tables
  <2> HIDE DEF s
  <2> QED BY <1>2, <2>1, <2>2, StoreKept DEF LoopInv, Placed, Bound
<1> QED BY <1>2, <1>3, <1>4

\* ReserveQuota keeps the invariant.
LEMMA ReserveQuotaStep ==
    ASSUME LoopInv(ckpt, db), ReserveQuota
    PROVE  LoopInv(ckpt', db')
<1> DEFINE s == [db EXCEPT !.paid = @ \cup {ckpt.index}]
           new == [ckpt EXCEPT !.quotaFor = ckpt.index, !.next = "router"]
<1>1. ckpt.next = "quota" /\ Settle(new, s, run)
  BY DEF ReserveQuota, At, Step
<1>2. LoopInv(new, s) /\ LoopInv(ckpt, s)
  <2> HIDE DEF s
  <2> QED BY <1>1, OneMorePaid, Reserved DEF s
<1> QED BY <1>1, <1>2, Settled

\* PlanTactics keeps the invariant.
LEMMA PlanTacticsStep ==
    ASSUME LoopInv(ckpt, db), PlanTactics
    PROVE  LoopInv(ckpt', db')
<1> DEFINE found(w, e, f, u) ==
             [ckpt EXCEPT !.window = w, !.expected = e, !.feedback = f,
                          !.unreconciled = u, !.next = "outline"]
           candidate == [version |-> db.window.version + 1, plan |-> ckpt.plan,
                         start |-> Chapter]
<1>1. ckpt.next = "tactical" /\ ckpt \in Checkpoints /\ db \in Tables
  BY DEF PlanTactics, At, LoopInv
<1>2. /\ ckpt.window \in Windows /\ db.window \in Windows
      /\ ckpt.expected \in Nat /\ ckpt.feedback \in BOOLEAN
      /\ ckpt.unreconciled \in BOOLEAN /\ ckpt.plan \in Nat
  BY <1>1 DEF Checkpoints, Tables
<1>3. db.window.version \in Nat
  BY <1>2 DEF Windows
<1>4. candidate \in Windows
  <2>1. ckpt.index + 1 \in Indexes
    BY <1>1, LoopAssumption DEF LoopInv, Placed, Checkpoints, Indexes
  <2> QED BY <1>2, <1>3, <2>1 DEF Windows
<1>5. \/ Settle(found(ckpt.window, ckpt.expected, ckpt.feedback, ckpt.unreconciled), db, run)
      \/ Settle(found(db.window, db.window.version, ckpt.feedback, ckpt.unreconciled), db, run)
      \/ Settle(found(candidate, db.window.version, FALSE, FALSE), db, run)
  <2>1. [ckpt EXCEPT !.next = "outline"]
          = found(ckpt.window, ckpt.expected, ckpt.feedback, ckpt.unreconciled)
    BY <1>1 DEF Checkpoints
  <2>2. [[ckpt EXCEPT !.window = db.window, !.expected = db.window.version]
            EXCEPT !.next = "outline"]
          = found(db.window, db.window.version, ckpt.feedback, ckpt.unreconciled)
    BY <1>1 DEF Checkpoints
  <2>3. [ckpt EXCEPT !.window = candidate, !.expected = db.window.version,
                     !.feedback = FALSE, !.unreconciled = FALSE, !.next = "outline"]
          = found(candidate, db.window.version, FALSE, FALSE)
    BY <1>1 DEF Checkpoints
  <2> HIDE DEF found, candidate
  <2> QED BY <2>1, <2>2, <2>3, Zenon DEF PlanTactics, Update, Step, candidate
<1>6. ASSUME NEW w \in Windows, NEW e \in Nat, NEW f \in BOOLEAN, NEW u \in BOOLEAN,
             Settle(found(w, e, f, u), db, run)
      PROVE  LoopInv(ckpt', db')
  BY <1>1, <1>6, Tactics, Updated
<1> HIDE DEF found, candidate
<1> QED BY <1>2, <1>3, <1>4, <1>5, <1>6

\* OutlineChapter keeps the invariant.
LEMMA OutlineChapterStep ==
    ASSUME LoopInv(ckpt, db), OutlineChapter
    PROVE  LoopInv(ckpt', db')
<1> DEFINE kind == IF Planned(ckpt) THEN "chapter_plan" ELSE "chapter_outline"
           next == IF Planned(ckpt) THEN "chapter_plan_review" ELSE "outline_review"
           window == IF Planned(ckpt) THEN ckpt.window ELSE NoWindow
           p == Proposal(kind, Chapter, window, TRUE)
<1>1. ckpt.next = "outline" /\ ckpt \in Checkpoints /\ db \in Tables
  BY DEF OutlineChapter, At, LoopInv
<1>2. IF Planned(ckpt) THEN kind = "chapter_plan" /\ next = "chapter_plan_review"
                       ELSE kind = "chapter_outline" /\ next = "outline_review"
  OBVIOUS
<1>3. IsNew(p, kind, ckpt.index + 1)
  <2>1. kind \in Kinds
    BY DEF Kinds
  <2>2. ckpt.index + 1 \in Indexes
    BY <1>1, LoopAssumption DEF LoopInv, Placed, Checkpoints, Indexes
  <2>3. window \in Windows
    BY <1>1, NoWindowIsTyped DEF Checkpoints
  <2> HIDE DEF kind, window
  <2> QED BY <1>1, <2>1, <2>2, <2>3, FreshProposal
<1>4. CASE Matches(kind, ckpt.index + 1)
  <2>1. Settle([ckpt EXCEPT !.next = next], db, run)
    <3>1. [ckpt EXCEPT !.next = next, !.pending = ckpt.pending] = [ckpt EXCEPT !.next = next]
      BY <1>1 DEF Checkpoints
    <3> QED BY <1>4, <3>1 DEF OutlineChapter, Update, Step
  <2> HIDE DEF kind, next
  <2>2. LoopInv([ckpt EXCEPT !.next = next], db)
    BY <1>1, <1>2, <1>4, OutlineKept
  <2> QED BY <2>1, <2>2, Updated
<1>5. CASE ~Matches(kind, ckpt.index + 1)
  <2>1. Settle([ckpt EXCEPT !.next = next, !.pending = p], db, run)
    BY <1>5 DEF OutlineChapter, Update, Step
  <2> HIDE DEF kind, next, p
  <2>2. LoopInv([ckpt EXCEPT !.next = next, !.pending = p], db)
    BY <1>1, <1>2, <1>3, OutlineProposed
  <2> QED BY <2>1, <2>2, Updated
<1> QED BY <1>4, <1>5

\* A window and its key in the tables.
LEMMA WindowStored ==
    ASSUME LoopInv(ckpt, db), NEW w \in Windows, ckpt.next = "chapter_plan_review"
    PROVE  LET s == WithWindow(w, ckpt.pending.id)
           IN  /\ s \in Tables
               /\ Stored(s, db.chapters, db.plan, db.paid, s.accepted)
               /\ LoopInv(ckpt, s)
<1> DEFINE s == WithWindow(w, ckpt.pending.id)
<1>1. db \in Tables /\ ckpt.pending \in Proposals /\ w.version \in Nat
  BY DEF LoopInv, Checkpoints, Windows
<1>2. ckpt.pending.id \in 0 .. 2
  BY <1>1 DEF Proposals
<1>3. s \in Tables
  BY <1>1, <1>2 DEF Tables, WithWindow
<1>4. Stored(s, db.chapters, db.plan, db.paid, s.accepted)
  BY <1>1 DEF Tables, Stored, WithWindow
<1>5. LoopInv(ckpt, s)
  <2>1. /\ s.chapters = db.chapters /\ s.plan = db.plan /\ s.paid = db.paid
    BY <1>4 DEF Stored
  <2>2. db.plan \in Nat
    BY <1>1 DEF Tables
  <2>3. ckpt.pending.kind = "chapter_plan"
    BY DEF LoopInv, Proposed
  <2> HIDE DEF s
  <2> QED BY <1>3, <2>1, <2>2, <2>3, StoreKept DEF LoopInv, Placed
<1> QED BY <1>3, <1>4, <1>5

\* ChapterPlanReview keeps the invariant.
LEMMA ChapterPlanReviewStep ==
    ASSUME LoopInv(ckpt, db), NEW mode,
           NEW decision \in {"accept", "regenerate_outline", "regenerate_tactics"},
           ChapterPlanReview(decision, mode)
    PROVE  LoopInv(ckpt', db')
<1> DEFINE proposed == ckpt.pending.window
           answer == AcceptWindow(ckpt.pending.id, proposed, ckpt.expected)
           window == [proposed EXCEPT !.version = answer.version]
           outline == [chapter |-> Chapter, plan |-> ckpt.plan, window |-> window.version]
           new == [Cleared(ckpt) EXCEPT
                      !.next = "router", !.feedback = FALSE,
                      !.window = window, !.expected = window.version,
                      !.outline = outline]
<1>1. ckpt.next = "chapter_plan_review" /\ ckpt \in Checkpoints /\ db \in Tables
  BY DEF ChapterPlanReview, Reviews, LoopInv
<1>2. ASSUME Settle(new, WithWindow(window, ckpt.pending.id), mode)
      PROVE  LoopInv(ckpt', db')
  <2>1. proposed \in Windows
    BY <1>1 DEF Checkpoints, Proposals
  <2>2. answer.version \in Nat
    <3>1. ckpt.expected \in Nat /\ db.accepted.version \in Nat
      BY <1>1 DEF Checkpoints, Tables
    <3> QED BY <3>1 DEF AcceptWindow
  <2>3. window \in Windows /\ window.version \in Nat
    <3> HIDE DEF answer, proposed
    <3> QED BY <2>1, <2>2 DEF Windows
  <2>4. ckpt.index + 1 \in Indexes /\ ckpt.plan \in Nat
    BY <1>1, LoopAssumption DEF LoopInv, Placed, Checkpoints, Indexes
  <2> HIDE DEF window
  <2>5. outline \in Outlines
    BY <2>3, <2>4 DEF Outlines
  <2>6. outline.chapter = ckpt.index + 1 /\ outline.plan = ckpt.plan
    OBVIOUS
  <2> DEFINE s == WithWindow(window, ckpt.pending.id)
  <2>7. /\ s \in Tables
        /\ Stored(s, db.chapters, db.plan, db.paid, s.accepted)
        /\ LoopInv(ckpt, s)
    BY <1>1, <2>3, WindowStored
  <2>8. LoopInv([Cleared(ckpt) EXCEPT !.next = "router", !.feedback = FALSE,
                    !.window = window, !.expected = window.version, !.outline = outline], s)
    <3> HIDE DEF outline, s
    <3> QED BY <1>1, <2>3, <2>5, <2>6, <2>7, WindowAccepted
  <2> QED BY <1>2, <2>7, <2>8, Settled
<1>3. ASSUME Settle([Cleared(ckpt) EXCEPT !.next = "outline"], db, mode)
      PROVE  LoopInv(ckpt', db')
  BY <1>1, <1>3, OutlineAgain, Updated
<1>4. ASSUME NEW instructed \in BOOLEAN,
             Settle([Cleared(ckpt) EXCEPT !.next = "tactical",
                        !.window = NoWindow, !.feedback = instructed], db, mode)
      PROVE  LoopInv(ckpt', db')
  BY <1>1, <1>4, TacticsAgain, Updated
<1>5. CASE Fails /\ UNCHANGED db
  BY <1>5 DEF Fails
<1> HIDE DEF new
<1>6. \/ Settle(new, WithWindow(window, ckpt.pending.id), mode)
      \/ Fails /\ UNCHANGED db
      \/ Settle([Cleared(ckpt) EXCEPT !.next = "outline"], db, mode)
      \/ \E instructed \in BOOLEAN :
            Settle([Cleared(ckpt) EXCEPT !.next = "tactical",
                       !.window = NoWindow, !.feedback = instructed], db, mode)
  BY DEF ChapterPlanReview, new
<1> HIDE DEF window
<1> QED BY <1>2, <1>3, <1>4, <1>5, <1>6

\* OutlineReview keeps the invariant.
LEMMA OutlineReviewStep ==
    ASSUME LoopInv(ckpt, db), NEW mode,
           NEW decision \in {"accept", "regenerate_outline"},
           OutlineReview(decision, mode)
    PROVE  LoopInv(ckpt', db')
<1>1. ckpt.next = "outline_review"
  BY DEF OutlineReview, Reviews
<1>2. ASSUME Settle([Cleared(ckpt) EXCEPT !.next = "router",
                        !.outline = [NoOutline EXCEPT !.chapter = Chapter]], db, mode)
      PROVE  LoopInv(ckpt', db')
  BY <1>1, <1>2, OutlineAccepted, Updated
<1>3. ASSUME Settle([Cleared(ckpt) EXCEPT !.next = "outline"], db, mode)
      PROVE  LoopInv(ckpt', db')
  BY <1>1, <1>3, OutlineAgain, Updated
<1> QED BY <1>2, <1>3 DEF OutlineReview

-----------------------------------------------------------------------------
(* The actions of the draft *)

\* Write keeps the invariant.
LEMMA WriteStep ==
    ASSUME LoopInv(ckpt, db), Write
    PROVE  LoopInv(ckpt', db')
<1> DEFINE new == [Redrafted(ckpt) EXCEPT !.attempts = 0, !.checked = FALSE, !.next = "router"]
           s == [db EXCEPT !.paid = @ \cup {ckpt.index}]
<1>1. ckpt.next = "write" /\ Settle(new, IF Precharged THEN db ELSE s, run)
  BY DEF Write, At, Step
<1> HIDE DEF new
<1>2. CASE Precharged
  <2>1. db \in Tables /\ Stored(db, db.chapters, db.plan, db.paid, db.accepted)
    BY DEF LoopInv, Stored
  <2>2. LoopInv(new, db)
    BY <1>1, <1>2, <2>1, Written DEF new
  <2> QED BY <1>1, <1>2, <2>2, Updated
<1>3. CASE ~Precharged
  <2>1. /\ s \in Tables
        /\ Stored(s, db.chapters, db.plan, db.paid \cup {ckpt.index}, db.accepted)
        /\ LoopInv(ckpt, s)
    BY OneMorePaid
  <2> HIDE DEF s
  <2>2. Stored(s, db.chapters, db.plan, s.paid, db.accepted)
        /\ s.paid = db.paid \cup {ckpt.index}
    BY <2>1 DEF Stored
  <2>3. LoopInv(new, s)
    BY <1>1, <1>3, <2>1, <2>2, Written DEF new
  <2> QED BY <1>1, <1>3, <2>1, <2>3, Settled
<1> QED BY <1>2, <1>3

\* Compact keeps the invariant.
LEMMA CompactStep ==
    ASSUME LoopInv(ckpt, db), Compact
    PROVE  LoopInv(ckpt', db')
BY Compacted, Updated DEF Compact, At, Update, Step

\* Reflect keeps the invariant.
LEMMA ReflectStep ==
    ASSUME LoopInv(ckpt, db), Reflect
    PROVE  LoopInv(ckpt', db')
<1>1. ckpt.next = "reflect" /\ ckpt \in Checkpoints /\ db \in Tables
  BY DEF Reflect, At, LoopInv
<1>2. ASSUME Matches("reflection", Chapter),
             Settle([ckpt EXCEPT !.next = "reflect_review"], db, run)
      PROVE  LoopInv(ckpt', db')
  BY <1>1, <1>2, ReviewTakenUp, Updated
<1>3. ASSUME Settle([ckpt EXCEPT !.gate = Reviewed(TRUE), !.next = "persist"], db, run)
      PROVE  LoopInv(ckpt', db')
  BY <1>1, <1>3, ReviewPassed, Updated
<1>4. ASSUME Settle([ckpt EXCEPT !.gate = Reviewed(FALSE), !.next = "revise"], db, run)
      PROVE  LoopInv(ckpt', db')
  BY <1>1, <1>4, ReviewPassed, Updated
<1>5. ASSUME NEW ready \in BOOLEAN,
             Settle([ckpt EXCEPT !.next = "reflect_review",
                        !.pending = Proposal("reflection", Chapter, NoWindow, ready)], db, run)
      PROVE  LoopInv(ckpt', db')
  <2>1. IsNew(Proposal("reflection", Chapter, NoWindow, ready), "reflection", ckpt.index + 1)
    <3>1. "reflection" \in Kinds /\ ckpt.index + 1 \in Indexes
      BY <1>1, LoopAssumption DEF LoopInv, Placed, Checkpoints, Indexes, Kinds
    <3> QED BY <1>1, <3>1, FreshProposal, NoWindowIsTyped
  <2>2. LoopInv([ckpt EXCEPT !.next = "reflect_review",
                     !.pending = Proposal("reflection", Chapter, NoWindow, ready)], db)
    BY <1>1, <2>1, ReviewProposed
  <2> QED BY <1>5, <2>2, Updated
<1> QED BY <1>2, <1>3, <1>4, <1>5 DEF Reflect, Update, Step

\* ReflectReview keeps the invariant.
LEMMA ReflectReviewStep ==
    ASSUME LoopInv(ckpt, db), NEW mode,
           NEW decision \in {"accept", "regenerate", "replace", "retry", "revise"},
           ReflectReview(decision, mode)
    PROVE  LoopInv(ckpt', db')
<1>1. ckpt.next = "reflect_review"
  BY DEF ReflectReview, Reviews
<1>2. CASE decision = "accept"
  <2>1. Settle([Cleared(ckpt) EXCEPT !.next = "persist", !.gate = DecidedGate(TRUE)], db, mode)
    BY <1>2 DEF ReflectReview
  <2> QED BY <1>1, <2>1, DraftAccepted, Updated
<1>3. CASE decision = "regenerate"
  <2>1. Settle([Cleared(ckpt) EXCEPT !.next = "write"], db, mode)
    BY <1>3 DEF ReflectReview
  <2> QED BY <1>1, <2>1, DraftRejected, Updated
<1>4. CASE decision = "replace"
  <2>1. Settle([Redrafted(Cleared(ckpt)) EXCEPT !.next = "reflect"], db, mode)
    BY <1>4 DEF ReflectReview
  <2>2. LoopInv([Redrafted(Cleared(ckpt)) EXCEPT !.next = "reflect"], db)
    BY <1>1, DraftReplaced
  <2> QED BY <2>1, <2>2, Updated
<1>5. CASE decision = "retry"
  <2>1. Settle([Cleared(ckpt) EXCEPT !.next = "reflect"], db, mode)
    BY <1>5 DEF ReflectReview
  <2> QED BY <1>1, <2>1, ReviewRetried, Updated
<1>6. CASE decision = "revise"
  <2>1. Settle([Cleared(ckpt) EXCEPT !.next = "revise", !.gate = DecidedGate(FALSE)], db, mode)
    BY <1>6 DEF ReflectReview
  <2> QED BY <1>1, <2>1, RevisionAsked, Updated
<1> QED BY <1>2, <1>3, <1>4, <1>5, <1>6

\* Revise keeps the invariant.
LEMMA ReviseStep ==
    ASSUME LoopInv(ckpt, db), Revise
    PROVE  LoopInv(ckpt', db')
<1>1. ckpt.next = "revise" /\ ckpt \in Checkpoints /\ db \in Tables
  BY DEF Revise, At, LoopInv
<1>2. CASE Matches("revision", Chapter)
  <2>1. [ckpt EXCEPT !.next = "revise_review", !.pending = ckpt.pending]
          = [ckpt EXCEPT !.next = "revise_review"]
    BY <1>1 DEF Checkpoints
  <2>2. Settle([ckpt EXCEPT !.next = "revise_review"], db, run)
    BY <1>2, <2>1 DEF Revise, Update, Step
  <2> QED BY <1>1, <1>2, <2>2, RevisionTakenUp, Updated
<1>3. CASE ~Matches("revision", Chapter)
  <2> DEFINE p == Proposal("revision", Chapter, NoWindow, TRUE)
  <2>1. Settle([ckpt EXCEPT !.next = "revise_review", !.pending = p], db, run)
    BY <1>3 DEF Revise, Update, Step
  <2>2. IsNew(p, "revision", ckpt.index + 1)
    <3>1. "revision" \in Kinds /\ ckpt.index + 1 \in Indexes
      BY <1>1, LoopAssumption DEF LoopInv, Placed, Checkpoints, Indexes, Kinds
    <3> QED BY <1>1, <3>1, FreshProposal, NoWindowIsTyped
  <2> HIDE DEF p
  <2>3. LoopInv([ckpt EXCEPT !.next = "revise_review", !.pending = p], db)
    BY <1>1, <2>2, RevisionProposed
  <2> QED BY <2>1, <2>3, Updated
<1> QED BY <1>2, <1>3

\* ReviseReview keeps the invariant.
LEMMA ReviseReviewStep ==
    ASSUME LoopInv(ckpt, db), NEW mode \in {"auto", "manual"},
           NEW decision \in {"accept", "regenerate", "replace", "revise"},
           ReviseReview(decision, mode)
    PROVE  LoopInv(ckpt', db')
<1> DEFINE revised == Counted(Redrafted(Cleared(ckpt)))
<1>1. ckpt.next = "revise_review"
  BY DEF ReviseReview, Reviews
<1>2. CASE decision \in {"accept", "replace"} /\ mode = "auto"
  <2>1. Settle([revised EXCEPT !.next = "reflect"], db, mode)
    BY <1>2 DEF ReviseReview
  <2> QED BY <1>1, <2>1, RevisionAccepted, Updated
<1>3. CASE decision \in {"accept", "replace"} /\ mode = "manual"
  <2>1. Settle([revised EXCEPT !.next = "persist", !.gate.taken = FALSE], db, mode)
    BY <1>3 DEF ReviseReview
  <2> QED BY <1>1, <2>1, RevisionTaken, Updated
<1>4. CASE decision = "regenerate"
  <2>1. Settle([Cleared(ckpt) EXCEPT !.next = "revise"], db, mode)
    BY <1>4 DEF ReviseReview
  <2> QED BY <1>1, <2>1, RevisionAgain, Updated
<1>5. CASE decision = "revise"
  <2>1. Settle([Redrafted(Cleared(ckpt)) EXCEPT !.next = "revise"], db, mode)
    BY <1>5 DEF ReviseReview
  <2>2. LoopInv([Redrafted(Cleared(ckpt)) EXCEPT !.next = "revise"], db)
    BY <1>1, DraftRewritten
  <2> QED BY <2>1, <2>2, Updated
<1> QED BY <1>2, <1>3, <1>4, <1>5

-----------------------------------------------------------------------------
(* The actions that keep the chapter and hold it against the plan *)

\* PersistSetup keeps the invariant.
LEMMA PersistSetupStep ==
    ASSUME LoopInv(ckpt, db), PersistSetup
    PROVE  LoopInv(ckpt', db')
BY NothingToKeep, Updated DEF PersistSetup, At, Update, Step

\* Rows are rows, whatever is added or dropped.
LEMMA RowsStayRows ==
    ASSUME NEW rows \in Executions, NEW chapter \in Indexes
    PROVE  /\ Without(rows, chapter) \in Executions
           /\ Upto(rows, chapter) \in Executions
           /\ \A about \in Indexes : chapter # 0 =>
                [c \in DOMAIN rows \cup {chapter} |-> IF c = chapter THEN about ELSE rows[c]]
                  \in Executions
<1>1. PICK S \in SUBSET (1 .. Total) : rows \in [S -> Indexes]
  BY DEF Executions
<1>2. \A T \in SUBSET (1 .. Total) : \A f \in [T -> Indexes] : f \in Executions
  BY DEF Executions
<1>3. Without(rows, chapter) \in [S \ {chapter} -> Indexes]
  BY <1>1 DEF Without
<1>4. Upto(rows, chapter) \in [{d \in S : d <= chapter} -> Indexes]
  BY <1>1 DEF Upto
<1>5. ASSUME NEW about \in Indexes, chapter # 0
      PROVE  /\ [c \in DOMAIN rows \cup {chapter} |-> IF c = chapter THEN about ELSE rows[c]]
                  \in [S \cup {chapter} -> Indexes]
             /\ S \cup {chapter} \in SUBSET (1 .. Total)
  BY <1>1, <1>5, LoopAssumption DEF Indexes
<1> QED BY <1>1, <1>2, <1>3, <1>4, <1>5

\* PersistChapter keeps the invariant.
LEMMA PersistChapterStep ==
    ASSUME LoopInv(ckpt, db), PersistChapter
    PROVE  LoopInv(ckpt', db')
<1> DEFINE next == IF Planned(ckpt) THEN "reconcile" ELSE "progress"
           new == [ckpt EXCEPT !.index = @ + 1, !.text = FALSE, !.memory = Unset, !.next = next]
           s == [db EXCEPT !.chapters = Chapter,
                           !.executions = Without(@, Chapter),
                           !.status = IF ckpt.plan > 0 THEN "accepted" ELSE @]
<1>1. /\ ckpt.next = "persist" /\ ckpt.text /\ Settle(new, s, run)
      /\ ckpt \in Checkpoints /\ db \in Tables
  BY DEF PersistChapter, At, Step, LoopInv
<1>2. ckpt.index + 1 \in Indexes /\ ckpt.index \in Nat
  BY <1>1, LoopAssumption DEF LoopInv, Placed, Checkpoints, Indexes
<1>3. s \in Tables
  <2>1. Without(db.executions, Chapter) \in Executions
    BY <1>1, <1>2, RowsStayRows DEF Tables
  <2>2. (IF ckpt.plan > 0 THEN "accepted" ELSE db.status)
          \in {"none", "accepted", "needs_reconciliation", "needs_review"}
    BY <1>1 DEF Tables
  <2> QED BY <1>1, <1>2, <2>1, <2>2 DEF Tables
<1>4. Stored(s, ckpt.index + 1, db.plan, db.paid, db.accepted)
  BY <1>1 DEF Stored, Tables
<1>5. LoopInv(new, s)
  <2>1. next \in {"reconcile", "progress"} /\ (next = "reconcile" <=> Planned(ckpt))
    OBVIOUS
  <2> HIDE DEF next, s
  <2> QED BY <1>1, <1>3, <1>4, <2>1, ChapterKept
<1>6. LoopInv(ckpt, s)
  <2>1. /\ s.chapters = ckpt.index + 1 /\ s.plan = db.plan
        /\ s.paid = db.paid /\ s.accepted = db.accepted
    BY <1>4 DEF Stored
  <2>2. db.plan \in Nat
    BY <1>1 DEF Tables
  <2>3. ckpt.pending.kind # "novel_plan"
    BY <1>1 DEF LoopInv, Proposed
  <2> HIDE DEF s
  <2> QED BY <1>1, <1>3, <2>1, <2>2, <2>3, StoreKept
<1> QED BY <1>1, <1>5, <1>6, Settled

\* The rows of a reconciled chapter, and the shift of a minor drift.
LEMMA ReconciliationStored ==
    ASSUME LoopInv(ckpt, db), ckpt.next = "reconcile",
           NEW severity \in {"none", "minor", "major"}
    PROVE  LET kept == WithExecution(Fulfilment, severity)
               bumped == [kept EXCEPT !.plan = @ + 1, !.status = "accepted"]
           IN  /\ kept \in Tables
               /\ Stored(kept, db.chapters, db.plan, db.paid, db.accepted)
               /\ LoopInv(ckpt, kept)
               /\ bumped \in Tables
               /\ Stored(bumped, db.chapters, db.plan + 1, db.paid, db.accepted)
               /\ LoopInv(ckpt, bumped)
<1> DEFINE rows == [c \in DOMAIN db.executions \cup {ckpt.index} |->
                       IF c = ckpt.index THEN ckpt.gate.about ELSE db.executions[c]]
           status == CASE severity = "none" -> "accepted"
                       [] severity = "minor" -> "needs_reconciliation"
                       [] severity = "major" -> "needs_review"
           kept == [db EXCEPT !.executions = rows, !.status = status]
           bumped == [kept EXCEPT !.plan = @ + 1, !.status = "accepted"]
<1>1. WithExecution(Fulfilment, severity) = kept
  BY DEF WithExecution, Fulfilment
<1>2. /\ ckpt \in Checkpoints /\ db \in Tables
      /\ ckpt.index \in Indexes /\ ckpt.index # 0 /\ ckpt.pending.kind # "novel_plan"
  BY LoopAssumption DEF LoopInv, Placed, Proposed, Checkpoints, Indexes
<1>3. ckpt.gate.about \in Indexes
  BY <1>2 DEF Checkpoints, Gates
<1>4. rows \in Executions
  BY <1>2, <1>3, RowsStayRows DEF Tables
<1>5. status \in {"none", "accepted", "needs_reconciliation", "needs_review"}
  OBVIOUS
<1> HIDE DEF rows, status
<1>6. kept \in Tables /\ bumped \in Tables
  <2>1. kept \in Tables
    BY <1>2, <1>4, <1>5 DEF Tables
  <2> HIDE DEF kept
  <2>2. kept.plan + 1 \in Nat
    BY <2>1 DEF Tables
  <2> QED BY <2>1, <2>2 DEF Tables
<1>7. /\ kept.chapters = db.chapters /\ kept.plan = db.plan
      /\ kept.paid = db.paid /\ kept.accepted = db.accepted
      /\ bumped.chapters = db.chapters /\ bumped.plan = db.plan + 1
      /\ bumped.paid = db.paid /\ bumped.accepted = db.accepted
  BY <1>2 DEF Tables
<1>8. db.plan \in Nat
  BY <1>2 DEF Tables
<1> HIDE DEF kept, bumped
<1>9. LoopInv(ckpt, kept) /\ LoopInv(ckpt, bumped)
  BY <1>2, <1>6, <1>7, <1>8, StoreKept DEF LoopInv, Placed
<1> QED BY <1>1, <1>6, <1>7, <1>9 DEF Stored, bumped

\* Reconcile keeps the invariant.
LEMMA ReconcileStep ==
    ASSUME LoopInv(ckpt, db), Reconcile
    PROVE  LoopInv(ckpt', db')
<1> DEFINE kept(severity) == WithExecution(Fulfilment, severity)
           bumped == [kept("minor") EXCEPT !.plan = @ + 1, !.status = "accepted"]
           p == Proposal("novel_plan", 0, NoWindow, TRUE)
<1>1. ckpt.next = "reconcile" /\ ckpt \in Checkpoints /\ db \in Tables
  BY DEF Reconcile, At, LoopInv
<1>2. ASSUME NEW severity \in {"none", "minor", "major"}
      PROVE  /\ kept(severity) \in Tables
             /\ Stored(kept(severity), db.chapters, db.plan, db.paid, db.accepted)
             /\ LoopInv(ckpt, kept(severity))
  BY <1>1, ReconciliationStored
<1>3. /\ bumped \in Tables
      /\ Stored(bumped, db.chapters, db.plan + 1, db.paid, db.accepted)
      /\ LoopInv(ckpt, bumped)
  BY <1>1, ReconciliationStored
<1>4. IsNew(p, "novel_plan", 0)
  <2>1. "novel_plan" \in Kinds /\ 0 \in Indexes
    BY LoopAssumption DEF Kinds, Indexes
  <2> QED BY <1>1, <2>1, FreshProposal, NoWindowIsTyped
<1>5. \/ ckpt.plan = 0 /\ Settle([ckpt EXCEPT !.next = "plan"], db, run)
      \/ Fails /\ UNCHANGED db
      \/ \E severity \in {"none", "minor", "major"} :
            Settle([ckpt EXCEPT !.next = "progress"], kept(severity), run)
      \/ Settle([ckpt EXCEPT !.replan = TRUE, !.next = "plan"], kept("major"), run)
      \/ Settle([ckpt EXCEPT !.plan = @ + 1, !.next = "progress"], bumped, run)
      \/ Settle([ckpt EXCEPT !.gen = ManualDrift, !.next = "plan_review", !.pending = p],
                kept("minor"), run)
  <2> HIDE DEF kept, bumped, p
  <2> QED BY Zenon DEF Reconcile, Update, Step, Await, kept, bumped, p
<1> HIDE DEF kept, bumped, p
<1>6. ASSUME ckpt.plan = 0, Settle([ckpt EXCEPT !.next = "plan"], db, run)
      PROVE  LoopInv(ckpt', db')
  BY <1>1, <1>6, Unplanned, Updated
<1>7. ASSUME NEW severity \in {"none", "minor", "major"},
             Settle([ckpt EXCEPT !.next = "progress"], kept(severity), run)
      PROVE  LoopInv(ckpt', db')
  <2>1. LoopInv([ckpt EXCEPT !.next = "progress"], kept(severity))
    BY <1>1, <1>2, Fulfilled
  <2> QED BY <1>2, <1>7, <2>1, Settled
<1>8. ASSUME Settle([ckpt EXCEPT !.replan = TRUE, !.next = "plan"], kept("major"), run)
      PROVE  LoopInv(ckpt', db')
  <2>1. LoopInv([ckpt EXCEPT !.replan = TRUE, !.next = "plan"], kept("major"))
    BY <1>1, <1>2, Drifted
  <2> QED BY <1>2, <1>8, <2>1, Settled
<1>9. ASSUME Settle([ckpt EXCEPT !.plan = @ + 1, !.next = "progress"], bumped, run)
      PROVE  LoopInv(ckpt', db')
  <2>1. LoopInv([ckpt EXCEPT !.plan = @ + 1, !.next = "progress"], bumped)
    BY <1>1, <1>3, Shifted
  <2> QED BY <1>3, <1>9, <2>1, Settled
<1>10. ASSUME Settle([ckpt EXCEPT !.gen = ManualDrift, !.next = "plan_review", !.pending = p],
                     kept("minor"), run)
       PROVE  LoopInv(ckpt', db')
  <2>1. LoopInv([ckpt EXCEPT !.gen = ManualDrift, !.next = "plan_review", !.pending = p],
                kept("minor"))
    BY <1>1, <1>2, <1>4, DriftProposed
  <2> QED BY <1>2, <1>10, <2>1, Settled
<1>11. CASE Fails /\ UNCHANGED db
  BY <1>11 DEF Fails
<1> QED BY <1>5, <1>6, <1>7, <1>8, <1>9, <1>10, <1>11

\* ProgressCheck keeps the invariant.
LEMMA ProgressCheckStep ==
    ASSUME LoopInv(ckpt, db), NEW mode, ProgressCheck(mode)
    PROVE  LoopInv(ckpt', db')
<1>1. ckpt.next = "progress" /\ ckpt \in Checkpoints /\ db \in Tables
  BY DEF ProgressCheck, LoopInv
<1>2. ckpt.index = db.chapters
  BY <1>1 DEF LoopInv, Placed, Sequenced, Underway
<1>3. ~(db.chapters < ckpt.index)
  BY <1>1, <1>2, LoopAssumption DEF Checkpoints, Indexes
<1>4. [ckpt EXCEPT !.index = db.chapters] = ckpt
  BY <1>1, <1>2 DEF Checkpoints
<1>5. \/ db.chapters >= Total /\ ckpt' \in {ckpt, [ckpt EXCEPT !.next = "end"]} /\ UNCHANGED db
      \/ ~(db.chapters >= Total) /\ Settle(Continued(ckpt), db, mode)
      \/ Fails /\ UNCHANGED db
  BY <1>3, <1>4 DEF ProgressCheck
<1>6. CASE db.chapters >= Total /\ ckpt' \in {ckpt, [ckpt EXCEPT !.next = "end"]}
      /\ UNCHANGED db
  BY <1>1, <1>6, Completed
<1>7. CASE ~(db.chapters >= Total) /\ Settle(Continued(ckpt), db, mode)
  <2>1. db.chapters < Total
    BY <1>1, <1>7, LoopAssumption DEF Tables, Indexes
  <2> QED BY <1>1, <1>7, <2>1, Continues, Updated
<1>8. CASE Fails /\ UNCHANGED db
  BY <1>8 DEF Fails
<1> QED BY <1>5, <1>6, <1>7, <1>8

\* What an acceptance answers, and leaves in the tables.
LEMMA PlanStored ==
    ASSUME LoopInv(ckpt, db), ckpt.next = "plan_review",
           NEW answer, answer = AcceptPlan(ckpt.pending.id, ckpt.gen.expected), answer.ok
    PROVE  LET s == WithPlan(answer.version, ckpt.pending.id)
           IN  /\ answer.version \in Nat /\ answer.version >= ckpt.plan
               /\ s \in Tables /\ s.plan >= answer.version
               /\ Stored(s, db.chapters, s.plan, db.paid, s.accepted)
               /\ LoopInv(ckpt, s)
<1> DEFINE v == answer.version
           s == WithPlan(v, ckpt.pending.id)
<1>1. /\ ckpt \in Checkpoints /\ db \in Tables
      /\ ckpt.pending \in Proposals /\ ckpt.gen \in Generations
      /\ ckpt.plan \in Nat /\ db.plan \in Nat /\ ckpt.plan <= db.plan
      /\ ckpt.pending.kind = "novel_plan"
  BY DEF LoopInv, Checkpoints, Tables, Bound, Proposed
<1>2. ckpt.pending.id \in 0 .. 2 /\ ckpt.gen.expected \in Nat
  BY <1>1 DEF Proposals, Generations
<1>3. v = db.plan \/ v = db.plan + 1
  <2>1. CASE db.accepted.key = ckpt.pending.id
    BY <1>1, <2>1 DEF AcceptPlan, LoopInv, Bound
  <2>2. CASE db.accepted.key # ckpt.pending.id
    BY <1>1, <2>2 DEF AcceptPlan
  <2> QED BY <2>1, <2>2
<1>4. v \in Nat /\ v >= ckpt.plan
  BY <1>1, <1>3
<1> HIDE DEF v
<1>5. s \in Tables
  BY <1>1, <1>2, <1>4 DEF Tables, WithPlan
<1>6. /\ s.chapters = db.chapters /\ s.paid = db.paid
      /\ s.plan >= v /\ s.plan >= db.plan
      /\ \/ s = db
         \/ s.accepted.version = s.plan
  BY <1>1, <1>4 DEF Tables, WithPlan
<1> HIDE DEF s
<1>7. LoopInv(ckpt, s)
  BY <1>1, <1>5, <1>6, StoreKept DEF LoopInv, Placed, Bound
<1> QED BY <1>4, <1>5, <1>6, <1>7 DEF Stored, v, s

\* PlanReview keeps the invariant.
LEMMA PlanReviewStep ==
    ASSUME LoopInv(ckpt, db), NEW mode, NEW decision \in {"accept", "regenerate"},
           PlanReview(decision, mode)
    PROVE  LoopInv(ckpt', db')
<1> DEFINE answer == AcceptPlan(ckpt.pending.id, ckpt.gen.expected)
           next == IF ckpt.gen.mode = "initial" THEN "persist" ELSE "progress"
           s == WithPlan(answer.version, ckpt.pending.id)
           new == [Cleared(ckpt) EXCEPT !.next = next, !.plan = answer.version,
                                        !.gen = NoGeneration, !.replan = FALSE]
<1>1. ckpt.next = "plan_review"
  BY DEF PlanReview, Reviews
<1>2. CASE decision = "accept" /\ answer.ok
  <2>1. Settle(new, s, mode)
    BY <1>2 DEF PlanReview
  <2>2. /\ answer.version \in Nat /\ answer.version >= ckpt.plan
        /\ s \in Tables /\ s.plan >= answer.version
        /\ Stored(s, db.chapters, s.plan, db.paid, s.accepted)
        /\ LoopInv(ckpt, s)
    BY <1>1, <1>2, PlanStored
  <2>3. next \in {"persist", "progress"}
    OBVIOUS
  <2>4. LoopInv(new, s)
    <3> HIDE DEF answer, next, s
    <3> QED BY <1>1, <2>2, <2>3, PlanAccepted
  <2> QED BY <2>1, <2>2, <2>4, Settled
<1>3. CASE decision = "accept" /\ ~answer.ok
  BY <1>3 DEF PlanReview, Fails
<1>4. CASE decision = "regenerate"
  <2>1. Settle([Cleared(ckpt) EXCEPT !.next = "plan", !.gen = NoGeneration], db, mode)
    BY <1>4 DEF PlanReview
  <2> QED BY <1>1, <2>1, PlanAgain, Updated
<1> QED BY <1>2, <1>3, <1>4

-----------------------------------------------------------------------------
(* The commands and the changes of the chapters *)

\* A fresh start between two chapters: what it seeds and where it leads.
LEMMA SeededIsKept ==
    ASSUME LoopInv(ckpt, db), BetweenChapters, NEW schema \in {4, 5},
           schema >= ckpt.schema, NEW replan \in BOOLEAN,
           ckpt.replan => replan, replan => schema = 5,
           NEW c, c = [Seeded(ckpt, schema) EXCEPT !.replan = replan],
           Starts(c)
    PROVE  LoopInv(ckpt', db')
<1> DEFINE u == db.status \in {"needs_reconciliation", "needs_review"}
           next == IF schema = 5 /\ (db.plan = 0 \/ replan) THEN "plan" ELSE "persist"
           new == [ckpt EXCEPT !.schema = schema, !.index = db.chapters, !.unreconciled = u,
                               !.plan = db.plan, !.replan = replan, !.next = next]
<1>1. /\ ckpt \in Checkpoints /\ db \in Tables
      /\ ckpt.plan \in Nat /\ db.plan \in Nat /\ ckpt.plan <= db.plan
      /\ db.chapters \in Indexes
  BY DEF LoopInv, Checkpoints, Tables, Bound
<1>2. (IF db.plan > 0 THEN db.plan ELSE ckpt.plan) = db.plan
  BY <1>1
<1>3. u \in BOOLEAN /\ next \in {"plan", "persist"}
  OBVIOUS
<1>4. c = [ckpt EXCEPT !.schema = schema, !.index = db.chapters, !.unreconciled = u,
                       !.plan = db.plan, !.replan = replan]
  <2> HIDE DEF u
  <2> QED BY <1>1, <1>2 DEF Seeded, Checkpoints, u
<1>5. ReuseOutline(c) = new
  <2> HIDE DEF u
  <2>1. c.schema = schema /\ c.plan = db.plan /\ c.replan = replan
    BY <1>1, <1>4 DEF Checkpoints
  <2> QED BY <1>1, <1>4, <2>1 DEF ReuseOutline, Checkpoints
<1>6. Seeding(schema, replan, next)
  BY DEF Seeding
<1>7. LoopInv(new, db)
  <2> HIDE DEF u, next
  <2> QED BY <1>1, <1>3, <1>6, Seeds
<1> QED BY <1>5, <1>7 DEF Starts

\* Start keeps the invariant.
LEMMA StartStep ==
    ASSUME LoopInv(ckpt, db), Start, ~MidChapterRestarts
    PROVE  LoopInv(ckpt', db')
<1>1. BetweenChapters
  BY DEF Start, MayStart
<1>2. PICK schema \in ckpt.schema .. 5 : Starts(Seeded(ckpt, schema))
  BY DEF Start
<1> DEFINE replan == ckpt.replan \/ (schema = 5 /\ db.plan > 0 /\ db.status = "needs_review")
<1>3. ckpt \in Checkpoints /\ ckpt.schema \in {4, 5} /\ ckpt.replan \in BOOLEAN
  BY DEF LoopInv, Checkpoints
<1>4. schema \in {4, 5} /\ schema >= ckpt.schema
  BY <1>2, <1>3
<1>5. replan \in BOOLEAN /\ (ckpt.replan => replan)
  OBVIOUS
<1>6. replan => schema = 5
  BY <1>3, <1>4 DEF LoopInv, Sequenced
<1>7. Seeded(ckpt, schema) = [Seeded(ckpt, schema) EXCEPT !.replan = replan]
  BY <1>3 DEF Seeded, Checkpoints
<1> HIDE DEF replan
<1> QED BY <1>1, <1>2, <1>4, <1>5, <1>6, <1>7, SeededIsKept

\* Replan keeps the invariant.
LEMMA ReplanStep ==
    ASSUME LoopInv(ckpt, db), Replan, ~MidChapterRestarts
    PROVE  LoopInv(ckpt', db')
<1>1. BetweenChapters /\ Starts([Seeded(ckpt, 5) EXCEPT !.replan = TRUE])
  BY DEF Replan, MayStart
<1>2. ckpt.schema \in {4, 5}
  BY DEF LoopInv, Checkpoints
<1>3. 5 >= ckpt.schema
  BY <1>2
<1> QED BY <1>1, <1>3, SeededIsKept

\* Retry keeps the invariant.
LEMMA RetryStep ==
    ASSUME LoopInv(ckpt, db), Retry
    PROVE  LoopInv(ckpt', db')
<1>1. ckpt \in Checkpoints
  BY DEF LoopInv
<1>2. PICK next \in {ckpt.next} \cup (IF ckpt.text THEN {Route(ckpt)} ELSE {}) :
         ckpt' = [ckpt EXCEPT !.next = next]
  BY DEF Retry
<1>3. CASE next = ckpt.next
  <2>1. ckpt' = ckpt
    BY <1>1, <1>2, <1>3 DEF Checkpoints
  <2> QED BY <2>1 DEF Retry
<1>4. CASE ckpt.text /\ next = Route(ckpt)
  BY <1>2, <1>4, RoutedOn DEF Retry
<1> QED BY <1>2, <1>3, <1>4

\* The checkpoint of a book whose chapters end at index.
LEMMA RewoundIsKept ==
    ASSUME LoopInv(ckpt, db), NEW index \in Indexes, NEW s \in Tables,
           Stored(s, index, db.plan, db.paid, db.accepted)
    PROVE  LoopInv(Rewound(index), s)
<1> DEFINE o == IF ckpt.outline.chapter <= index THEN ckpt.outline ELSE NoOutline
           next == IF index >= Total THEN "end" ELSE "router"
           new == [ckpt EXCEPT !.pending = NoProposal, !.text = FALSE, !.checked = FALSE,
                      !.memory = Unset, !.memFor = Unset, !.outline = o,
                      !.window = NoWindow, !.expected = 0, !.unreconciled = TRUE,
                      !.index = index, !.attempts = 0, !.next = next]
<1>1. /\ ckpt \in Checkpoints /\ ckpt.outline \in Outlines
      /\ ckpt.outline.plan <= ckpt.plan /\ ckpt.plan \in Nat /\ index \in Nat
  BY LoopAssumption DEF LoopInv, Checkpoints, Bound, Indexes
<1>2. Rewound(index) = new
  BY <1>1, ZenonT(60) DEF Rewound, Cleared, RewindCleanup, Checkpoints
<1>3. o \in Outlines /\ next \in {"end", "router"}
  BY <1>1, NothingIsTyped
<1>4. Rewinding(index, next, o)
  <2>1. next = "router" => index < Total
    BY <1>1, LoopAssumption
  <2>2. o.chapter <= index /\ o.plan <= ckpt.plan
    BY <1>1 DEF NoOutline
  <2> HIDE DEF o, next
  <2> QED BY <2>1, <2>2 DEF Rewinding
<1>5. LoopInv(new, s)
  <2> HIDE DEF o, next
  <2> QED BY <1>3, <1>4, Rewinds
<1> QED BY <1>2, <1>5

\* DeleteFrom keeps the invariant.
LEMMA DeleteFromStep ==
    ASSUME LoopInv(ckpt, db), NEW index \in 0 .. Total - 1, DeleteFrom(index)
    PROVE  LoopInv(ckpt', db')
<1>1. db \in Tables /\ index \in Indexes
  BY LoopAssumption DEF LoopInv, Indexes
<1>2. Upto(db.executions, index) \in Executions
  BY <1>1, RowsStayRows DEF Tables
<1>3. db' \in Tables /\ Stored(db', index, db.plan, db.paid, db.accepted)
  <2> DEFINE rows == Upto(db.executions, index)
             status == IF db.plan > 0 THEN "needs_reconciliation" ELSE db.status
  <2>1. db' = [db EXCEPT !.chapters = index, !.executions = rows, !.status = status]
    BY <1>1 DEF DeleteFrom, NeedsReconciliation, Tables
  <2>2. status \in {"none", "accepted", "needs_reconciliation", "needs_review"}
    BY <1>1 DEF Tables
  <2> HIDE DEF rows, status
  <2> QED BY <1>1, <1>2, <2>1, <2>2 DEF Tables, Stored, rows
<1> QED BY <1>1, <1>3, RewoundIsKept DEF DeleteFrom

\* Edit keeps the invariant.
LEMMA EditStep ==
    ASSUME LoopInv(ckpt, db), NEW chapter \in 1 .. Total, Edit(chapter)
    PROVE  LoopInv(ckpt', db')
<1>1. db \in Tables /\ chapter \in Indexes /\ db.chapters \in Indexes
  BY LoopAssumption DEF LoopInv, Indexes, Tables
<1>2. Without(db.executions, chapter) \in Executions
  BY <1>1, RowsStayRows DEF Tables
<1>3. db' \in Tables /\ Stored(db', db.chapters, db.plan, db.paid, db.accepted)
  <2> DEFINE rows == Without(db.executions, chapter)
             status == IF db.plan > 0 THEN "needs_reconciliation" ELSE db.status
  <2>1. db' = [db EXCEPT !.executions = rows, !.status = status]
    BY <1>1 DEF Edit, NeedsReconciliation, Tables
  <2>2. status \in {"none", "accepted", "needs_reconciliation", "needs_review"}
    BY <1>1 DEF Tables
  <2> HIDE DEF rows, status
  <2> QED BY <1>1, <1>2, <2>1, <2>2 DEF Tables, Stored, rows
<1> QED BY <1>1, <1>3, RewoundIsKept DEF Edit

-----------------------------------------------------------------------------
(* The invariant *)

\* The invariant holds at the start, ...
LEMMA LoopInvInit == Init => LoopInv(ckpt, db)
<1> SUFFICES ASSUME Init PROVE LoopInv(ckpt, db)
  OBVIOUS
<1>1. /\ 0 \in Indexes /\ 0 \in 0 .. MaxRevisions
      /\ NoOutline \in Outlines /\ NoGate \in Gates /\ NoProposal \in Proposals
      /\ NoGeneration \in Generations /\ NoWindow \in Windows
  BY NothingIsTyped, NoWindowIsTyped, LoopAssumption DEF Indexes
<1>2. ckpt \in Checkpoints
  BY <1>1 DEF Init, Checkpoints
<1>3. <<>> \in Executions
  <2>1. <<>> \in [{} -> Indexes]
    OBVIOUS
  <2> QED BY <2>1 DEF Executions
<1>4. db \in Tables
  BY <1>1, <1>3 DEF Init, Tables
<1>5. Placed(ckpt, db) /\ Sequenced(ckpt) /\ Remembers(ckpt) /\ Charged(ckpt, db)
  BY LoopAssumption DEF Init, Placed, Sequenced, Remembers, Charged, Underway, Accepted
<1>6. Proposed(ckpt) /\ Bound(ckpt, db) /\ Judged(ckpt) /\ Batched(ckpt)
  BY DEF Init, Proposed, Bound, Judged, Batched, OfTheDraft, Outdated, NoProposal,
         NoOutline, NoGeneration
<1> QED BY <1>2, <1>4, <1>5, <1>6 DEF LoopInv

\* ... and every step keeps it.
LEMMA LoopInvStep ==
    ASSUME LoopInv(ckpt, db), [Next]_vars, ~MidChapterRestarts
    PROVE  LoopInv(ckpt', db')
<1>1. CASE PlanInitialize \/ PlanVolume \/ PlanFinalize
  BY <1>1, PlanInitializeStep, PlanVolumeStep, PlanFinalizeStep
<1>2. CASE Router \/ RetrieveMemory \/ ReserveQuota \/ PlanTactics \/ OutlineChapter
  BY <1>2, RouterStep, RetrieveMemoryStep, ReserveQuotaStep, PlanTacticsStep,
     OutlineChapterStep
<1>3. CASE Write \/ Compact \/ Reflect \/ Revise
  BY <1>3, WriteStep, CompactStep, ReflectStep, ReviseStep
<1>4. CASE PersistSetup \/ PersistChapter \/ Reconcile
  BY <1>4, PersistSetupStep, PersistChapterStep, ReconcileStep
<1>5. ASSUME NEW node, NEW forced, AwaitsReview(node, forced)
      PROVE  LoopInv(ckpt', db')
  BY <1>5 DEF AwaitsReview, Await, Fails
<1>6. ASSUME NEW mode \in {"auto", "manual"},
             \/ ProgressCheck(mode)
             \/ \E decision \in {"accept", "regenerate"} : PlanReview(decision, mode)
             \/ \E decision \in {"accept", "regenerate_outline", "regenerate_tactics"} :
                   ChapterPlanReview(decision, mode)
             \/ \E decision \in {"accept", "regenerate_outline"} :
                   OutlineReview(decision, mode)
             \/ \E decision \in {"accept", "regenerate", "replace", "retry", "revise"} :
                   ReflectReview(decision, mode)
             \/ \E decision \in {"accept", "regenerate", "replace", "revise"} :
                   ReviseReview(decision, mode)
      PROVE  LoopInv(ckpt', db')
  BY <1>6, ProgressCheckStep, PlanReviewStep, ChapterPlanReviewStep, OutlineReviewStep,
     ReflectReviewStep, ReviseReviewStep
<1>7. CASE Graph
  BY <1>1, <1>2, <1>3, <1>4, <1>5, <1>6, <1>7, Zenon DEF Graph
<1>8. CASE Commands
  BY <1>8, StartStep, ReplanStep, RetryStep DEF Commands
<1>9. CASE Changes
  BY <1>9, DeleteFromStep, EditStep DEF Changes
<1>10. CASE UNCHANGED vars
  BY <1>10 DEF vars
<1> QED BY <1>7, <1>8, <1>9, <1>10 DEF Next

-----------------------------------------------------------------------------
(* The outline and the plan and window it was made for *)

\* The outline of the checkpoint is that of the chapter it is at, in its plan.
Linked(c) == c.outline.chapter = c.index + 1 /\ c.outline.plan = c.plan /\ c.plan # 0

\* What follows from it: nothing was accepted since, and no node will make another.
InForce(c, d) ==
    Linked(c) =>
        /\ c.replan \/ c.plan = d.plan
        /\ c.outline.window = d.window.version
        /\ c.window = d.window
        /\ WindowActive(c)
        /\ c.next \notin {"tactical", "outline", "outline_review", "chapter_plan_review"}

\* Where it is relied on, and what is there before it is made.
Prepared(c) ==
    Planned(c) =>
        /\ c.text \/ c.next = "write" => Linked(c)
        /\ c.next \in {"outline", "chapter_plan_review"} => WindowActive(c)

\* A window that is proposed was active when it was, and is the latest of the
\* tables if they accepted it.
WindowPending(c, d) ==
    c.pending.kind = "chapter_plan" =>
        /\ c.pending.window.plan # 0 /\ c.pending.window.plan <= c.plan
        /\ c.pending.window.version # 0
        /\ c.pending.window.start = c.pending.chapter
        /\ c.pending.id = d.accepted.key =>
              /\ d.accepted.version # 0
              /\ d.window = [c.pending.window EXCEPT !.version = d.accepted.version]

\* A plan the tables accepted left the outline of the checkpoint behind.
PlanPending(c, d) ==
    c.pending.kind = "novel_plan" /\ c.pending.id = d.accepted.key =>
        c.outline.chapter <= c.index \/ c.outline.plan < d.plan

Tied(c, d) ==
    InForce(c, d) /\ Prepared(c) /\ WindowPending(c, d) /\ PlanPending(c, d)

\* It holds at the start: there is no outline and no proposal.
LEMMA TiedInit == Init => Tied(ckpt, db)
BY DEF Init, Tied, InForce, Prepared, WindowPending, PlanPending, Linked, NoProposal

\* A node that settles keeps it if its update and its tables have it.
LEMMA TiedSettled ==
    ASSUME NEW new, NEW store, NEW mode, Settle(new, store, mode),
           Tied(ckpt, db), Tied(new, store), Tied(ckpt, store)
    PROVE  Tied(ckpt', db')
BY Zenon DEF Settle, Fails

\* The tables with the plan, the window and the acceptance they had.
SameBooks(s) == s.plan = db.plan /\ s.window = db.window /\ s.accepted = db.accepted

\* A proposal that stays what it was, but for the draft it may be about.
SamePending(p) ==
    /\ p.kind = ckpt.pending.kind /\ p.id = ckpt.pending.id
    /\ p.window = ckpt.pending.window /\ p.chapter = ckpt.pending.chapter

\* An update that touches neither the outline nor what it was made for.
Aside(new) ==
    /\ new.outline = ckpt.outline /\ new.plan = ckpt.plan /\ new.index = ckpt.index
    /\ new.window = ckpt.window /\ new.schema = ckpt.schema
    /\ ckpt.replan => new.replan
    /\ new.text => ckpt.text \/ ckpt.next = "write"
    /\ new.next = "write" => ckpt.text
    /\ new.next \notin {"tactical", "outline", "outline_review", "chapter_plan_review"}
    /\ \/ SamePending(new.pending)
       \/ new.pending.kind \notin {"chapter_plan", "novel_plan"}
       \/ new.pending.kind = "novel_plan" /\ new.pending.id # db.accepted.key

\* The tables as they were, with a checkpoint that differs aside, or not at all.
LEMMA TiedAside ==
    ASSUME Tied(ckpt, db), NEW new, NEW s, SameBooks(s), Aside(new)
    PROVE  Tied(new, s)
<1>1. InForce(new, s)
  BY DEF Tied, InForce, Linked, WindowActive, Aside, SameBooks
<1>2. Prepared(new)
  BY DEF Tied, Prepared, Linked, WindowActive, Aside
<1>3. WindowPending(new, s) /\ PlanPending(new, s)
  BY DEF Tied, WindowPending, PlanPending, Aside, SameBooks, SamePending
<1> QED BY <1>1, <1>2, <1>3 DEF Tied

\* The tables as they were, with the checkpoint as it was.
LEMMA TiedBooks ==
    ASSUME Tied(ckpt, db), NEW s, SameBooks(s)
    PROVE  Tied(ckpt, s)
BY DEF Tied, InForce, Prepared, WindowPending, PlanPending, SameBooks

\* A node whose update and whose transaction are aside keeps it, ...
LEMMA TiedStepAside ==
    ASSUME Tied(ckpt, db), NEW new, NEW s, NEW mode, Settle(new, s, mode),
           SameBooks(s), Aside(new)
    PROVE  Tied(ckpt', db')
BY TiedAside, TiedBooks, TiedSettled

\* ... and so does one that leaves the tables alone.
LEMMA TiedUpdateAside ==
    ASSUME Tied(ckpt, db), NEW new, NEW mode, Settle(new, db, mode), Aside(new)
    PROVE  Tied(ckpt', db')
BY TiedStepAside DEF SameBooks

\* The nodes that make a plan keep it.
LEMMA TiedPlanning ==
    ASSUME LoopInv(ckpt, db), Tied(ckpt, db), PlanInitialize \/ PlanVolume \/ PlanFinalize
    PROVE  Tied(ckpt', db')
<1>1. ckpt \in Checkpoints /\ db \in Tables
  BY DEF LoopInv
<1>2. CASE PlanInitialize
  <2>1. Aside([ckpt EXCEPT !.next = "plan_review"])
    BY <1>1 DEF Aside, Checkpoints, SamePending
  <2>2. ASSUME NEW gen PROVE Aside([ckpt EXCEPT !.next = "volume", !.gen = gen])
    BY <1>1 DEF Aside, Checkpoints, SamePending
  <2> QED BY <1>2, <2>1, <2>2, TiedUpdateAside DEF PlanInitialize, Update, Step
<1>3. CASE PlanVolume
  <2>1. Aside([ckpt EXCEPT !.gen.left = 0, !.next = "finalize"])
    BY <1>1 DEF Aside, Checkpoints, SamePending
  <2> QED BY <1>3, <2>1, TiedUpdateAside DEF PlanVolume, Update, Step, Await, Fails
<1>4. CASE PlanFinalize
  <2> DEFINE p == Proposal("novel_plan", 0, NoWindow, TRUE)
  <2>1. p.kind = "novel_plan" /\ p.id # db.accepted.key
    BY <1>1, FreshIdIsFresh DEF Proposal
  <2>2. Aside([ckpt EXCEPT !.next = "plan_review", !.pending = p])
    <3> HIDE DEF p
    <3> QED BY <1>1, <2>1 DEF Aside, Checkpoints, SamePending
  <2>3. Aside([ckpt EXCEPT !.gen.left = 1, !.gen.restarts = @ + 1, !.next = "volume"])
    BY <1>1 DEF Aside, Checkpoints, SamePending
  <2> QED BY <1>4, <2>2, <2>3, TiedUpdateAside DEF PlanFinalize, Update, Step
<1> QED BY <1>2, <1>3, <1>4

\* The nodes before the tactics keep it.
LEMMA TiedBefore ==
    ASSUME LoopInv(ckpt, db), Tied(ckpt, db), RetrieveMemory \/ ReserveQuota
    PROVE  Tied(ckpt', db')
<1>1. ckpt \in Checkpoints /\ db \in Tables
  BY DEF LoopInv
<1>2. CASE RetrieveMemory
  <2>1. Aside([ckpt EXCEPT !.memory = ckpt.index, !.memFor = ckpt.index, !.next = "router"])
    BY <1>1 DEF Aside, Checkpoints, SamePending
  <2> QED BY <1>2, <2>1, TiedUpdateAside DEF RetrieveMemory, Update, Step
<1>3. CASE ReserveQuota
  <2>1. Aside([ckpt EXCEPT !.quotaFor = ckpt.index, !.next = "router"])
    BY <1>1 DEF Aside, Checkpoints, SamePending
  <2>2. SameBooks([db EXCEPT !.paid = @ \cup {ckpt.index}])
    BY <1>1 DEF SameBooks, Tables
  <2> QED BY <1>3, <2>1, <2>2, TiedStepAside DEF ReserveQuota, Step
<1> QED BY <1>2, <1>3

\* The nodes of the draft keep it.
LEMMA TiedDrafting ==
    ASSUME LoopInv(ckpt, db), Tied(ckpt, db), Write \/ Compact \/ Reflect \/ Revise
    PROVE  Tied(ckpt', db')
<1>1. ckpt \in Checkpoints /\ db \in Tables /\ ckpt.pending \in Proposals
  BY DEF LoopInv, Checkpoints
<1>2. CASE Write
  <2>1. Aside([Redrafted(ckpt) EXCEPT !.attempts = 0, !.checked = FALSE, !.next = "router"])
    BY <1>1, <1>2 DEF Aside, Checkpoints, Proposals, SamePending, Redrafted, Write, At
  <2>2. SameBooks([db EXCEPT !.paid = @ \cup {ckpt.index}]) /\ SameBooks(db)
    BY <1>1 DEF SameBooks, Tables
  <2> QED BY <1>2, <2>1, <2>2, TiedStepAside DEF Write, Step
<1>3. CASE Compact
  <2>1. ckpt.text
    BY <1>3 DEF LoopInv, Sequenced, Compact, At
  <2>2. Aside([Redrafted(ckpt) EXCEPT !.checked = TRUE, !.next = "router"])
    BY <1>1, <2>1 DEF Aside, Checkpoints, Proposals, SamePending, Redrafted
  <2> QED BY <1>3, <2>2, TiedUpdateAside DEF Compact, Update, Step
<1>4. CASE Reflect
  <2>1. Aside([ckpt EXCEPT !.next = "reflect_review"])
    BY <1>1 DEF Aside, Checkpoints, SamePending
  <2>2. ASSUME NEW gate, NEW next \in {"persist", "revise"}
        PROVE  Aside([ckpt EXCEPT !.gate = gate, !.next = next])
    BY <1>1 DEF Aside, Checkpoints, SamePending
  <2>3. ASSUME NEW ready
        PROVE  Aside([ckpt EXCEPT !.next = "reflect_review",
                         !.pending = Proposal("reflection", Chapter, NoWindow, ready)])
    BY <1>1 DEF Aside, Checkpoints, Proposal
  <2> QED BY <1>4, <2>1, <2>2, <2>3, TiedUpdateAside DEF Reflect, Update, Step
<1>5. CASE Revise
  <2> DEFINE p == IF Matches("revision", Chapter) THEN ckpt.pending
                  ELSE Proposal("revision", Chapter, NoWindow, TRUE)
  <2>1. SamePending(p) \/ p.kind = "revision"
    BY DEF SamePending, Proposal
  <2>2. Aside([ckpt EXCEPT !.next = "revise_review", !.pending = p])
    <3> HIDE DEF p
    <3> QED BY <1>1, <2>1 DEF Aside, Checkpoints
  <2> QED BY <1>5, <2>2, TiedUpdateAside DEF Revise, Update, Step
<1> QED BY <1>2, <1>3, <1>4, <1>5

\* The decisions on a draft keep it.
LEMMA TiedDecided ==
    ASSUME LoopInv(ckpt, db), Tied(ckpt, db), NEW mode \in {"auto", "manual"},
           \/ \E decision \in {"accept", "regenerate", "replace", "retry", "revise"} :
                 ReflectReview(decision, mode)
           \/ \E decision \in {"accept", "regenerate", "replace", "revise"} :
                 ReviseReview(decision, mode)
    PROVE  Tied(ckpt', db')
<1>1. ckpt \in Checkpoints
  BY DEF LoopInv
<1>2. ckpt.text
  BY DEF LoopInv, Sequenced, ReflectReview, ReviseReview, Reviews
<1>3. NoProposal.kind = "none"
  BY DEF NoProposal
<1>4. ASSUME NEW next \in {"persist", "write", "reflect", "revise"}, NEW gate
      PROVE  /\ Aside([Cleared(ckpt) EXCEPT !.next = next])
             /\ Aside([Cleared(ckpt) EXCEPT !.next = next, !.gate = gate])
  BY <1>1, <1>2, <1>3 DEF Aside, Checkpoints, Cleared
<1>5. ASSUME NEW next \in {"persist", "reflect", "revise"}
      PROVE  /\ Aside([Redrafted(Cleared(ckpt)) EXCEPT !.next = next])
             /\ Aside([Counted(Redrafted(Cleared(ckpt))) EXCEPT !.next = next])
             /\ Aside([Counted(Redrafted(Cleared(ckpt))) EXCEPT !.next = next,
                                                                !.gate.taken = FALSE])
  <2> DEFINE p == [NoProposal EXCEPT !.current = FALSE]
             drafted == [ckpt EXCEPT !.pending = p, !.text = TRUE, !.gate.current = FALSE]
             counted == [drafted EXCEPT !.attempts = IF @ < MaxRevisions THEN @ + 1 ELSE @]
  <2>1. p.kind = "none"
    BY DEF NoProposal
  <2>2. Redrafted(Cleared(ckpt)) = drafted
    BY <1>1 DEF Redrafted, Cleared, Checkpoints
  <2>3. Counted(Redrafted(Cleared(ckpt))) = counted
    BY <2>2 DEF Counted
  <2> HIDE DEF p
  <2>4. /\ Aside([drafted EXCEPT !.next = next])
        /\ Aside([counted EXCEPT !.next = next])
        /\ Aside([counted EXCEPT !.next = next, !.gate.taken = FALSE])
    BY <1>1, <1>2, <2>1 DEF Aside, Checkpoints
  <2> QED BY <2>2, <2>3, <2>4
<1>6. ASSUME NEW decision \in {"accept", "regenerate", "replace", "retry", "revise"},
             ReflectReview(decision, mode)
      PROVE  \/ \E next \in {"persist", "revise"} : \E gate :
                   Settle([Cleared(ckpt) EXCEPT !.next = next, !.gate = gate], db, mode)
             \/ \E next \in {"write", "reflect"} :
                   Settle([Cleared(ckpt) EXCEPT !.next = next], db, mode)
             \/ Settle([Redrafted(Cleared(ckpt)) EXCEPT !.next = "reflect"], db, mode)
  BY <1>6 DEF ReflectReview
<1>7. ASSUME NEW decision \in {"accept", "regenerate", "replace", "revise"},
             ReviseReview(decision, mode)
      PROVE  Tied(ckpt', db')
  BY <1>4, <1>5, <1>7, TiedUpdateAside DEF ReviseReview
<1>8. ASSUME NEW decision \in {"accept", "regenerate", "replace", "retry", "revise"},
             ReflectReview(decision, mode)
      PROVE  Tied(ckpt', db')
  BY <1>4, <1>5, <1>6, <1>8, TiedUpdateAside
<1> QED BY <1>7, <1>8

\* The nodes that keep a chapter keep it: its outline is not that of the next.
LEMMA TiedKept ==
    ASSUME LoopInv(ckpt, db), Tied(ckpt, db), PersistSetup \/ PersistChapter
    PROVE  Tied(ckpt', db')
<1>1. /\ ckpt \in Checkpoints /\ db \in Tables
      /\ ckpt.index \in Nat /\ ckpt.outline.chapter \in Nat
  BY LoopAssumption DEF LoopInv, Checkpoints, Outlines, Indexes
<1>2. CASE PersistSetup
  <2>1. Aside([ckpt EXCEPT !.next = "progress"])
    BY <1>1 DEF Aside, Checkpoints, SamePending
  <2> QED BY <1>2, <2>1, TiedUpdateAside DEF PersistSetup, Update, Step
<1>3. CASE PersistChapter
  <2> DEFINE next == IF Planned(ckpt) THEN "reconcile" ELSE "progress"
             new == [ckpt EXCEPT !.index = @ + 1, !.text = FALSE, !.memory = Unset,
                                 !.next = next]
             s == [db EXCEPT !.chapters = Chapter,
                             !.executions = Without(@, Chapter),
                             !.status = IF ckpt.plan > 0 THEN "accepted" ELSE @]
  <2>1. Settle(new, s, run)
    BY <1>3 DEF PersistChapter, Step
  <2>2. SameBooks(s)
    BY <1>1 DEF SameBooks, Tables
  <2>3. /\ new.index = ckpt.index + 1 /\ new.outline = ckpt.outline
        /\ new.plan = ckpt.plan /\ new.pending = ckpt.pending
        /\ ~new.text /\ new.next \in {"reconcile", "progress"}
    BY <1>1 DEF Checkpoints
  <2> HIDE DEF new, s
  <2>4. ckpt.outline.chapter <= ckpt.index + 1 /\ ckpt.pending.kind # "novel_plan"
    BY <1>3 DEF LoopInv, Bound, Proposed, PersistChapter
  <2>5. ~Linked(new)
    BY <1>1, <2>3, <2>4 DEF Linked
  <2>6. Tied(new, s)
    BY <2>2, <2>3, <2>4, <2>5
    DEF Tied, InForce, Prepared, WindowPending, PlanPending, SameBooks
  <2> QED BY <2>1, <2>2, <2>6, TiedBooks, TiedSettled
<1> QED BY <1>2, <1>3

\* The end of a chapter and of the book keeps it.
LEMMA TiedProgress ==
    ASSUME LoopInv(ckpt, db), Tied(ckpt, db), NEW mode, ProgressCheck(mode)
    PROVE  Tied(ckpt', db')
<1>1. ckpt.next = "progress" /\ ckpt \in Checkpoints /\ db \in Tables
  BY DEF ProgressCheck, LoopInv
<1>2. ckpt.index = db.chapters
  BY <1>1 DEF LoopInv, Placed, Sequenced, Underway
<1>3. ~(db.chapters < ckpt.index)
  BY <1>1, <1>2, LoopAssumption DEF Checkpoints, Indexes
<1>4. [ckpt EXCEPT !.index = db.chapters] = ckpt
  BY <1>1, <1>2 DEF Checkpoints
<1>5. \/ ckpt' \in {ckpt, [ckpt EXCEPT !.next = "end"]} /\ UNCHANGED db
      \/ Settle(Continued(ckpt), db, mode)
      \/ Fails /\ UNCHANGED db
  BY <1>3, <1>4 DEF ProgressCheck
<1>6. Aside([ckpt EXCEPT !.next = "end"]) /\ Aside(Continued(ckpt))
  BY <1>1 DEF Aside, Checkpoints, SamePending, Continued
<1>7. SameBooks(db)
  BY DEF SameBooks
<1> QED BY <1>5, <1>6, <1>7, TiedAside, TiedUpdateAside DEF Fails

\* The reconciliation keeps it: the outline is that of the chapter just stored.
LEMMA TiedReconcile ==
    ASSUME LoopInv(ckpt, db), Tied(ckpt, db), Reconcile
    PROVE  Tied(ckpt', db')
<1> DEFINE kept(severity) == WithExecution(Fulfilment, severity)
           bumped == [kept("minor") EXCEPT !.plan = @ + 1, !.status = "accepted"]
           p == Proposal("novel_plan", 0, NoWindow, TRUE)
           shifted == [ckpt EXCEPT !.plan = @ + 1, !.next = "progress"]
<1>1. /\ ckpt.next = "reconcile" /\ ckpt \in Checkpoints /\ db \in Tables
      /\ ckpt.index \in Nat /\ ckpt.outline.chapter \in Nat /\ ckpt.plan \in Nat
      /\ ckpt.pending.window.plan \in Nat
  BY LoopAssumption
  DEF Reconcile, At, LoopInv, Checkpoints, Outlines, Indexes, Proposals, Windows
<1>2. /\ ckpt.outline.chapter <= ckpt.index
      /\ ~ckpt.text /\ ckpt.pending.kind # "novel_plan"
  BY <1>1 DEF LoopInv, Bound, Sequenced, Underway, Proposed
<1>3. ASSUME NEW severity PROVE SameBooks(kept(severity))
  BY <1>1 DEF SameBooks, WithExecution, Tables
<1>4. bumped.plan = db.plan + 1 /\ bumped.window = db.window /\ bumped.accepted = db.accepted
  BY <1>1 DEF WithExecution, Tables
<1>5. p.kind = "novel_plan" /\ p.id # db.accepted.key
  BY <1>1, FreshIdIsFresh DEF Proposal
<1> HIDE DEF kept, bumped, p
<1>6. /\ Aside([ckpt EXCEPT !.next = "plan"])
      /\ Aside([ckpt EXCEPT !.next = "progress"])
      /\ Aside([ckpt EXCEPT !.replan = TRUE, !.next = "plan"])
      /\ Aside([ckpt EXCEPT !.gen = ManualDrift, !.next = "plan_review", !.pending = p])
  BY <1>1, <1>5 DEF Aside, Checkpoints, SamePending
<1>7. Tied(shifted, bumped) /\ Tied(ckpt, bumped)
  <2>1. /\ shifted.plan = ckpt.plan + 1 /\ shifted.index = ckpt.index
        /\ shifted.outline = ckpt.outline /\ shifted.pending = ckpt.pending
        /\ shifted.text = ckpt.text /\ shifted.next = "progress"
    BY <1>1 DEF Checkpoints
  <2> HIDE DEF shifted
  <2>2. ~Linked(shifted) /\ ~Linked(ckpt)
    BY <1>1, <1>2, <2>1 DEF Linked
  <2> QED BY <1>1, <1>2, <1>4, <2>1, <2>2
          DEF Tied, InForce, Prepared, WindowPending, PlanPending
<1>8. \/ \E new : Settle(new, db, run) /\ Aside(new)
      \/ Fails /\ UNCHANGED db
      \/ \E new, severity : Settle(new, kept(severity), run) /\ Aside(new)
      \/ Settle(shifted, bumped, run)
  BY <1>6, Zenon DEF Reconcile, Update, Step, Await, kept, bumped, p
<1> HIDE DEF shifted
<1> QED BY <1>3, <1>7, <1>8, TiedStepAside, TiedUpdateAside, TiedSettled DEF Fails

\* Where the router leads a checkpoint of this schema keeps it.
LEMMA TiedRouted ==
    ASSUME LoopInv(ckpt, db), Tied(ckpt, db), NEW c, NEW schema,
           c = [ckpt EXCEPT !.schema = schema],
           schema = ckpt.schema \/ (~ckpt.text /\ ckpt.pending = NoProposal),
           ckpt.text \/ ckpt.next = "router"
    PROVE  Tied([c EXCEPT !.next = Route(c)], db)
<1> DEFINE new == [c EXCEPT !.next = Route(c)]
<1>1. ckpt \in Checkpoints
  BY DEF LoopInv
<1>2. /\ c.schema = schema /\ c.text = ckpt.text /\ c.pending = ckpt.pending
      /\ c.plan = ckpt.plan /\ c.index = ckpt.index /\ c.outline = ckpt.outline
      /\ c.window = ckpt.window /\ c.replan = ckpt.replan
  BY <1>1 DEF Checkpoints
<1>3. /\ new.next = Route(c) /\ new.schema = schema
      /\ new.text = ckpt.text /\ new.pending = ckpt.pending
      /\ new.plan = ckpt.plan /\ new.index = ckpt.index /\ new.outline = ckpt.outline
      /\ new.window = ckpt.window /\ new.replan = ckpt.replan
  BY <1>1 DEF Checkpoints
<1> HIDE DEF new
<1>4. Linked(ckpt) <=> Linked(new)
  BY <1>3 DEF Linked
<1>5. WindowActive(ckpt) <=> WindowActive(new)
  BY <1>3 DEF WindowActive
<1>6. WindowActive(ckpt) <=> WindowActive(c)
  BY <1>2 DEF WindowActive
<1>7. Linked(ckpt) => OutlineReady(c) /\ WindowActive(c)
  BY <1>2, <1>6 DEF Tied, InForce, Linked, OutlineReady
<1>8. Route(c) \in {"outline", "tactical"} => ~Linked(ckpt)
  BY <1>7, Routed
<1>9. Route(c) # "outline_review" /\ Route(c) # "chapter_plan_review"
  BY Routed
<1>10. Planned(new) /\ Route(c) = "outline" => WindowActive(new)
  BY <1>2, <1>3, <1>5, <1>6, Routed
<1>11. Planned(new) /\ Route(c) = "write" => Linked(new)
  <2>1. Route(c) = "write" /\ Planned(c) => OutlineReady(c) /\ c.plan # 0
    BY Routed
  <2> QED BY <1>2, <1>3, <2>1 DEF OutlineReady, Linked
<1>12. Planned(new) /\ new.text => Linked(new)
  BY <1>3, <1>4 DEF Tied, Prepared
<1>13. InForce(new, db)
  BY <1>3, <1>4, <1>5, <1>8, <1>9 DEF Tied, InForce
<1>14. Prepared(new)
  BY <1>3, <1>9, <1>10, <1>11, <1>12 DEF Prepared
<1>15. WindowPending(new, db) /\ PlanPending(new, db)
  BY <1>3 DEF Tied, WindowPending, PlanPending
<1> QED BY <1>13, <1>14, <1>15 DEF Tied, new

\* The router keeps it.
LEMMA TiedRouter ==
    ASSUME LoopInv(ckpt, db), Tied(ckpt, db), Router, ~MidChapterRestarts
    PROVE  Tied(ckpt', db')
<1>1. ckpt.next = "router" /\ ckpt \in Checkpoints
  BY DEF Router, At, LoopInv
<1>2. ckpt = [ckpt EXCEPT !.schema = ckpt.schema]
  BY <1>1 DEF Checkpoints
<1>3. Tied([ckpt EXCEPT !.next = Route(ckpt)], db)
  BY <1>1, <1>2, TiedRouted
<1>4. ASSUME MayUpgrade, NEW upgraded, upgraded = [ckpt EXCEPT !.schema = 5]
      PROVE  Tied([upgraded EXCEPT !.next = Route(upgraded)], db)
  BY <1>1, <1>4, TiedRouted DEF MayUpgrade, BetweenChapters
<1> QED BY <1>3, <1>4, TiedSettled DEF Router, Update, Step

\* The tactics keep it: a window that is there or made is active.
LEMMA TiedTactics ==
    ASSUME LoopInv(ckpt, db), Tied(ckpt, db), PlanTactics
    PROVE  Tied(ckpt', db')
<1> DEFINE latest == [ckpt EXCEPT !.window = db.window, !.expected = db.window.version]
           candidate == [version |-> db.window.version + 1, plan |-> ckpt.plan,
                         start |-> Chapter]
           made == [ckpt EXCEPT !.window = candidate, !.expected = db.window.version,
                                !.feedback = FALSE, !.unreconciled = FALSE,
                                !.next = "outline"]
           On(new) == /\ new.next = "outline" /\ new.text = ckpt.text
                      /\ new.plan = ckpt.plan /\ new.index = ckpt.index
                      /\ new.outline = ckpt.outline /\ new.pending = ckpt.pending
                      /\ WindowActive(new)
<1>1. ckpt.next = "tactical" /\ ckpt \in Checkpoints /\ db \in Tables
  BY DEF PlanTactics, At, LoopInv
<1>2. db.window.version \in Nat
  BY <1>1 DEF Tables, Windows
<1>3. ~Linked(ckpt) /\ ~ckpt.text
  BY <1>1 DEF Tied, InForce, LoopInv, Sequenced
<1>4. ASSUME NEW new, On(new)
      PROVE  Tied(new, db)
  <2>1. ~Linked(new)
    BY <1>3, <1>4 DEF Linked
  <2> QED BY <1>3, <1>4, <2>1 DEF Tied, InForce, Prepared, WindowPending, PlanPending
<1>5. WindowActive(ckpt) => On([ckpt EXCEPT !.next = "outline"])
  BY <1>1 DEF Checkpoints, WindowActive
<1>6. WindowActive(latest) => On([latest EXCEPT !.next = "outline"])
  BY <1>1 DEF Checkpoints, WindowActive
<1>7. On(made)
  <2>1. candidate.version # 0 /\ candidate.plan = ckpt.plan /\ candidate.start = ckpt.index + 1
    BY <1>2
  <2> HIDE DEF candidate
  <2> QED BY <1>1, <2>1 DEF Checkpoints, WindowActive
<1>8. \E new : Settle(new, db, run) /\ On(new)
  <2> HIDE DEF On, latest, made
  <2> QED BY <1>5, <1>6, <1>7, Zenon DEF PlanTactics, Update, Step, latest, made
<1> HIDE DEF On
<1> QED BY <1>4, <1>8, TiedSettled

\* The outline node keeps it: what it proposes has the window that is active.
LEMMA TiedOutline ==
    ASSUME LoopInv(ckpt, db), Tied(ckpt, db), OutlineChapter
    PROVE  Tied(ckpt', db')
<1> DEFINE kind == IF Planned(ckpt) THEN "chapter_plan" ELSE "chapter_outline"
           next == IF Planned(ckpt) THEN "chapter_plan_review" ELSE "outline_review"
           window == IF Planned(ckpt) THEN ckpt.window ELSE NoWindow
           p == IF Matches(kind, Chapter) THEN ckpt.pending
                ELSE Proposal(kind, Chapter, window, TRUE)
           new == [ckpt EXCEPT !.next = next, !.pending = p]
<1>1. /\ ckpt.next = "outline" /\ ckpt \in Checkpoints /\ db \in Tables
      /\ ckpt.plan \in Nat
  BY DEF OutlineChapter, At, LoopInv, Checkpoints
<1>2. ~Linked(ckpt) /\ ~ckpt.text /\ (Planned(ckpt) => WindowActive(ckpt) /\ ckpt.plan # 0)
  BY <1>1 DEF Tied, InForce, Prepared, LoopInv, Sequenced, Accepted
<1>3. \/ p = ckpt.pending
      \/ p.kind = "chapter_outline"
      \/ /\ Planned(ckpt) /\ p.id # db.accepted.key
         /\ p.window = ckpt.window /\ p.chapter = ckpt.index + 1
         /\ p.kind = "chapter_plan"
  BY <1>1, FreshIdIsFresh DEF Proposal
<1>4. /\ new.next = next /\ new.pending = p /\ new.text = ckpt.text
      /\ new.schema = ckpt.schema /\ new.plan = ckpt.plan /\ new.index = ckpt.index
      /\ new.outline = ckpt.outline /\ new.window = ckpt.window
  <2> HIDE DEF next, p
  <2> QED BY <1>1 DEF Checkpoints
<1>5. next # "outline" /\ next # "write"
  OBVIOUS
<1>6. next = "chapter_plan_review" => Planned(ckpt)
  OBVIOUS
<1>7. Settle(new, db, run)
  BY DEF OutlineChapter, Update, Step
<1> HIDE DEF new, p, next
<1>8. InForce(new, db) /\ Prepared(new)
  BY <1>2, <1>4, <1>5, <1>6 DEF InForce, Prepared, Linked, WindowActive
<1>9. WindowPending(new, db) /\ PlanPending(new, db)
  <2>1. CASE p = ckpt.pending
    BY <1>4, <2>1 DEF Tied, WindowPending, PlanPending
  <2>2. CASE p.kind = "chapter_outline"
    BY <1>4, <2>2 DEF WindowPending, PlanPending
  <2>3. CASE /\ Planned(ckpt) /\ p.id # db.accepted.key
             /\ p.window = ckpt.window /\ p.chapter = ckpt.index + 1
             /\ p.kind = "chapter_plan"
    BY <1>1, <1>2, <1>4, <2>3 DEF WindowPending, PlanPending, WindowActive
  <2> QED BY <1>3, <2>1, <2>2, <2>3
<1>10. Tied(new, db)
  BY <1>8, <1>9 DEF Tied
<1> QED BY <1>7, <1>10, TiedSettled

\* The acceptance of an outline makes the outline that is linked: its window is
\* the latest of the tables, and belongs to the plan that is.
LEMMA TiedWindowAccepted ==
    ASSUME LoopInv(ckpt, db), Tied(ckpt, db), ckpt.next = "chapter_plan_review",
           Matches("chapter_plan", Chapter),
           NEW answer, answer = AcceptWindow(ckpt.pending.id, ckpt.pending.window, ckpt.expected),
           answer.ok,
           NEW window, window = [ckpt.pending.window EXCEPT !.version = answer.version]
    PROVE  LET s == WithWindow(window, ckpt.pending.id)
           IN  /\ Tied(ckpt, s)
               /\ Tied([Cleared(ckpt) EXCEPT
                           !.next = "router", !.feedback = FALSE,
                           !.window = window, !.expected = window.version,
                           !.outline = [chapter |-> Chapter, plan |-> ckpt.plan,
                                        window |-> window.version]], s)
<1> DEFINE s == WithWindow(window, ckpt.pending.id)
           outline == [chapter |-> Chapter, plan |-> ckpt.plan, window |-> window.version]
           new == [Cleared(ckpt) EXCEPT
                      !.next = "router", !.feedback = FALSE,
                      !.window = window, !.expected = window.version,
                      !.outline = outline]
<1>1. /\ ckpt \in Checkpoints /\ db \in Tables
      /\ ckpt.pending.kind = "chapter_plan" /\ ckpt.pending.chapter = ckpt.index + 1
      /\ ckpt.pending.window \in Windows /\ db.window \in Windows
  BY DEF LoopInv, Matches, Checkpoints, Proposals, Tables
<1>2. /\ ckpt.plan \in Nat /\ db.plan \in Nat /\ db.window.version \in Nat
      /\ ckpt.pending.window.plan \in Nat /\ db.accepted.version \in Nat
  BY <1>1 DEF Checkpoints, Tables, Windows
<1>3. /\ ckpt.pending.window.plan # 0 /\ ckpt.pending.window.plan <= ckpt.plan
      /\ ckpt.pending.window.start = ckpt.index + 1
      /\ ckpt.pending.id = db.accepted.key =>
            /\ db.accepted.version # 0
            /\ db.window = [ckpt.pending.window EXCEPT !.version = db.accepted.version]
  BY <1>1 DEF Tied, WindowPending
<1>4. ckpt.pending.window.plan = db.plan
  BY DEF AcceptWindow
<1>5. ckpt.plan = db.plan /\ ckpt.plan # 0
  BY <1>2, <1>3, <1>4 DEF LoopInv, Bound
<1>6. /\ window.version = answer.version /\ window.plan = db.plan
      /\ window.start = ckpt.index + 1
  BY <1>1, <1>3, <1>4 DEF Windows
<1>7. /\ answer.version \in Nat /\ answer.version # 0
      /\ s.plan = db.plan /\ s.window = window
      /\ s.accepted.key = ckpt.pending.id /\ s.accepted.version = answer.version
  <2>1. CASE ckpt.pending.id = db.accepted.key
    <3>1. answer.version = db.accepted.version
      BY <1>4, <2>1 DEF AcceptWindow
    <3>2. db.window = window /\ answer.version # 0
      BY <1>3, <2>1, <3>1
    <3>3. s = db
      BY <1>2, <3>2 DEF WithWindow
    <3> QED BY <1>2, <2>1, <3>1, <3>2, <3>3
  <2>2. CASE ckpt.pending.id # db.accepted.key
    <3>1. answer.version = db.window.version + 1
      BY <1>4, <2>2 DEF AcceptWindow
    <3>2. ~(window.version <= db.window.version)
      BY <1>2, <1>6, <3>1
    <3>3. s = [db EXCEPT !.window = window,
                         !.accepted = [key |-> ckpt.pending.id, version |-> window.version]]
      BY <3>2, Zenon DEF WithWindow
    <3> HIDE DEF s
    <3> QED BY <1>1, <1>2, <1>6, <3>1, <3>3 DEF Tables
  <2> QED BY <2>1, <2>2
<1> HIDE DEF s
<1>8. Tied(ckpt, s)
  <2>1. ~Linked(ckpt)
    BY DEF Tied, InForce
  <2>2. Prepared(ckpt)
    BY DEF Tied
  <2>3. WindowPending(ckpt, s)
    <3>1. ckpt.pending.window.version # 0
      BY <1>1 DEF Tied, WindowPending
    <3>2. s.window = [ckpt.pending.window EXCEPT !.version = s.accepted.version]
      BY <1>7
    <3>3. ckpt.pending.window.start = ckpt.pending.chapter
      BY <1>1, <1>3
    <3> QED BY <1>3, <1>7, <3>1, <3>2, <3>3 DEF WindowPending
  <2>4. PlanPending(ckpt, s)
    BY <1>1 DEF PlanPending
  <2> QED BY <2>1, <2>2, <2>3, <2>4 DEF Tied, InForce
<1>9. Tied(new, s)
  <2>1. /\ outline.chapter = ckpt.index + 1 /\ outline.plan = ckpt.plan
        /\ outline.window = window.version
    OBVIOUS
  <2> HIDE DEF outline
  <2>2. /\ new.next = "router" /\ new.window = window /\ new.outline = outline
        /\ new.plan = ckpt.plan /\ new.index = ckpt.index /\ new.pending.kind = "none"
    BY <1>1 DEF Cleared, Checkpoints, NoProposal
  <2> HIDE DEF new
  <2>3. Linked(new) /\ WindowActive(new)
    BY <1>5, <1>6, <1>7, <2>1, <2>2 DEF Linked, WindowActive
  <2> QED BY <1>5, <1>7, <2>1, <2>2, <2>3
          DEF Tied, InForce, Prepared, WindowPending, PlanPending
<1> QED BY <1>8, <1>9 DEF new, s, outline

\* The decision on an outline and its window keeps it.
LEMMA TiedWindowDecided ==
    ASSUME LoopInv(ckpt, db), Tied(ckpt, db), NEW mode,
           NEW decision \in {"accept", "regenerate_outline", "regenerate_tactics"},
           ChapterPlanReview(decision, mode)
    PROVE  Tied(ckpt', db')
<1>1. /\ ckpt.next = "chapter_plan_review" /\ ckpt \in Checkpoints
      /\ Matches("chapter_plan", Chapter)
  BY DEF ChapterPlanReview, Reviews, LoopInv
<1>2. ~Linked(ckpt) /\ ~ckpt.text /\ WindowActive(ckpt)
  BY <1>1 DEF Tied, InForce, Prepared, LoopInv, Sequenced
<1>3. Tied([Cleared(ckpt) EXCEPT !.next = "outline"], db)
  <2> DEFINE new == [Cleared(ckpt) EXCEPT !.next = "outline"]
  <2>1. /\ new.next = "outline" /\ new.pending.kind = "none" /\ new.text = ckpt.text
        /\ new.plan = ckpt.plan /\ new.index = ckpt.index
        /\ new.outline = ckpt.outline /\ new.window = ckpt.window
    BY <1>1 DEF Cleared, Checkpoints, NoProposal
  <2> HIDE DEF new
  <2>2. Tied(new, db)
    BY <1>2, <2>1
    DEF Tied, InForce, Prepared, WindowPending, PlanPending, Linked, WindowActive
  <2> QED BY <2>2 DEF new
<1>4. ASSUME NEW instructed
      PROVE  Tied([Cleared(ckpt) EXCEPT !.next = "tactical",
                      !.window = NoWindow, !.feedback = instructed], db)
  <2> DEFINE new == [Cleared(ckpt) EXCEPT !.next = "tactical",
                        !.window = NoWindow, !.feedback = instructed]
  <2>1. /\ new.next = "tactical" /\ new.pending.kind = "none" /\ new.text = ckpt.text
        /\ new.plan = ckpt.plan /\ new.index = ckpt.index
        /\ new.outline = ckpt.outline
    BY <1>1 DEF Cleared, Checkpoints, NoProposal
  <2> HIDE DEF new
  <2>2. Tied(new, db)
    BY <1>2, <2>1
    DEF Tied, InForce, Prepared, WindowPending, PlanPending, Linked, WindowActive
  <2> QED BY <2>2 DEF new
<1> DEFINE answer == AcceptWindow(ckpt.pending.id, ckpt.pending.window, ckpt.expected)
           window == [ckpt.pending.window EXCEPT !.version = answer.version]
           s == WithWindow(window, ckpt.pending.id)
           new == [Cleared(ckpt) EXCEPT
                      !.next = "router", !.feedback = FALSE,
                      !.window = window, !.expected = window.version,
                      !.outline = [chapter |-> Chapter, plan |-> ckpt.plan,
                                   window |-> window.version]]
<1>5. CASE answer.ok /\ Settle(new, s, mode)
  <2>1. Tied(ckpt, s) /\ Tied(new, s)
    <3> HIDE DEF answer, window
    <3>1. answer = AcceptWindow(ckpt.pending.id, ckpt.pending.window, ckpt.expected)
      BY DEF answer
    <3>2. window = [ckpt.pending.window EXCEPT !.version = answer.version]
      BY DEF window
    <3> QED BY <1>1, <1>5, <3>1, <3>2, TiedWindowAccepted
  <2> QED BY <1>5, <2>1, TiedSettled
<1> HIDE DEF new, s, answer
<1>6. \/ answer.ok /\ Settle(new, s, mode)
      \/ Fails /\ UNCHANGED db
      \/ Settle([Cleared(ckpt) EXCEPT !.next = "outline"], db, mode)
      \/ \E instructed :
            Settle([Cleared(ckpt) EXCEPT !.next = "tactical",
                       !.window = NoWindow, !.feedback = instructed], db, mode)
  BY DEF ChapterPlanReview, new, s, answer
<1> QED BY <1>3, <1>4, <1>5, <1>6, TiedSettled DEF Fails

\* The decision on the outline of a book without a plan keeps it.
LEMMA TiedOutlineDecided ==
    ASSUME LoopInv(ckpt, db), Tied(ckpt, db), NEW mode,
           NEW decision \in {"accept", "regenerate_outline"},
           OutlineReview(decision, mode)
    PROVE  Tied(ckpt', db')
<1> DEFINE Off(new) == /\ new.pending.kind = "none" /\ ~Planned(new) /\ ~Linked(new)
<1>1. ckpt.next = "outline_review" /\ ckpt \in Checkpoints
  BY DEF OutlineReview, Reviews, LoopInv
<1>2. ~Planned(ckpt) /\ ~Linked(ckpt)
  BY <1>1 DEF Tied, InForce, LoopInv, Sequenced
<1>3. ASSUME NEW new, Off(new) PROVE Tied(new, db)
  BY <1>3 DEF Tied, InForce, Prepared, WindowPending, PlanPending
<1>4. Off([Cleared(ckpt) EXCEPT !.next = "outline"])
  BY <1>1, <1>2 DEF Cleared, Checkpoints, NoProposal, Linked
<1>5. Off([Cleared(ckpt) EXCEPT !.next = "router",
              !.outline = [NoOutline EXCEPT !.chapter = Chapter]])
  <2> DEFINE outline == [NoOutline EXCEPT !.chapter = Chapter]
  <2>1. outline.plan = 0
    BY DEF NoOutline
  <2> HIDE DEF outline
  <2>2. Off([Cleared(ckpt) EXCEPT !.next = "router", !.outline = outline])
    BY <1>1, <1>2, <2>1 DEF Cleared, Checkpoints, NoProposal, Linked
  <2> QED BY <2>2 DEF outline
<1> HIDE DEF Off
<1> QED BY <1>3, <1>4, <1>5, TiedSettled DEF OutlineReview

\* The acceptance of a plan leaves every outline behind.
LEMMA TiedPlanAccepted ==
    ASSUME LoopInv(ckpt, db), Tied(ckpt, db), ckpt.next = "plan_review",
           NEW answer, answer = AcceptPlan(ckpt.pending.id, ckpt.gen.expected), answer.ok,
           NEW next \in {"persist", "progress"}
    PROVE  LET s == WithPlan(answer.version, ckpt.pending.id)
           IN  /\ Tied(ckpt, s)
               /\ Tied([Cleared(ckpt) EXCEPT !.next = next, !.plan = answer.version,
                                             !.gen = NoGeneration, !.replan = FALSE], s)
<1> DEFINE v == answer.version
           s == WithPlan(v, ckpt.pending.id)
           new == [Cleared(ckpt) EXCEPT !.next = next, !.plan = v,
                                        !.gen = NoGeneration, !.replan = FALSE]
<1>1. /\ ckpt \in Checkpoints /\ db \in Tables
      /\ ckpt.plan \in Nat /\ db.plan \in Nat /\ ckpt.plan <= db.plan
      /\ ckpt.outline.plan \in Nat /\ ckpt.outline.plan <= ckpt.plan
      /\ ckpt.outline.chapter \in Nat /\ ckpt.index \in Nat
      /\ ckpt.pending.kind = "novel_plan"
  BY LoopAssumption DEF LoopInv, Checkpoints, Outlines, Tables, Bound, Proposed, Indexes
<1>2. ~ckpt.text
  BY <1>1 DEF LoopInv, Proposed
<1>3. /\ v \in Nat
      /\ ckpt.outline.chapter <= ckpt.index \/ ckpt.outline.plan < v
      /\ s.window = db.window
      /\ \/ s = db
         \/ s.plan = v /\ s.accepted = [key |-> ckpt.pending.id, version |-> v]
  <2>1. CASE db.accepted.key = ckpt.pending.id
    <3>1. v = db.accepted.version /\ v = db.plan
      BY <1>1, <2>1 DEF AcceptPlan, LoopInv, Bound
    <3>2. ckpt.outline.chapter <= ckpt.index \/ ckpt.outline.plan < db.plan
      BY <1>1, <2>1 DEF Tied, PlanPending
    <3> QED BY <1>1, <3>1, <3>2 DEF WithPlan
  <2>2. CASE db.accepted.key # ckpt.pending.id
    <3>1. v = db.plan + 1
      BY <2>2 DEF AcceptPlan
    <3>2. ~(v <= db.plan)
      BY <1>1, <3>1
    <3> HIDE DEF v
    <3>3. s = [db EXCEPT !.plan = v, !.status = "accepted",
                         !.accepted = [key |-> ckpt.pending.id, version |-> v]]
      BY <3>2, Zenon DEF WithPlan
    <3> HIDE DEF s
    <3> QED BY <1>1, <3>1, <3>3 DEF Tables
  <2> QED BY <2>1, <2>2
<1> HIDE DEF v, s
<1>4. Tied(ckpt, s)
  <2>1. CASE s = db
    BY <2>1
  <2>2. CASE s.plan = v /\ s.accepted = [key |-> ckpt.pending.id, version |-> v]
    <3>1. Linked(ckpt) => ckpt.replan
      <4>1. Outdated(ckpt)
        BY DEF LoopInv, Bound
      <4> QED BY <1>1, <4>1 DEF Outdated, Linked
    <3>2. InForce(ckpt, s)
      BY <1>3, <3>1 DEF Tied, InForce
    <3>3. WindowPending(ckpt, s) /\ PlanPending(ckpt, s)
      BY <1>1, <1>3, <2>2 DEF WindowPending, PlanPending
    <3> QED BY <3>2, <3>3 DEF Tied
  <2> QED BY <1>3, <2>1, <2>2
<1>5. Tied(new, s)
  <2>1. /\ new.next = next /\ new.plan = v /\ new.text = ckpt.text
        /\ new.index = ckpt.index /\ new.outline = ckpt.outline
        /\ new.pending.kind = "none"
    BY <1>1 DEF Cleared, Checkpoints, NoProposal
  <2> HIDE DEF new
  <2>2. ~Linked(new)
    BY <1>1, <1>3, <2>1 DEF Linked
  <2> QED BY <1>2, <2>1, <2>2
          DEF Tied, InForce, Prepared, WindowPending, PlanPending
<1> QED BY <1>4, <1>5 DEF new, s, v

\* The decision on a plan keeps it.
LEMMA TiedPlanDecided ==
    ASSUME LoopInv(ckpt, db), Tied(ckpt, db), NEW mode, NEW decision \in {"accept", "regenerate"},
           PlanReview(decision, mode)
    PROVE  Tied(ckpt', db')
<1> DEFINE answer == AcceptPlan(ckpt.pending.id, ckpt.gen.expected)
           next == IF ckpt.gen.mode = "initial" THEN "persist" ELSE "progress"
           s == WithPlan(answer.version, ckpt.pending.id)
           new == [Cleared(ckpt) EXCEPT !.next = next, !.plan = answer.version,
                                        !.gen = NoGeneration, !.replan = FALSE]
<1>1. ckpt.next = "plan_review" /\ ckpt \in Checkpoints
  BY DEF PlanReview, Reviews, LoopInv
<1>2. CASE decision = "accept" /\ answer.ok
  <2>1. Settle(new, s, mode)
    BY <1>2 DEF PlanReview
  <2>2. next \in {"persist", "progress"}
    OBVIOUS
  <2>3. Tied(ckpt, s) /\ Tied(new, s)
    <3> HIDE DEF answer, next
    <3>1. answer = AcceptPlan(ckpt.pending.id, ckpt.gen.expected)
      BY DEF answer
    <3> QED BY <1>1, <1>2, <2>2, <3>1, TiedPlanAccepted
  <2> QED BY <2>1, <2>3, TiedSettled
<1>3. CASE decision = "accept" /\ ~answer.ok
  BY <1>3 DEF PlanReview, Fails
<1>4. CASE decision = "regenerate"
  <2>1. Aside([Cleared(ckpt) EXCEPT !.next = "plan", !.gen = NoGeneration])
    BY <1>1 DEF Aside, Cleared, Checkpoints, NoProposal
  <2>2. Settle([Cleared(ckpt) EXCEPT !.next = "plan", !.gen = NoGeneration], db, mode)
    BY <1>4 DEF PlanReview
  <2> QED BY <2>1, <2>2, TiedUpdateAside
<1> QED BY <1>2, <1>3, <1>4

\* A fresh start between two chapters keeps it: an outline of the plan that is in
\* force stays that, and any other is one of an older plan.
LEMMA TiedSeeded ==
    ASSUME LoopInv(ckpt, db), Tied(ckpt, db), BetweenChapters, NEW schema, NEW replan,
           ckpt.replan => replan,
           NEW c, c = [Seeded(ckpt, schema) EXCEPT !.replan = replan],
           Starts(c)
    PROVE  Tied(ckpt', db')
<1>1. /\ ckpt \in Checkpoints /\ db \in Tables
      /\ ckpt.plan \in Nat /\ db.plan \in Nat /\ ckpt.plan <= db.plan
      /\ ckpt.outline.plan \in Nat /\ ckpt.outline.plan <= ckpt.plan
  BY DEF LoopInv, Checkpoints, Outlines, Tables, Bound
<1>2. ~ckpt.text /\ ckpt.index = db.chapters
  BY DEF BetweenChapters, LoopInv, Placed
<1>3. (IF db.plan > 0 THEN db.plan ELSE ckpt.plan) = db.plan
  BY <1>1
<1>4. /\ ckpt'.next \in {"plan", "persist"} /\ ckpt'.text = ckpt.text
      /\ ckpt'.index = ckpt.index /\ ckpt'.plan = db.plan /\ ckpt'.replan = replan
      /\ ckpt'.outline = ckpt.outline /\ ckpt'.window = ckpt.window
      /\ ckpt'.pending = ckpt.pending
  BY <1>1, <1>2, <1>3 DEF Starts, ReuseOutline, Seeded, Checkpoints
<1>5. db' = db
  BY DEF Starts
<1>6. Linked(ckpt') => Linked(ckpt) /\ ckpt.plan = db.plan
  BY <1>1, <1>4 DEF Linked
<1>7. InForce(ckpt', db) /\ Prepared(ckpt')
  BY <1>2, <1>4, <1>6 DEF Tied, InForce, Prepared, WindowActive
<1>8. WindowPending(ckpt', db) /\ PlanPending(ckpt', db)
  <2>1. ckpt.pending.window.plan \in Nat
    BY <1>1 DEF Checkpoints, Proposals, Windows
  <2> QED BY <1>1, <1>4, <2>1 DEF Tied, WindowPending, PlanPending
<1> QED BY <1>5, <1>7, <1>8 DEF Tied

\* The commands keep it.
LEMMA TiedCommands ==
    ASSUME LoopInv(ckpt, db), Tied(ckpt, db), Commands, ~MidChapterRestarts
    PROVE  Tied(ckpt', db')
<1>1. ckpt \in Checkpoints
  BY DEF LoopInv
<1>2. CASE Start
  <2>1. BetweenChapters
    BY <1>2 DEF Start, MayStart
  <2>2. PICK schema \in ckpt.schema .. 5 : Starts(Seeded(ckpt, schema))
    BY <1>2 DEF Start
  <2> DEFINE replan == Seeded(ckpt, schema).replan
  <2>3. Seeded(ckpt, schema) = [Seeded(ckpt, schema) EXCEPT !.replan = replan]
    BY <1>1 DEF Seeded, Checkpoints
  <2>4. ckpt.replan => replan
    BY <1>1 DEF Seeded, Checkpoints
  <2> HIDE DEF replan
  <2> QED BY <2>1, <2>2, <2>3, <2>4, TiedSeeded
<1>3. CASE Replan
  <2>1. BetweenChapters /\ Starts([Seeded(ckpt, 5) EXCEPT !.replan = TRUE])
    BY <1>3 DEF Replan, MayStart
  <2> QED BY <2>1, TiedSeeded
<1>4. CASE Retry
  <2>1. PICK next \in {ckpt.next} \cup (IF ckpt.text THEN {Route(ckpt)} ELSE {}) :
           ckpt' = [ckpt EXCEPT !.next = next]
    BY <1>4 DEF Retry
  <2>2. db' = db
    BY <1>4 DEF Retry
  <2>3. CASE next = ckpt.next
    <3>1. ckpt' = ckpt
      BY <1>1, <2>1, <2>3 DEF Checkpoints
    <3> QED BY <2>2, <3>1
  <2>4. CASE ckpt.text /\ next = Route(ckpt)
    <3>1. ckpt = [ckpt EXCEPT !.schema = ckpt.schema]
      BY <1>1 DEF Checkpoints
    <3>2. Tied([ckpt EXCEPT !.next = Route(ckpt)], db)
      BY <2>4, <3>1, TiedRouted
    <3> QED BY <2>1, <2>2, <2>4, <3>2
  <2> QED BY <2>1, <2>3, <2>4
<1> QED BY <1>2, <1>3, <1>4 DEF Commands

\* The changes of the chapters keep it: what they leave of an outline is not that
\* of the next chapter.
LEMMA TiedChanges ==
    ASSUME LoopInv(ckpt, db), Tied(ckpt, db), Changes
    PROVE  Tied(ckpt', db')
<1>1. ckpt \in Checkpoints /\ db \in Tables /\ db.chapters \in Nat
      /\ ckpt.outline.chapter \in Nat
  BY LoopAssumption DEF LoopInv, Checkpoints, Outlines, Tables, Indexes
<1>2. PICK index \in Nat : ckpt' = Rewound(index)
  <2>1. ASSUME NEW index \in 0 .. Total - 1, DeleteFrom(index)
        PROVE  index \in Nat /\ ckpt' = Rewound(index)
    BY <2>1, LoopAssumption DEF DeleteFrom
  <2>2. ASSUME NEW chapter, Edit(chapter)
        PROVE  ckpt' = Rewound(db.chapters)
    BY <2>2 DEF Edit
  <2> QED BY <1>1, <2>1, <2>2 DEF Changes
<1> DEFINE o == IF ckpt.outline.chapter <= index THEN ckpt.outline ELSE NoOutline
<1>3. o.chapter <= index
  BY DEF NoOutline
<1> DEFINE next == IF index >= Total THEN "end" ELSE "router"
           c == [ckpt EXCEPT !.pending = NoProposal, !.text = FALSE, !.checked = FALSE,
                    !.memory = Unset, !.memFor = Unset, !.outline = o,
                    !.window = NoWindow, !.expected = 0, !.unreconciled = TRUE,
                    !.index = index, !.attempts = 0, !.next = next]
<1>4. /\ ckpt'.next \in {"end", "router"} /\ ~ckpt'.text
      /\ ckpt'.index = index /\ ckpt'.outline = o /\ ckpt'.pending.kind = "none"
  <2>1. ckpt' = c
    BY <1>1, <1>2, ZenonT(60) DEF Rewound, Cleared, RewindCleanup, Checkpoints
  <2>2. next \in {"end", "router"}
    OBVIOUS
  <2> HIDE DEF o, next
  <2>3. /\ c.next = next /\ ~c.text /\ c.index = index /\ c.outline = o
        /\ c.pending = NoProposal
    BY <1>1 DEF Checkpoints
  <2> HIDE DEF c
  <2> QED BY <2>1, <2>2, <2>3 DEF NoProposal
<1> HIDE DEF o
<1>5. ~Linked(ckpt')
  BY <1>3, <1>4 DEF Linked
<1> QED BY <1>4, <1>5 DEF Tied, InForce, Prepared, WindowPending, PlanPending

\* Every step keeps it.
LEMMA TiedStep ==
    ASSUME LoopInv(ckpt, db), Tied(ckpt, db), [Next]_vars, ~MidChapterRestarts
    PROVE  Tied(ckpt', db')
<1>1. CASE PlanInitialize \/ PlanVolume \/ PlanFinalize
  BY <1>1, TiedPlanning
<1>2. CASE Router \/ RetrieveMemory \/ ReserveQuota \/ PlanTactics \/ OutlineChapter
  BY <1>2, TiedRouter, TiedBefore, TiedTactics, TiedOutline
<1>3. CASE Write \/ Compact \/ Reflect \/ Revise
  BY <1>3, TiedDrafting
<1>4. CASE PersistSetup \/ PersistChapter \/ Reconcile
  BY <1>4, TiedKept, TiedReconcile
<1>5. ASSUME NEW node, NEW forced, AwaitsReview(node, forced)
      PROVE  Tied(ckpt', db')
  BY <1>5 DEF AwaitsReview, Await, Fails
<1>6. ASSUME NEW mode \in {"auto", "manual"},
             \/ ProgressCheck(mode)
             \/ \E decision \in {"accept", "regenerate"} : PlanReview(decision, mode)
             \/ \E decision \in {"accept", "regenerate_outline", "regenerate_tactics"} :
                   ChapterPlanReview(decision, mode)
             \/ \E decision \in {"accept", "regenerate_outline"} :
                   OutlineReview(decision, mode)
             \/ \E decision \in {"accept", "regenerate", "replace", "retry", "revise"} :
                   ReflectReview(decision, mode)
             \/ \E decision \in {"accept", "regenerate", "replace", "revise"} :
                   ReviseReview(decision, mode)
      PROVE  Tied(ckpt', db')
  BY <1>6, TiedProgress, TiedPlanDecided, TiedWindowDecided, TiedOutlineDecided, TiedDecided
<1>7. CASE Graph
  BY <1>1, <1>2, <1>3, <1>4, <1>5, <1>6, <1>7, Zenon DEF Graph
<1>8. CASE Commands \/ Changes
  BY <1>8, TiedCommands, TiedChanges
<1>9. CASE UNCHANGED vars
  BY <1>9 DEF vars
<1> QED BY <1>7, <1>8, <1>9 DEF Next

-----------------------------------------------------------------------------
(* The batches, whatever command comes over a chapter that is under way *)

\* A checkpoint has the fields the batch of its plan is about.
Shaped(c) ==
    /\ {"next", "gen", "pending"} \subseteq DOMAIN c
    /\ {"mode", "forced"} \subseteq DOMAIN c.gen
    /\ "kind" \in DOMAIN c.pending

\* It needs neither that the rest of the checkpoint is typed nor that it fits the
\* tables, which a fresh start over a chapter under way does not keep.
BatchInv(c) == Shaped(c) /\ c.gen.mode \in Modes /\ Batched(c)

BatchNodes == {"volume", "finalize", "plan_review"}

\* An update that neither touches the batch nor leads to it.
Quiet(new) ==
    /\ Shaped(new)
    /\ new.gen = ckpt.gen
    /\ new.pending.kind = "novel_plan" => ckpt.pending.kind = "novel_plan"
    /\ new.next \in BatchNodes => new.next = ckpt.next

\* Such an update keeps what is said of the batch.
LEMMA QuietKeeps ==
    ASSUME BatchInv(ckpt), NEW new, Quiet(new)
    PROVE  BatchInv(new)
BY DEF BatchInv, Batched, Quiet, BatchNodes

\* A node that settles keeps it if its update has it.
LEMMA BatchSettled ==
    ASSUME BatchInv(ckpt), NEW new, NEW store, NEW mode, Settle(new, store, mode),
           Quiet(new) \/ BatchInv(new)
    PROVE  BatchInv(ckpt')
BY QuietKeeps DEF Settle, Fails

\* The nodes that plan.
LEMMA BatchPlanned ==
    ASSUME BatchInv(ckpt), PlanInitialize \/ PlanVolume \/ PlanFinalize
    PROVE  BatchInv(ckpt')
<1> USE DEF BatchInv, Shaped, Batched
<1>1. CASE PlanInitialize
  <2>1. CASE Matches("novel_plan", 0)
    <3> DEFINE new == [ckpt EXCEPT !.next = "plan_review"]
    <3>1. BatchInv(new)
      BY <2>1 DEF Matches
    <3>2. Settle(new, db, run)
      BY <1>1, <2>1 DEF PlanInitialize, Update, Step
    <3> QED BY <3>1, <3>2, BatchSettled
  <2>2. CASE ~Matches("novel_plan", 0)
    <3> DEFINE gen == IF ckpt.gen.mode = "none" THEN NewGeneration ELSE ckpt.gen
               new == [ckpt EXCEPT !.next = "volume", !.gen = gen]
    <3>1. Mode \in Modes \ {"none"}
      BY DEF Mode, Modes
    <3>2. /\ NewGeneration.mode = Mode
          /\ Mode \in {"replan", "legacy_upgrade"} => NewGeneration.forced
          /\ {"mode", "forced"} \subseteq DOMAIN NewGeneration
      BY DEF NewGeneration, Mode
    <3>3. /\ gen.mode \in Modes \ {"none"} /\ {"mode", "forced"} \subseteq DOMAIN gen
          /\ gen.mode \in {"replan", "legacy_upgrade"} => gen.forced
      <4> HIDE DEF Batched
      <4>1. CASE ckpt.gen.mode = "none" BY <3>1, <3>2, <4>1
      <4>2. CASE ckpt.gen.mode # "none" BY <4>2 DEF Batched
      <4> QED BY <4>1, <4>2
    <3> HIDE DEF gen
    <3>4. BatchInv(new)
      BY <3>3
    <3>5. Settle(new, db, run)
      BY <1>1, <2>2 DEF PlanInitialize, Update, Step, gen
    <3> QED BY <3>4, <3>5, BatchSettled
  <2> QED BY <2>1, <2>2
<1>2. CASE PlanVolume
  <2> DEFINE new == [ckpt EXCEPT !.gen.left = 0, !.next = "finalize"]
  <2>1. BatchInv(new)
    BY <1>2 DEF PlanVolume, At
  <2>2. Settle(new, db, run) \/ ckpt' = ckpt
    BY <1>2 DEF PlanVolume, Update, Step, Await, Fails
  <2> QED BY <2>1, <2>2, BatchSettled
<1>3. CASE PlanFinalize
  <2> DEFINE p == Proposal("novel_plan", 0, NoWindow, TRUE)
             proposed == [ckpt EXCEPT !.next = "plan_review", !.pending = p]
             again == [ckpt EXCEPT !.gen.left = 1, !.gen.restarts = @ + 1, !.next = "volume"]
  <2>1. "kind" \in DOMAIN p /\ ckpt.next = "finalize"
    BY <1>3 DEF PlanFinalize, At, Proposal
  <2>2. BatchInv(again)
    BY <2>1
  <2>3. Settle(proposed, db, run) \/ Settle(again, db, run)
    BY <1>3 DEF PlanFinalize, Update, Step
  <2> HIDE DEF p
  <2>4. BatchInv(proposed)
    BY <2>1
  <2> QED BY <2>2, <2>3, <2>4, BatchSettled
<1> QED BY <1>1, <1>2, <1>3

\* The decision on a plan ends its batch.
LEMMA BatchDecided ==
    ASSUME BatchInv(ckpt), NEW mode, NEW decision \in {"accept", "regenerate"},
           PlanReview(decision, mode)
    PROVE  BatchInv(ckpt')
<1>1. ASSUME NEW next \in {"persist", "progress", "plan"}, NEW plan
      PROVE  /\ BatchInv([Cleared(ckpt) EXCEPT !.next = next, !.plan = plan,
                                               !.gen = NoGeneration, !.replan = FALSE])
             /\ BatchInv([Cleared(ckpt) EXCEPT !.next = next, !.gen = NoGeneration])
  BY DEF BatchInv, Shaped, Batched, Cleared, NoGeneration, NoProposal, Modes
<1> DEFINE gen == ckpt.gen
           answer == AcceptPlan(ckpt.pending.id, gen.expected)
           next == IF gen.mode = "initial" THEN "persist" ELSE "progress"
           accepted == [Cleared(ckpt) EXCEPT !.next = next, !.plan = answer.version,
                                             !.gen = NoGeneration, !.replan = FALSE]
           again == [Cleared(ckpt) EXCEPT !.next = "plan", !.gen = NoGeneration]
<1>2. \/ Settle(accepted, WithPlan(answer.version, ckpt.pending.id), mode)
      \/ Settle(again, db, mode)
      \/ ckpt' = ckpt
  BY DEF PlanReview, Fails
<1>3. BatchInv(accepted) /\ BatchInv(again)
  BY <1>1
<1> QED BY <1>2, <1>3, BatchSettled

\* The reconciliation proposes a shift of events as a batch the user must see.
LEMMA BatchReconciled ==
    ASSUME BatchInv(ckpt), Reconcile
    PROVE  BatchInv(ckpt')
<1> DEFINE p == Proposal("novel_plan", 0, NoWindow, TRUE)
           drift == [ckpt EXCEPT !.gen = ManualDrift, !.next = "plan_review", !.pending = p]
<1>1. /\ Quiet([ckpt EXCEPT !.next = "plan"])
      /\ Quiet([ckpt EXCEPT !.next = "progress"])
      /\ Quiet([ckpt EXCEPT !.replan = TRUE, !.next = "plan"])
      /\ Quiet([ckpt EXCEPT !.plan = @ + 1, !.next = "progress"])
  BY DEF BatchInv, Shaped, Quiet, BatchNodes
<1>2. "kind" \in DOMAIN p
  BY DEF Proposal
<1>3. BatchInv(drift)
  <2> HIDE DEF p
  <2> QED BY <1>2 DEF BatchInv, Shaped, Batched, ManualDrift, Modes
<1>4. \/ ckpt' = ckpt
      \/ \E store : \/ Settle([ckpt EXCEPT !.next = "plan"], store, run)
                    \/ Settle([ckpt EXCEPT !.next = "progress"], store, run)
                    \/ Settle([ckpt EXCEPT !.replan = TRUE, !.next = "plan"], store, run)
                    \/ Settle([ckpt EXCEPT !.plan = @ + 1, !.next = "progress"], store, run)
                    \/ Settle(drift, store, run)
  BY DEF Reconcile, Update, Step, Await, Fails
<1> QED BY <1>1, <1>3, <1>4, BatchSettled

\* The other nodes, up to the draft ...
LEMMA BatchOnTheWay ==
    ASSUME BatchInv(ckpt),
           Router \/ RetrieveMemory \/ ReserveQuota \/ PlanTactics \/ OutlineChapter \/ Write
    PROVE  BatchInv(ckpt')
<1> USE DEF BatchInv, Shaped, Quiet, BatchNodes
<1>1. CASE Router
  <2>1. \A c : Route(c) \notin BatchNodes
    BY Routed
  <2>2. /\ Quiet([ckpt EXCEPT !.next = Route(ckpt)])
        /\ \A c : Quiet([[ckpt EXCEPT !.schema = 5] EXCEPT !.next = Route(c)])
    BY <2>1
  <2>3. \/ Settle([ckpt EXCEPT !.next = Route(ckpt)], db, run)
        \/ \E c : Settle([[ckpt EXCEPT !.schema = 5] EXCEPT !.next = Route(c)], db, run)
    BY <1>1 DEF Router, Update, Step
  <2> QED BY <2>2, <2>3, BatchSettled
<1>2. CASE RetrieveMemory
  <2> DEFINE new == [ckpt EXCEPT !.memory = ckpt.index, !.memFor = ckpt.index,
                                 !.next = "router"]
  <2>1. Quiet(new)
    OBVIOUS
  <2> QED BY <1>2, <2>1, BatchSettled DEF RetrieveMemory, Update, Step
<1>3. CASE ReserveQuota
  <2> DEFINE new == [ckpt EXCEPT !.quotaFor = ckpt.index, !.next = "router"]
  <2>1. Quiet(new)
    OBVIOUS
  <2> QED BY <1>3, <2>1, BatchSettled DEF ReserveQuota, Step
<1>4. CASE PlanTactics
  <2> DEFINE latest == [ckpt EXCEPT !.window = db.window, !.expected = db.window.version]
  <2>1. /\ Quiet([ckpt EXCEPT !.next = "outline"])
        /\ Quiet([latest EXCEPT !.next = "outline"])
        /\ \A w, e : Quiet([ckpt EXCEPT !.window = w, !.expected = e, !.feedback = FALSE,
                                        !.unreconciled = FALSE, !.next = "outline"])
    OBVIOUS
  <2>2. \E new : Quiet(new) /\ Settle(new, db, run)
    BY <1>4, <2>1 DEF PlanTactics, Update, Step
  <2> QED BY <2>2, BatchSettled
<1>5. CASE OutlineChapter
  <2>1. ASSUME NEW next \in {"chapter_plan_review", "outline_review"},
               NEW kind \in {"chapter_plan", "chapter_outline"}, NEW window
        PROVE  /\ Quiet([ckpt EXCEPT !.next = next, !.pending = ckpt.pending])
               /\ Quiet([ckpt EXCEPT !.next = next,
                                     !.pending = Proposal(kind, Chapter, window, TRUE)])
    BY DEF Proposal
  <2>2. \E new : Quiet(new) /\ Settle(new, db, run)
    BY <1>5, <2>1 DEF OutlineChapter, Update, Step
  <2> QED BY <2>2, BatchSettled
<1>6. CASE Write
  <2> DEFINE new == [Redrafted(ckpt) EXCEPT !.attempts = 0, !.checked = FALSE,
                                            !.next = "router"]
  <2>1. Quiet(new)
    BY DEF Redrafted
  <2> QED BY <1>6, <2>1, BatchSettled DEF Write, Step
<1> QED BY <1>1, <1>2, <1>3, <1>4, <1>5, <1>6

\* ... the review of the draft and what comes after ...
LEMMA BatchAfterTheDraft ==
    ASSUME BatchInv(ckpt), Compact \/ Reflect \/ Revise \/ PersistSetup \/ PersistChapter
    PROVE  BatchInv(ckpt')
<1> USE DEF BatchInv, Shaped, Quiet, BatchNodes
<1>1. CASE Compact
  <2>1. Quiet([Redrafted(ckpt) EXCEPT !.checked = TRUE, !.next = "router"])
    BY DEF Redrafted
  <2> QED BY <1>1, <2>1, BatchSettled DEF Compact, Update, Step
<1>2. CASE Reflect
  <2>1. ASSUME NEW ready
        PROVE  Quiet([ckpt EXCEPT !.next = "reflect_review",
                         !.pending = Proposal("reflection", Chapter, NoWindow, ready)])
    BY DEF Proposal
  <2>2. /\ Quiet([ckpt EXCEPT !.next = "reflect_review"])
        /\ \A g : /\ Quiet([ckpt EXCEPT !.gate = g, !.next = "persist"])
                  /\ Quiet([ckpt EXCEPT !.gate = g, !.next = "revise"])
    OBVIOUS
  <2>3. \E new : Quiet(new) /\ Settle(new, db, run)
    BY <1>2, <2>1, <2>2 DEF Reflect, Update, Step
  <2> QED BY <2>3, BatchSettled
<1>3. CASE Revise
  <2>1. /\ Quiet([ckpt EXCEPT !.next = "revise_review", !.pending = ckpt.pending])
        /\ Quiet([ckpt EXCEPT !.next = "revise_review",
                      !.pending = Proposal("revision", Chapter, NoWindow, TRUE)])
    BY DEF Proposal
  <2>2. \E new : Quiet(new) /\ Settle(new, db, run)
    BY <1>3, <2>1 DEF Revise, Update, Step
  <2> QED BY <2>2, BatchSettled
<1>4. CASE PersistSetup
  <2>1. Quiet([ckpt EXCEPT !.next = "progress"])
    OBVIOUS
  <2> QED BY <1>4, <2>1, BatchSettled DEF PersistSetup, Update, Step
<1>5. CASE PersistChapter
  <2>1. \A next \in {"reconcile", "progress"} :
           Quiet([ckpt EXCEPT !.index = @ + 1, !.text = FALSE, !.memory = Unset,
                              !.next = next])
    OBVIOUS
  <2>2. \E new, store : Quiet(new) /\ Settle(new, store, run)
    BY <1>5, <2>1 DEF PersistChapter, Step
  <2> QED BY <2>2, BatchSettled
<1> QED BY <1>1, <1>2, <1>3, <1>4, <1>5

\* ... and the decisions of the user.
LEMMA BatchOtherDecisions ==
    ASSUME BatchInv(ckpt), NEW mode \in {"auto", "manual"},
           \/ ProgressCheck(mode)
           \/ \E decision \in {"accept", "regenerate_outline", "regenerate_tactics"} :
                 ChapterPlanReview(decision, mode)
           \/ \E decision \in {"accept", "regenerate_outline"} : OutlineReview(decision, mode)
           \/ \E decision \in {"accept", "regenerate", "replace", "retry", "revise"} :
                 ReflectReview(decision, mode)
           \/ \E decision \in {"accept", "regenerate", "replace", "revise"} :
                 ReviseReview(decision, mode)
    PROVE  BatchInv(ckpt')
<1> USE DEF BatchInv, Shaped, Quiet, BatchNodes
<1>1. CASE ProgressCheck(mode)
  <2> DEFINE c == [(IF db.chapters < ckpt.index
                    THEN RewindCleanup(ckpt, db.chapters)
                    ELSE ckpt) EXCEPT !.index = db.chapters]
  <2>1. /\ Shaped(c) /\ c.gen = ckpt.gen /\ c.pending = ckpt.pending
    BY DEF RewindCleanup
  <2>2. /\ \/ ckpt' \in {ckpt, [c EXCEPT !.next = "end"]}
           \/ \E store : Settle(Continued(c), store, mode)
           \/ ckpt' = ckpt
    BY <1>1 DEF ProgressCheck, Fails
  <2> HIDE DEF c
  <2>3. Quiet(Continued(c)) /\ Quiet([c EXCEPT !.next = "end"])
    BY <2>1 DEF Continued
  <2> QED BY <2>2, <2>3, BatchSettled, QuietKeeps
<1>2. /\ Shaped(Cleared(ckpt)) /\ Cleared(ckpt).gen = ckpt.gen
      /\ Cleared(ckpt).pending.kind # "novel_plan"
  BY DEF Cleared, NoProposal
<1>3. /\ Shaped(Redrafted(Cleared(ckpt))) /\ Redrafted(Cleared(ckpt)).gen = ckpt.gen
      /\ Redrafted(Cleared(ckpt)).pending.kind # "novel_plan"
  <2> DEFINE c == Cleared(ckpt)
  <2> HIDE DEF c
  <2> QED BY <1>2 DEF Redrafted, c
<1>4. ASSUME NEW decision \in {"accept", "regenerate_outline", "regenerate_tactics"},
             ChapterPlanReview(decision, mode)
      PROVE  BatchInv(ckpt')
  <2> DEFINE c == Cleared(ckpt)
  <2> HIDE DEF c
  <2>1. /\ \A w, e, o : Quiet([c EXCEPT !.next = "router", !.feedback = FALSE, !.window = w,
                                        !.expected = e, !.outline = o])
        /\ Quiet([c EXCEPT !.next = "outline"])
        /\ \A f : Quiet([c EXCEPT !.next = "tactical", !.window = NoWindow, !.feedback = f])
    BY <1>2 DEF c
  <2>2. \/ ckpt' = ckpt
        \/ \E new, store : Quiet(new) /\ Settle(new, store, mode)
    BY <1>4, <2>1 DEF ChapterPlanReview, Fails, c
  <2> QED BY <2>2, BatchSettled
<1>5. ASSUME NEW decision \in {"accept", "regenerate_outline"}, OutlineReview(decision, mode)
      PROVE  BatchInv(ckpt')
  <2> DEFINE c == Cleared(ckpt)
  <2> HIDE DEF c
  <2>1. /\ \A o : Quiet([c EXCEPT !.next = "router", !.outline = o])
        /\ Quiet([c EXCEPT !.next = "outline"])
    BY <1>2 DEF c
  <2>2. \E new, store : Quiet(new) /\ Settle(new, store, mode)
    BY <1>5, <2>1 DEF OutlineReview, c
  <2> QED BY <2>2, BatchSettled
<1>6. ASSUME NEW decision \in {"accept", "regenerate", "replace", "retry", "revise"},
             ReflectReview(decision, mode)
      PROVE  BatchInv(ckpt')
  <2> DEFINE c == Cleared(ckpt)
             d == Redrafted(Cleared(ckpt))
  <2> HIDE DEF c, d
  <2>1. /\ \A next \in {"write", "reflect"} : Quiet([c EXCEPT !.next = next])
        /\ \A next \in {"persist", "revise"} : \A gate :
              Quiet([c EXCEPT !.next = next, !.gate = gate])
        /\ Quiet([d EXCEPT !.next = "reflect"])
    BY <1>2, <1>3 DEF c, d
  <2>2. \E new, store : Quiet(new) /\ Settle(new, store, mode)
    BY <1>6, <2>1 DEF ReflectReview, c, d
  <2> QED BY <2>2, BatchSettled
<1>7. ASSUME NEW decision \in {"accept", "regenerate", "replace", "revise"},
             ReviseReview(decision, mode)
      PROVE  BatchInv(ckpt')
  <2> DEFINE c == Cleared(ckpt)
             d == Redrafted(Cleared(ckpt))
             e == Counted(Redrafted(Cleared(ckpt)))
  <2> HIDE DEF c, d, e
  <2>0. Shaped(e) /\ e.gen = ckpt.gen /\ e.pending.kind # "novel_plan"
    BY <1>3 DEF e, d, Counted
  <2>1. /\ Quiet([e EXCEPT !.next = "reflect"])
        /\ Quiet([e EXCEPT !.next = "persist", !.gate.taken = FALSE])
        /\ Quiet([c EXCEPT !.next = "revise"])
        /\ Quiet([d EXCEPT !.next = "revise"])
    BY <1>2, <1>3, <2>0 DEF c, d
  <2>2. \E new, store : Quiet(new) /\ Settle(new, store, mode)
    BY <1>7, <2>1 DEF ReviseReview, c, d, e
  <2> QED BY <2>2, BatchSettled
<1> QED BY <1>1, <1>4, <1>5, <1>6, <1>7

\* Commands and changes leave the batch that is there.
LEMMA BatchBetweenRuns ==
    ASSUME BatchInv(ckpt), Commands \/ Changes
    PROVE  BatchInv(ckpt')
<1> USE DEF BatchInv, Shaped, Quiet, BatchNodes
<1>1. ASSUME NEW schema
      PROVE  /\ Quiet(ReuseOutline(Seeded(ckpt, schema)))
             /\ Quiet(ReuseOutline([Seeded(ckpt, schema) EXCEPT !.replan = TRUE]))
  <2> DEFINE s == Seeded(ckpt, schema)
             r == [s EXCEPT !.replan = TRUE]
  <2>1. Shaped(s) /\ s.gen = ckpt.gen /\ s.pending = ckpt.pending
    BY DEF Seeded
  <2> HIDE DEF s
  <2>2. Shaped(r) /\ r.gen = ckpt.gen /\ r.pending = ckpt.pending
    BY <2>1
  <2> HIDE DEF r
  <2>3. Quiet(ReuseOutline(s)) /\ Quiet(ReuseOutline(r))
    BY <2>1, <2>2 DEF ReuseOutline
  <2> QED BY <2>3 DEF s, r
<1>2. ASSUME NEW index
      PROVE  Quiet(Rewound(index))
  <2> DEFINE c == RewindCleanup(ckpt, index)
  <2>1. Shaped(c) /\ c.gen = ckpt.gen
    BY DEF RewindCleanup
  <2> HIDE DEF c
  <2>2. Shaped(Cleared(c)) /\ Cleared(c).gen = ckpt.gen
        /\ Cleared(c).pending.kind # "novel_plan"
    BY <2>1 DEF Cleared, NoProposal
  <2> QED BY <2>2 DEF Rewound, c
<1>3. CASE Start \/ Replan
  BY <1>1, <1>3, QuietKeeps DEF Start, Replan, Starts
<1>4. CASE Retry
  <2>1. \A c : Route(c) \notin BatchNodes
    BY Routed
  <2>2. PICK next \in {ckpt.next} \cup {Route(ckpt)} : ckpt' = [ckpt EXCEPT !.next = next]
    BY <1>4 DEF Retry
  <2>3. Quiet(ckpt')
    BY <2>1, <2>2
  <2> QED BY <2>3, QuietKeeps
<1>5. CASE Changes
  BY <1>2, <1>5, QuietKeeps DEF Changes, DeleteFrom, Edit
<1> QED BY <1>3, <1>4, <1>5 DEF Commands

\* Every step, from the lemmas on the nodes.
LEMMA BatchStep ==
    ASSUME BatchInv(ckpt), [Next]_vars
    PROVE  BatchInv(ckpt')
<1>1. ASSUME NEW node, NEW forced, AwaitsReview(node, forced)
      PROVE  BatchInv(ckpt')
  BY <1>1 DEF AwaitsReview, Await, Fails
<1>2. CASE UNCHANGED vars
  BY <1>2 DEF vars
<1>3. CASE Graph
  BY <1>1, <1>3, BatchPlanned, BatchDecided, BatchReconciled, BatchOnTheWay,
     BatchAfterTheDraft, BatchOtherDecisions, Zenon DEF Graph
<1> QED BY <1>2, <1>3, BatchBetweenRuns DEF Next

-----------------------------------------------------------------------------
(* The command that runs, and what steps do to the rows and to the plan *)

Commanded == run \in {"idle", "manual", "auto"}

\* A node ends with the command it ran for, or the command is over.
LEMMA SettledRun ==
    ASSUME NEW new, NEW store, NEW mode, Settle(new, store, mode)
    PROVE  run' \in {mode, "idle"} /\ db' \in {db, store}
BY DEF Settle, Fails

\* Nodes run for a command that is there, and leave one that is.
LEMMA CommandedStep ==
    ASSUME Commanded, [Next]_vars
    PROVE  Commanded'
<1>1. \A mode : mode \in Resumers => mode \in {"auto", "manual"}
  BY DEF Resumers, Commanded, running
<1>2. CASE \/ PlanInitialize \/ PlanVolume \/ PlanFinalize
           \/ Router \/ RetrieveMemory \/ ReserveQuota \/ PlanTactics
           \/ OutlineChapter \/ Write \/ Compact
  BY <1>2, SettledRun
  DEF Commanded, PlanInitialize, PlanVolume, PlanFinalize, Router, RetrieveMemory,
      ReserveQuota, PlanTactics, OutlineChapter, Write, Compact, Update, Step, Await, Fails
<1>3. CASE Reflect \/ Revise \/ PersistSetup \/ PersistChapter \/ Reconcile
  BY <1>3, SettledRun
  DEF Commanded, Reflect, Revise, PersistSetup, PersistChapter, Reconcile, Update, Step,
      Await, Fails
<1>4. ASSUME NEW node, NEW forced, AwaitsReview(node, forced)
      PROVE  Commanded'
  BY <1>4 DEF AwaitsReview, Await, Fails, Commanded
<1>5. ASSUME NEW mode \in {"auto", "manual"}, ProgressCheck(mode)
      PROVE  Commanded'
  BY <1>1, <1>5, SettledRun DEF ProgressCheck, Commanded, Fails
<1>6. ASSUME NEW mode \in {"auto", "manual"},
             NEW decision \in {"accept", "regenerate"}, PlanReview(decision, mode)
      PROVE  Commanded'
  BY <1>6, SettledRun DEF PlanReview, Commanded, Fails
<1>7. ASSUME NEW mode \in {"auto", "manual"},
             NEW decision \in {"accept", "regenerate_outline", "regenerate_tactics"},
             ChapterPlanReview(decision, mode)
      PROVE  Commanded'
  BY <1>7, SettledRun DEF ChapterPlanReview, Commanded, Fails
<1>8. ASSUME NEW mode \in {"auto", "manual"},
             NEW decision \in {"accept", "regenerate_outline"}, OutlineReview(decision, mode)
      PROVE  Commanded'
  BY <1>8, SettledRun DEF OutlineReview, Commanded
<1>9. ASSUME NEW mode \in {"auto", "manual"},
             NEW decision \in {"accept", "regenerate", "replace", "retry", "revise"},
             ReflectReview(decision, mode)
      PROVE  Commanded'
  BY <1>9, SettledRun DEF ReflectReview, Commanded
<1>10. ASSUME NEW mode \in {"auto", "manual"},
              NEW decision \in {"accept", "regenerate", "replace", "revise"},
              ReviseReview(decision, mode)
       PROVE  Commanded'
  BY <1>10, SettledRun DEF ReviseReview, Commanded
<1>11. CASE Graph
  BY <1>2, <1>3, <1>4, <1>5, <1>6, <1>7, <1>8, <1>9, <1>10, <1>11, Zenon DEF Graph
<1>12. CASE Commands
  BY <1>12 DEF Commands, Start, Replan, Retry, Starts, Commanded
<1>13. CASE Changes \/ UNCHANGED vars
  BY <1>13 DEF Changes, DeleteFrom, Edit, vars, Commanded
<1> QED BY <1>11, <1>12, <1>13 DEF Next

\* The tables have a plan and rows of executions.
HasPlan(d) == {"plan", "executions"} \subseteq DOMAIN d

\* They stay.
KeptAside == db'.plan = db.plan /\ db'.executions = db.executions /\ HasPlan(db')

\* Nothing but the acceptance of a plan, the reconciliation, the storing of a
\* chapter and the changes of the user touches the plan or the rows.
LEMMA MostStepsKeep ==
    ASSUME HasPlan(db), [Next]_vars
    PROVE  \/ KeptAside
           \/ PersistChapter \/ Reconcile
           \/ \E mode \in {"auto", "manual"} :
                 \E decision \in {"accept", "regenerate"} : PlanReview(decision, mode)
           \/ Changes
<1>2. ASSUME NEW new, NEW mode, Settle(new, db, mode)
      PROVE  KeptAside
  BY <1>2, SettledRun DEF KeptAside
<1>3. ASSUME NEW new, NEW mode, NEW paid, Settle(new, [db EXCEPT !.paid = paid], mode)
      PROVE  KeptAside
  BY <1>3, SettledRun DEF KeptAside, HasPlan
<1>4. CASE \/ PlanInitialize \/ PlanVolume \/ PlanFinalize
           \/ Router \/ RetrieveMemory \/ PlanTactics \/ OutlineChapter \/ Compact
  BY <1>2, <1>4
  DEF KeptAside, PlanInitialize, PlanVolume, PlanFinalize, Router, RetrieveMemory,
      PlanTactics, OutlineChapter, Compact, Update, Step, Await
<1>5. CASE Reflect \/ Revise \/ PersistSetup
  BY <1>2, <1>5 DEF Reflect, Revise, PersistSetup, Update, Step
<1>6. CASE ReserveQuota \/ Write
  BY <1>2, <1>3, <1>6 DEF ReserveQuota, Write, Step
<1>7. ASSUME NEW node, NEW forced, AwaitsReview(node, forced)
      PROVE  KeptAside
  BY <1>7 DEF AwaitsReview, Await, KeptAside
<1>8. ASSUME NEW mode \in {"auto", "manual"}, ProgressCheck(mode)
      PROVE  KeptAside
  BY <1>2, <1>8 DEF ProgressCheck, KeptAside
<1>9. ASSUME NEW mode \in {"auto", "manual"},
             NEW decision \in {"accept", "regenerate_outline", "regenerate_tactics"},
             ChapterPlanReview(decision, mode)
      PROVE  KeptAside
  <2>1. ASSUME NEW window, NEW key
        PROVE  /\ WithWindow(window, key).plan = db.plan
               /\ WithWindow(window, key).executions = db.executions
               /\ HasPlan(WithWindow(window, key))
    BY DEF WithWindow, HasPlan
  <2>2. ASSUME NEW new, NEW window, NEW key, Settle(new, WithWindow(window, key), mode)
        PROVE  KeptAside
    BY <2>1, <2>2, SettledRun DEF KeptAside
  <2> QED BY <1>2, <1>9, <2>2 DEF ChapterPlanReview, KeptAside
<1>10. ASSUME NEW mode \in {"auto", "manual"},
              \/ \E decision \in {"accept", "regenerate_outline"} :
                    OutlineReview(decision, mode)
              \/ \E decision \in {"accept", "regenerate", "replace", "retry", "revise"} :
                    ReflectReview(decision, mode)
              \/ \E decision \in {"accept", "regenerate", "replace", "revise"} :
                    ReviseReview(decision, mode)
       PROVE  KeptAside
  BY <1>2, <1>10 DEF OutlineReview, ReflectReview, ReviseReview
<1>11. CASE Graph
  BY <1>4, <1>5, <1>6, <1>7, <1>8, <1>9, <1>10, <1>11, Zenon DEF Graph
<1>12. CASE Commands \/ UNCHANGED vars
  BY <1>12 DEF Commands, Start, Replan, Retry, Starts, vars, KeptAside
<1> QED BY <1>11, <1>12 DEF Next

\* A row the reconciliation adds is the row of the chapter that was just stored,
\* and quotes what the gate is about.
LEMMA RowsOfReconcile ==
    ASSUME LoopInv(ckpt, db), Reconcile, ckpt.gate.taken,
           NEW c \in DOMAIN db'.executions \ DOMAIN db.executions
    PROVE  db'.executions[c] = c
<1> DEFINE rows == [d \in DOMAIN db.executions \cup {ckpt.index} |->
                       IF d = ckpt.index THEN ckpt.gate.about ELSE db.executions[d]]
           kept(severity) == WithExecution(Fulfilment, severity)
           bumped == [kept("minor") EXCEPT !.plan = @ + 1, !.status = "accepted"]
<1>1. db \in Tables /\ ckpt.gate.about = ckpt.index
  BY DEF LoopInv, Judged, Reconcile, At
<1>2. ASSUME NEW severity PROVE kept(severity).executions = rows
  BY <1>1 DEF WithExecution, Fulfilment, Tables
<1>3. bumped.executions = rows
  <2>1. bumped.executions = kept("minor").executions
    BY <1>1 DEF WithExecution, Tables
  <2> QED BY <1>2, <2>1
<1> HIDE DEF rows, kept, bumped
<1>4. ASSUME NEW new, NEW store, Step(new, store), store = db \/ store.executions = rows
      PROVE  db'.executions = db.executions \/ db'.executions = rows
  BY <1>4, SettledRun DEF Step
<1>5. \/ UNCHANGED db
      \/ \E new : Step(new, db)
      \/ \E new, severity : Step(new, kept(severity))
      \/ \E new : Step(new, bumped)
  BY DEF Reconcile, Update, Await, kept, bumped
<1>6. db'.executions = db.executions \/ db'.executions = rows
  BY <1>2, <1>3, <1>4, <1>5
<1>7. c \in DOMAIN rows /\ c \notin DOMAIN db.executions /\ db'.executions = rows
  BY <1>6
<1> QED BY <1>1, <1>7 DEF rows

\* A row that is new is the one a reconciliation adds.
LEMMA RowsStep ==
    ASSUME LoopInv(ckpt, db), [Next]_vars, ckpt.gate.taken,
           NEW c \in DOMAIN db'.executions \ DOMAIN db.executions
    PROVE  db'.executions[c] = c
<1>1. db \in Tables
  BY DEF LoopInv
<1>2. ASSUME NEW executions, NEW chapter
      PROVE  /\ DOMAIN Without(executions, chapter) \subseteq DOMAIN executions
             /\ DOMAIN Upto(executions, chapter) \subseteq DOMAIN executions
  BY DEF Without, Upto
<1>3. ~KeptAside
  BY DEF KeptAside
<1>4. ASSUME PersistChapter PROVE FALSE
  <2> DEFINE stored == [db EXCEPT !.chapters = Chapter,
                                  !.executions = Without(@, Chapter),
                                  !.status = IF ckpt.plan > 0 THEN "accepted" ELSE @]
  <2>1. PICK new : Settle(new, stored, run)
    BY <1>4 DEF PersistChapter, Step
  <2>2. stored.executions = Without(db.executions, Chapter)
    BY <1>1 DEF Tables
  <2> HIDE DEF stored
  <2>3. db' \in {db, stored}
    BY <2>1, SettledRun
  <2> QED BY <1>2, <2>2, <2>3
<1>5. ASSUME Changes PROVE FALSE
  <2>1. PICK chapter :
          db'.executions \in {Upto(db.executions, chapter), Without(db.executions, chapter)}
    BY <1>1, <1>5, ZenonT(60) DEF Changes, DeleteFrom, Edit, NeedsReconciliation, Tables
  <2> QED BY <1>2, <2>1
<1>6. ASSUME NEW mode \in {"auto", "manual"},
             NEW decision \in {"accept", "regenerate"}, PlanReview(decision, mode)
      PROVE  FALSE
  <2>1. ASSUME NEW version, NEW key
        PROVE  WithPlan(version, key).executions = db.executions
    BY <1>1 DEF WithPlan, Tables
  <2>2. \/ UNCHANGED db
        \/ \E new : Settle(new, db, mode)
        \/ \E new, version, key : Settle(new, WithPlan(version, key), mode)
    BY <1>6 DEF PlanReview
  <2>3. db'.executions = db.executions
    BY <2>1, <2>2, SettledRun
  <2> QED BY <2>3
<1>7. HasPlan(db)
  BY <1>1 DEF Tables, HasPlan
<1> QED BY <1>3, <1>4, <1>5, <1>6, <1>7, MostStepsKeep, RowsOfReconcile

\* The tables keep them.
LEMMA HasPlanStep ==
    ASSUME HasPlan(db), [Next]_vars
    PROVE  HasPlan(db')
<1> USE DEF HasPlan
<1>1. CASE KeptAside
  BY <1>1 DEF KeptAside
<1>2. CASE PersistChapter
  <2> DEFINE stored == [db EXCEPT !.chapters = Chapter,
                                  !.executions = Without(@, Chapter),
                                  !.status = IF ckpt.plan > 0 THEN "accepted" ELSE @]
  <2>1. PICK new : Settle(new, stored, run)
    BY <1>2 DEF PersistChapter, Step
  <2>2. HasPlan(stored)
    OBVIOUS
  <2> HIDE DEF stored
  <2> QED BY <2>1, <2>2, SettledRun
<1>3. CASE Reconcile
  <2> DEFINE kept(severity) == WithExecution(Fulfilment, severity)
             bumped == [kept("minor") EXCEPT !.plan = @ + 1, !.status = "accepted"]
  <2>1. \A severity : HasPlan(kept(severity))
    BY DEF WithExecution
  <2>2. HasPlan(bumped)
    BY <2>1
  <2>3. \/ UNCHANGED db
        \/ \E new : \/ Settle(new, db, run)
                    \/ \E severity : Settle(new, kept(severity), run)
                    \/ Settle(new, bumped, run)
    BY <1>3 DEF Reconcile, Update, Step, Await
  <2> HIDE DEF kept, bumped
  <2> QED BY <2>1, <2>2, <2>3, SettledRun
<1>4. ASSUME NEW mode \in {"auto", "manual"},
             NEW decision \in {"accept", "regenerate"}, PlanReview(decision, mode)
      PROVE  HasPlan(db')
  <2>1. \A version, key : HasPlan(WithPlan(version, key))
    BY DEF WithPlan
  <2>2. \/ UNCHANGED db
        \/ \E new : Settle(new, db, mode)
        \/ \E new, version, key : Settle(new, WithPlan(version, key), mode)
    BY <1>4 DEF PlanReview
  <2> QED BY <2>1, <2>2, SettledRun
<1>5. CASE Changes
  BY <1>5 DEF Changes, DeleteFrom, Edit, NeedsReconciliation
<1> QED BY <1>1, <1>2, <1>3, <1>4, <1>5, MostStepsKeep

\* While a command runs, a plan is accepted for no batch a human must see.
LEMMA PlanStep ==
    ASSUME BatchInv(ckpt), HasPlan(db), [Next]_vars, running, db'.plan # db.plan
    PROVE  \/ ckpt.gen.mode \in {"initial", "volume_detail"}
           \/ ckpt.next = "reconcile"
<1>1. ~KeptAside
  BY DEF KeptAside
<1>2. ASSUME PersistChapter PROVE FALSE
  <2> DEFINE stored == [db EXCEPT !.chapters = Chapter,
                                  !.executions = Without(@, Chapter),
                                  !.status = IF ckpt.plan > 0 THEN "accepted" ELSE @]
  <2>1. PICK new : Settle(new, stored, run)
    BY <1>2 DEF PersistChapter, Step
  <2>2. stored.plan = db.plan
    BY DEF HasPlan
  <2> HIDE DEF stored
  <2>3. db' \in {db, stored}
    BY <2>1, SettledRun
  <2> QED BY <2>2, <2>3
<1>3. CASE Reconcile
  BY <1>3 DEF Reconcile, At
<1>4. ASSUME Changes PROVE FALSE
  BY <1>4 DEF Changes, DeleteFrom, Edit, MayChange
<1>5. ASSUME NEW mode \in {"auto", "manual"},
             NEW decision \in {"accept", "regenerate"}, PlanReview(decision, mode)
      PROVE  ckpt.gen.mode \in {"initial", "volume_detail"}
  <2>1. ckpt.next = "plan_review" /\ ~ckpt.gen.forced
    BY <1>5 DEF PlanReview, Reviews, Decides
  <2>2. ckpt.gen.mode \notin {"replan", "legacy_upgrade", "none"}
    BY <2>1 DEF BatchInv, Batched
  <2> QED BY <2>2 DEF BatchInv, Modes
<1> QED BY <1>1, <1>2, <1>3, <1>4, <1>5, MostStepsKeep

-----------------------------------------------------------------------------
(* Theorems *)

\* The inductive invariant of the loop, for books whose fresh starts and schema
\* upgrades come between two chapters.
THEOREM LoopInvariant ==
    ASSUME ~MidChapterRestarts
    PROVE  Spec => [](LoopInv(ckpt, db) /\ Commanded)
<1>1. Init => LoopInv(ckpt, db) /\ Commanded
  BY LoopInvInit DEF Init, Commanded
<1>2. LoopInv(ckpt, db) /\ Commanded /\ [Next]_vars => (LoopInv(ckpt, db) /\ Commanded)'
  BY LoopInvStep, CommandedStep
<1> QED BY <1>1, <1>2, PTL DEF Spec

\* The checkpoint and the tables stay typed for books of any length, any number
\* of plan versions and any limits of revisions and restarts; in particular the
\* restarts of a plan and the revisions of a draft stay within their limits.
THEOREM LoopTyped ==
    ASSUME ~MidChapterRestarts
    PROVE  Spec => []TypeOK
<1>1. LoopInv(ckpt, db) /\ Commanded => TypeOK
  BY DEF LoopInv, Commanded, TypeOK
<1> QED BY <1>1, LoopInvariant, PTL

\* A chapter is paid before the planning model is asked about it, and no draft is
\* unpaid, however often nodes fail between their transaction and the checkpoint
\* (router_agent, chapter_quota_node).
THEOREM ChaptersArePaidBeforehand ==
    ASSUME ~MidChapterRestarts
    PROVE  Spec => []PaidBeforehand
<1>1. LoopInv(ckpt, db) => PaidBeforehand
  BY DEF LoopInv, Charged, PaidBeforehand
<1> QED BY <1>1, LoopInvariant, PTL

\* A chapter is planned, written and judged with the memory that was retrieved
\* for its place in the book (memory_retrieval_node, router_agent).
THEOREM ChaptersAreInformed ==
    ASSUME ~MidChapterRestarts
    PROVE  Spec => []Informed
<1>1. LoopInv(ckpt, db) => Informed
  BY DEF LoopInv, Remembers, Sequenced, Informed
<1> QED BY <1>1, LoopInvariant, PTL

\* A gate that says a draft was reviewed was made by the review of that draft
\* when persist_node runs.
THEOREM ReviewsAreOfTheDraft ==
    ASSUME ~MidChapterRestarts
    PROVE  Spec => []ReviewIsOfTheDraft
<1>1. LoopInv(ckpt, db) => ReviewIsOfTheDraft
  BY DEF LoopInv, Judged, ReviewIsOfTheDraft
<1> QED BY <1>1, LoopInvariant, PTL

\* A review finds its own proposal, about the chapter and the draft in hand
\* (decide_proposal), whatever was changed since it was made.
THEOREM DecisionsAreOfTheDraftInHand ==
    ASSUME ~MidChapterRestarts
    PROVE  Spec => []DecidedOnTheDraftInHand
<1>1. LoopInv(ckpt, db) => DecidedOnTheDraftInHand
  BY DEF LoopInv, Sequenced, Proposed, OfTheDraft, DecidedOnTheDraftInHand, Matches
<1> QED BY <1>1, LoopInvariant, PTL

\* A plan whose acceptance was committed and whose checkpoint was lost is
\* accepted again as the version it became (accept_plan).
THEOREM PlansAreAcceptedOnce ==
    ASSUME ~MidChapterRestarts
    PROVE  Spec => []AcceptedOnce
<1>1. LoopInv(ckpt, db) => AcceptedOnce
  BY DEF LoopInv, Proposed, Bound, AcceptedOnce, AcceptPlan
<1> QED BY <1>1, LoopInvariant, PTL

\* A chapter of a planned book is written to the plan and to the tactical window
\* that are the latest of the tables (accept_plan, accept_tactical_plan), whatever
\* was deleted, replanned or accepted without a checkpoint.
THEOREM ChaptersAreWrittenToAcceptedPlans ==
    ASSUME ~MidChapterRestarts
    PROVE  Spec => []WrittenToAcceptedPlan
<1>1. Init => LoopInv(ckpt, db) /\ Tied(ckpt, db)
  BY LoopInvInit, TiedInit
<1>2. LoopInv(ckpt, db) /\ Tied(ckpt, db) /\ [Next]_vars
         => (LoopInv(ckpt, db) /\ Tied(ckpt, db))'
  BY LoopInvStep, TiedStep
<1>3. LoopInv(ckpt, db) /\ Tied(ckpt, db) => WrittenToAcceptedPlan
  <2> SUFFICES ASSUME LoopInv(ckpt, db), Tied(ckpt, db), ckpt.next = "write", Planned(ckpt)
               PROVE  ckpt.outline = [chapter |-> Chapter, plan |-> db.plan,
                                      window |-> db.window.version]
    BY DEF WrittenToAcceptedPlan
  <2>1. Linked(ckpt)
    BY DEF Tied, Prepared
  <2>2. ~ckpt.replan
    BY DEF LoopInv, Sequenced, Accepted
  <2>3. /\ ckpt.outline.chapter = ckpt.index + 1 /\ ckpt.outline.plan = db.plan
        /\ ckpt.outline.window = db.window.version
    BY <2>1, <2>2 DEF Tied, InForce, Linked
  <2>4. ckpt.outline \in Outlines
    BY DEF LoopInv, Checkpoints
  <2> QED BY <2>3, <2>4 DEF Outlines
<1> QED BY <1>1, <1>2, <1>3, PTL DEF Spec

\* A row of an execution quotes the review of its own chapter
\* (reconcile_chapter_node).
THEOREM FulfilmentsAreOfTheChapter ==
    ASSUME ~MidChapterRestarts
    PROVE  Spec => FulfilmentIsOfTheChapter
<1>1. LoopInv(ckpt, db) /\ [Next]_vars =>
         (ckpt.gate.taken =>
             \A c \in DOMAIN db'.executions \ DOMAIN db.executions :
                db'.executions[c] = c)
  BY RowsStep
<1> QED BY <1>1, LoopInvariant, PTL DEF Spec, FulfilmentIsOfTheChapter

\* Auto mode replaces no structure by itself (decide_proposal, force_human),
\* wherever a fresh start, a replan or an upgrade finds the book.
THEOREM NoReplanIsSilent == Spec => NoSilentReplan
<1>1. Init => BatchInv(ckpt) /\ HasPlan(db)
  BY DEF Init, BatchInv, Shaped, Batched, HasPlan, NoGeneration, NoProposal, Modes
<1>2. BatchInv(ckpt) /\ HasPlan(db) /\ [Next]_vars => (BatchInv(ckpt) /\ HasPlan(db))'
  BY BatchStep, HasPlanStep
<1>3. BatchInv(ckpt) /\ HasPlan(db) /\ [Next]_vars =>
         (running /\ db'.plan # db.plan =>
             \/ ckpt.gen.mode \in {"initial", "volume_detail"}
             \/ ckpt.next = "reconcile")
  BY PlanStep
<1> QED BY <1>1, <1>2, <1>3, PTL DEF Spec, NoSilentReplan

=============================================================================
