------------------------ MODULE WorkflowServiceProofs ------------------------
(***************************************************************************)
(* What the requests of a novel guarantee, for any set of requests, keys   *)
(* and kinds and any number of restarts.                                   *)
(*                                                                         *)
(* The argument has three parts: every step of the service is a step of    *)
(* the idempotency store, so that the store's invariant holds here; the    *)
(* gate has one owner (GateInv), while starts and cancels are timely; what *)
(* was done under a key leaves a mark on the key that no claim passes      *)
(* (KeyInv), with no assumption about time.                                *)
(***************************************************************************)
EXTENDS WorkflowService, CommandStoreProofs

\* Every step of the service is one of the store, or leaves it alone.
LEMMA StepIsStoreStep == [Next]_vars => [StoreNext]_storeVars
<1>. SUFFICES ASSUME [Next]_vars
              PROVE  [StoreNext]_storeVars
  OBVIOUS
<1>1. ASSUME NEW r \in Requests, Claim(r)
      PROVE  StoreNext
  BY <1>1 DEF Claim, StoreNext
<1>2. ASSUME NEW r \in Requests,
             \/ ClaimReplyLost(r) \/ NeverStarts(r) \/ RewriteFailsPersisted(r)
             \/ SettleFails(r)
      PROVE  StoreNext
  <2>1. Abandon({r})
    BY <1>2 DEF ClaimReplyLost, NeverStarts, RewriteFailsPersisted, SettleFails
  <2>. QED
    BY <2>1 DEF StoreNext
<1>3. ASSUME NEW r \in Requests, Settle(r)
      PROVE  StoreNext
  BY <1>3 DEF Settle, StoreNext
<1>4. ASSUME NEW r \in Requests,
             \/ StartPreparing(r) \/ StartExclusive(r) \/ Busy(r)
             \/ Prepared(r) \/ PrepareFails(r) \/ BodyStarts(r)
             \/ BodySucceeds(r) \/ BodyFails(r) \/ Close(r)
             \/ DoneCallback(r) \/ CancelTask(r) \/ CancelReturns(r) \/ Disconnect(r)
      PROVE  UNCHANGED storeVars
  BY <1>4 DEF StartPreparing, StartExclusive, Busy, Prepared, PrepareFails, BodyStarts,
              BodySucceeds, BodyFails, Close, DoneCallback, CancelTask, CancelReturns,
              Disconnect
<1>5. ASSUME NEW c \in Commands, LeaseExpires(c)
      PROVE  StoreNext
  BY <1>5 DEF LeaseExpires, StoreNext
<1>6. CASE CancelOrphan \/ GraceElapses
  BY <1>6 DEF CancelOrphan, GraceElapses
<1>7. CASE Crash
  BY <1>7 DEF Crash, StoreNext
<1>8. CASE UNCHANGED vars
  BY <1>8 DEF vars
<1>. QED
  BY <1>1, <1>2, <1>3, <1>4, <1>5, <1>6, <1>7, <1>8 DEF Next, Step

\* The requests use the store as its specification allows: all that is proved
\* of the store holds of the service.
THEOREM ServiceImplementsStore == Spec => StoreSpec
<1>1. Init => StoreInit
  BY DEF Init
<1>. QED
  BY <1>1, StepIsStoreStep, PTL DEF Spec, StoreSpec

COROLLARY ServiceStoreInv == Spec => []StoreInv
  BY ServiceImplementsStore, StoreInvariance, PTL

-----------------------------------------------------------------------------
(* Types. *)

LEMMA GateTypes ==
    ASSUME Gate!GateTypeOK, NEW r \in Requests,
           \/ Gate!TryStart(Done) \/ Gate!StartRegistered(r, Done)
           \/ Gate!Register(r) \/ Gate!FinishAny \/ Gate!Finish(r) \/ LeaveGate(r)
           \/ Gate!GraceElapses \/ UNCHANGED gateVars
    PROVE  Gate!GateTypeOK'
  BY DEF Gate!GateTypeOK, Gate!TryStart, Gate!StartRegistered, Gate!Register,
         Gate!FinishAny, Gate!Finish, LeaveGate, Gate!GraceElapses, gateVars,
         Gate!gateVars

LEMMA TypeStep == TypeOK /\ [Next]_vars => TypeOK'
<1>. SUFFICES ASSUME TypeOK, [Next]_vars
              PROVE  TypeOK'
  OBVIOUS
<1>. USE ServiceAssumption
<1>. DEFINE Others == /\ pc \in [Requests -> Phases]
                      /\ channel \in [Requests -> {"none", "open", "left", "closed"}]
                      /\ cancelled \in SUBSET Requests
                      /\ waiting \in SUBSET Requests
                      /\ effects \in SUBSET Requests
                      /\ crashes \in 0 .. MaxCrashes
<1>1. StoreTypeOK'
  BY StepIsStoreStep, StoreTypeStep DEF TypeOK
<1>2. ASSUME NEW r \in Requests, Step(r)
      PROVE  Gate!GateTypeOK' /\ Others'
  <2>. USE <1>2 DEF TypeOK, Phases, Goto, restVars, cancelVars
  <2>1. CASE Claim(r) \/ ClaimReplyLost(r) \/ Busy(r) \/ BodyStarts(r) \/ NeverStarts(r)
             \/ Settle(r) \/ SettleFails(r)
    <3>1. UNCHANGED gateVars
      BY <2>1 DEF Claim, ClaimReplyLost, Busy, BodyStarts, NeverStarts, Settle, SettleFails
    <3>2. Others'
      BY <2>1 DEF Claim, ClaimReplyLost, Busy, BodyStarts, NeverStarts, Settle, SettleFails,
                  AfterSettlement
    <3>. QED
      BY <3>1, <3>2, GateTypes
  <2>2. CASE StartPreparing(r) \/ StartExclusive(r)
    BY <2>2, GateTypes DEF StartPreparing, StartExclusive
  <2>3. CASE Prepared(r) \/ PrepareFails(r)
    BY <2>3, GateTypes DEF Prepared, PrepareFails
  <2>4. CASE BodySucceeds(r) \/ BodyFails(r) \/ RewriteFailsPersisted(r)
    BY <2>4, GateTypes DEF BodySucceeds, BodyFails, RewriteFailsPersisted
  <2>5. CASE Close(r)
    BY <2>5, GateTypes DEF Close
  <2>. QED
    BY <2>1, <2>2, <2>3, <2>4, <2>5 DEF Step
<1>3. ASSUME NEW r \in Requests,
             DoneCallback(r) \/ CancelTask(r) \/ CancelReturns(r) \/ Disconnect(r)
      PROVE  Gate!GateTypeOK' /\ Others'
  BY <1>3, GateTypes
     DEF TypeOK, DoneCallback, CancelTask, CancelReturns, Disconnect, restVars, cancelVars
<1>4. ASSUME NEW c \in Commands, LeaseExpires(c)
      PROVE  Gate!GateTypeOK' /\ Others'
  BY <1>4 DEF TypeOK, LeaseExpires, restVars, cancelVars, gateVars, Gate!GateTypeOK
<1>5. CASE CancelOrphan \/ GraceElapses
  <2>1. Others'
    BY <1>5 DEF TypeOK, CancelOrphan, GraceElapses, restVars, cancelVars
  <2>2. Gate!GateTypeOK'
    BY <1>5 DEF TypeOK, CancelOrphan, GraceElapses, Gate!FinishAny, Gate!GraceElapses,
                Gate!GateTypeOK
  <2>. QED
    BY <2>1, <2>2, <1>1 DEF TypeOK
<1>6. CASE Crash
  <2>. USE <1>6 DEF Crash, TypeOK
  <2>1. crashes' \in 0 .. MaxCrashes
    OBVIOUS
  <2>2. pc' \in [Requests -> Phases]
    BY DEF Phases
  <2>3. channel' \in [Requests -> {"none", "open", "left", "closed"}]
    OBVIOUS
  <2>4. cancelled' \in SUBSET Requests /\ waiting' \in SUBSET Requests
        /\ effects' \in SUBSET Requests
    OBVIOUS
  <2>5. Gate!GateTypeOK'
    BY DEF Gate!GateTypeOK
  <2>. QED
    BY <1>1, <2>1, <2>2, <2>3, <2>4, <2>5
<1>7. CASE UNCHANGED vars
  BY <1>7 DEF TypeOK, vars, storeVars, gateVars, cancelVars, StoreTypeOK, Gate!GateTypeOK
<1>. QED
  BY <1>1, <1>2, <1>3, <1>4, <1>5, <1>6, <1>7 DEF Next, TypeOK

\* The type invariant of the service.
THEOREM TypeCorrect == Spec => []TypeOK
<1>1. Init => TypeOK
  <2>. SUFFICES ASSUME Init PROVE TypeOK
    OBVIOUS
  <2>1. StoreTypeOK
    BY CommandStoreAssumption DEF Init, StoreInit, StoreTypeOK, Views
  <2>2. Gate!GateTypeOK
    BY DEF Init, Gate!GateInit, Gate!GateTypeOK
  <2>3. crashes \in 0 .. MaxCrashes
    BY ServiceAssumption DEF Init
  <2>. QED
    BY <2>1, <2>2, <2>3 DEF Init, TypeOK, Phases
<1>. QED
  BY <1>1, TypeStep, PTL DEF Spec

-----------------------------------------------------------------------------
(* The owner of the gate.  A stream keeps the gate until its channel is    *)
(* closed, the other kinds until their work ends.                          *)

Owner(r) ==
    \/ Working(r)
    \/ KindOf[r] = "stream" /\ pc[r] \in {"finalizing", "releasing", "closing"}

\* The gate itself does not know its owner: what stands for it is the locked
\* state, the registered task, and while a command is prepared the grace.
GateInv ==
    /\ \A r \in Requests : Owner(r) => locked
    /\ \A r \in Requests : Owner(r) /\ pc[r] # "preparing" => active = r
    /\ \A r \in Requests : pc[r] = "preparing" => active = None /\ ~graceOver
    /\ \A r, s \in Requests : pc[r] = "preparing" /\ Owner(s) => r = s
    /\ active # None => locked
    /\ \A r \in Requests : active = r => Owner(r) \/ pc[r] = "done"
    /\ \A r \in Requests : pc[r] = "scheduled" => KindOf[r] = "stream"

\* No start passes a gate that is owned.
LEMMA StartsAreExclusive ==
    ASSUME TypeOK, GateInv, Gate!CanStart(Done)
    PROVE  \A s \in Requests : ~Owner(s)
  BY ServiceAssumption
     DEF TypeOK, GateInv, Gate!CanStart, Gate!Orphaned, Done, Owner, Working

\* A step of a request that changes neither the gate nor who owns it.
LEMMA OwnerStutters ==
    ASSUME TypeOK, GateInv, UNCHANGED gateVars, NEW r \in Requests, NEW p,
           Goto(r, p), Owner(r)' <=> Owner(r),
           (pc[r] = "preparing") <=> (p = "preparing"),
           p = "scheduled" => KindOf[r] = "stream",
           pc[r] # "done"
    PROVE  GateInv'
  BY DEF TypeOK, GateInv, Owner, Working, gateVars, Goto

\* The same for steps that leave every request where it is.
LEMMA AllStutter ==
    ASSUME GateInv, UNCHANGED <<gateVars, pc>>
    PROVE  GateInv'
  BY DEF GateInv, Owner, Working, gateVars

LEMMA GateStep ==
    ASSUME PreparationIsTimely, CancelIsTimely, TypeOK, GateInv, [Next]_vars
    PROVE  GateInv'
<1>. USE ServiceAssumption
<1>1. ASSUME NEW r \in Requests, Step(r)
      PROVE  GateInv'
  <2>1. CASE Claim(r)
    <3>1. CASE UNCHANGED pc
      BY <3>1, <2>1, AllStutter DEF Claim
    <3>2. CASE Goto(r, "done")
      BY <3>2, <2>1, OwnerStutters DEF Claim, Owner, Working, Goto, TypeOK
    <3>. QED
      BY <2>1, <3>1, <3>2 DEF Claim
  <2>2. CASE ClaimReplyLost(r)
    BY <2>2, OwnerStutters DEF ClaimReplyLost, Owner, Working, Goto, TypeOK
  <2>3. CASE StartPreparing(r)
    <3>1. \A s \in Requests : ~Owner(s)
      BY <2>3, StartsAreExclusive DEF StartPreparing, Gate!TryStart
    <3>2. locked' /\ active' = None /\ ~graceOver'
      BY <2>3 DEF StartPreparing, Gate!TryStart, GateInv
    <3>. QED
      BY <2>3, <3>1, <3>2
         DEF StartPreparing, TypeOK, GateInv, Owner, Working, Goto
  <2>4. CASE StartExclusive(r)
    <3>1. \A s \in Requests : ~Owner(s)
      BY <2>4, StartsAreExclusive DEF StartExclusive, Gate!StartRegistered
    <3>2. locked' /\ active' = r
      BY <2>4 DEF StartExclusive, Gate!StartRegistered
    <3>. QED
      BY <2>4, <3>1, <3>2 DEF StartExclusive, TypeOK, GateInv, Owner, Working, Goto
  <2>5. CASE Busy(r)
    BY <2>5, OwnerStutters DEF Busy, MayStart, Owner, Working, Goto, TypeOK
  <2>6. CASE Prepared(r)
    BY <2>6 DEF Prepared, Gate!Register, TypeOK, GateInv, Owner, Working, Goto
  <2>7. CASE PrepareFails(r)
    BY <2>7 DEF PrepareFails, Gate!FinishAny, TypeOK, GateInv, Owner, Working, Goto
  <2>8. CASE BodyStarts(r)
    BY <2>8, OwnerStutters DEF BodyStarts, Owner, Working, Goto, TypeOK
  <2>9. CASE NeverStarts(r)
    BY <2>9 DEF NeverStarts, TypeOK, GateInv, Owner, Working, Goto, gateVars
  <2>10. ASSUME NEW p \in {"finalizing", "releasing", "done"},
                pc[r] = "running", LeaveGate(r), Goto(r, p),
                p = "done" => KindOf[r] \in {"rewrite", "edit"}
         PROVE  GateInv'
    <3>1. CASE KindOf[r] = "stream"
      BY <3>1, <2>10, OwnerStutters DEF LeaveGate, Owner, Working, Goto, TypeOK
    <3>2. CASE KindOf[r] # "stream"
      <4>1. Owner(r) /\ active = r
        BY <2>10 DEF Owner, Working, GateInv
      <4>2. Gate!FinishAny
        BY <3>2, <4>1, <2>10 DEF LeaveGate, Gate!Finish
      <4>3. \A s \in Requests : Owner(s)' => FALSE
        BY <3>2, <4>1, <2>10 DEF GateInv, Owner, Working, Goto, TypeOK
      <4>. QED
        BY <4>2, <4>3, <2>10
           DEF Gate!FinishAny, TypeOK, GateInv, Owner, Working, Goto
    <3>. QED
      BY <3>1, <3>2
  <2>11. CASE BodySucceeds(r) \/ BodyFails(r) \/ RewriteFailsPersisted(r)
    BY <2>10, <2>11 DEF BodySucceeds, BodyFails, RewriteFailsPersisted, HasCommand
  <2>12. CASE Settle(r) \/ SettleFails(r)
    BY <2>12, OwnerStutters
       DEF Settle, SettleFails, Settling, AfterSettlement, Owner, Working, Goto, TypeOK
  <2>13. CASE Close(r)
    BY <2>13 DEF Close, Gate!Finish, Gate!FinishAny, Gate!gateVars, TypeOK, GateInv, Owner,
                 Working, Goto
  <2>. QED
    BY <1>1, <2>1, <2>2, <2>3, <2>4, <2>5, <2>6, <2>7, <2>8, <2>9, <2>11, <2>12, <2>13
       DEF Step
<1>2. ASSUME NEW r \in Requests, DoneCallback(r) \/ CancelReturns(r)
      PROVE  GateInv'
  <2>1. pc[r] = "done" /\ Gate!Finish(r) /\ UNCHANGED pc
    BY <1>2 DEF DoneCallback, CancelReturns
  <2>. QED
    BY <2>1 DEF Gate!Finish, Gate!FinishAny, Gate!gateVars, TypeOK, GateInv, Owner, Working
<1>3. ASSUME NEW r \in Requests, CancelTask(r) \/ Disconnect(r)
      PROVE  GateInv'
  BY <1>3, AllStutter DEF CancelTask, Disconnect
<1>4. ASSUME NEW c \in Commands, LeaseExpires(c)
      PROVE  GateInv'
  BY <1>4, AllStutter DEF LeaseExpires
<1>5. CASE CancelOrphan
  <2>1. \A s \in Requests : ~Owner(s)
    BY <1>5 DEF CancelOrphan, GateInv, TypeOK
  <2>. QED
    BY <1>5, <2>1 DEF CancelOrphan, Gate!FinishAny, GateInv, Owner, Working
<1>6. CASE GraceElapses
  BY <1>6 DEF GraceElapses, Gate!GraceElapses, GateInv, Owner, Working
<1>7. CASE Crash
  BY <1>7 DEF Crash, GateInv, Owner, Working
<1>8. CASE UNCHANGED vars
  BY <1>8, AllStutter DEF vars
<1>. QED
  BY <1>1, <1>2, <1>3, <1>4, <1>5, <1>6, <1>7, <1>8 DEF Next

LEMMA GateInvariance ==
    ASSUME PreparationIsTimely, CancelIsTimely
    PROVE  Spec => []GateInv
<1>1. Init => GateInv
  BY ServiceAssumption DEF Init, Gate!GateInit, GateInv, Owner, Working
<1>2. TypeOK /\ GateInv /\ [Next]_vars => GateInv'
  BY GateStep
<1>. QED
  BY <1>1, <1>2, TypeCorrect, PTL DEF Spec

\* The exclusion the gate is for: while starts register and cancelled tasks end
\* in time, at most one request works on the novel.
THEOREM Exclusion ==
    ASSUME PreparationIsTimely, CancelIsTimely
    PROVE  Spec => []MutualExclusion
<1>1. GateInv => MutualExclusion
  BY ServiceAssumption DEF GateInv, MutualExclusion, Owner
<1>. QED
  BY <1>1, GateInvariance, PTL

\* No request loses the gate it works behind.
THEOREM GateIsKept ==
    ASSUME PreparationIsTimely, CancelIsTimely
    PROVE  Spec => []NoLostGate
<1>1. GateInv => NoLostGate
  BY DEF GateInv, NoLostGate, Owner
<1>. QED
  BY <1>1, GateInvariance, PTL

\* cancel() reaches every request whose task runs.
THEOREM WorkIsStoppable ==
    ASSUME PreparationIsTimely, CancelIsTimely
    PROVE  Spec => []Stoppable
<1>1. GateInv => Stoppable
  BY DEF GateInv, Stoppable, Owner, Working
<1>. QED
  BY <1>1, GateInvariance, PTL

-----------------------------------------------------------------------------
(* The keys: from here on nothing is assumed about time. *)

\* A request works for its command only while it holds the claim.
WorkIsClaimed ==
    \A r \in Requests :
        HasCommand(r) /\ pc[r] \notin {"idle", "closing", "done"} => view[r] = "held"

\* What was done under a key shows in the key: the token of the request that
\* did it, "applied", or a lapse.
EffectsAreMarked ==
    \A r \in effects :
        HasCommand(r) => /\ pc[r] \in {"finalizing", "closing", "done"}
                         /\ \/ lease[CommandOf[r]] \in {r, Applied}
                            \/ CommandOf[r] \in lapsed

KeyInv == WorkIsClaimed /\ EffectsAreMarked /\ NoRepeat

\* Steps that leave the store alone, add no effect and move requests forward.
LEMMA KeysStutter ==
    ASSUME TypeOK, KeyInv, UNCHANGED <<storeVars, effects>>,
           \A r \in Requests :
              /\ pc'[r] \notin {"idle", "closing", "done"} /\ HasCommand(r) => view[r] = "held"
              /\ pc[r] \in {"finalizing", "closing", "done"} => pc'[r] = pc[r]
    PROVE  KeyInv'
  BY DEF TypeOK, KeyInv, WorkIsClaimed, EffectsAreMarked, NoRepeat, HasCommand, storeVars

\* Requests that give up: the store keeps what it holds.
LEMMA KeysAbandoned ==
    ASSUME TypeOK, KeyInv, NEW S \in SUBSET Requests, Abandon(S), UNCHANGED effects,
           pc' \in [Requests -> Phases],
           \A r \in S : pc'[r] \in {"idle", "closing", "done"},
           \A r \in S : pc[r] # "idle" => pc'[r] # "idle",
           \A r \in Requests \ S : pc'[r] = pc[r]
    PROVE  KeyInv'
<1>1. WorkIsClaimed'
  BY DEF TypeOK, StoreTypeOK, KeyInv, WorkIsClaimed, Abandon, HasCommand
<1>2. EffectsAreMarked' /\ NoRepeat'
  BY DEF TypeOK, KeyInv, EffectsAreMarked, NoRepeat, Abandon, HasCommand
<1>. QED
  BY <1>1, <1>2 DEF KeyInv

LEMMA KeyStep ==
    ASSUME TypeOK, TypeOK', StoreInv, KeyInv, [Next]_vars
    PROVE  KeyInv'
<1>. USE CommandStoreAssumption, ServiceAssumption
<1>1. ASSUME NEW r \in Requests, Claim(r)
      PROVE  KeyInv'
  <2>1. UNCHANGED <<effects, lapsed>> /\ pc[r] = "idle" /\ HasCommand(r)
    BY <1>1 DEF Claim, restVars, ClaimAcquired, ClaimRefused, ClaimAnswered, ClaimUnavailable
  <2>2. \A s \in Requests : s # r => pc'[s] = pc[s] /\ view'[s] = view[s]
    BY <1>1 DEF Claim, Goto, TypeOK, StoreTypeOK, ClaimAcquired, ClaimRefused,
                ClaimAnswered, ClaimUnavailable
  <2>3. pc'[r] \in {"idle", "done"}
    BY <1>1, <2>1 DEF Claim, Goto, TypeOK
  <2>4. \A c \in Commands : lease[c] # Free => lease'[c] = lease[c]
    BY <1>1 DEF Claim, TypeOK, StoreTypeOK, ClaimAcquired, ClaimRefused, ClaimAnswered,
                ClaimUnavailable
  <2>5. WorkIsClaimed'
    BY <2>1, <2>2, <2>3 DEF KeyInv, WorkIsClaimed, HasCommand
  <2>6. EffectsAreMarked'
    BY <2>1, <2>2, <2>3, <2>4 DEF KeyInv, EffectsAreMarked, HasCommand, TypeOK
  <2>. QED
    BY <2>1, <2>5, <2>6 DEF KeyInv, NoRepeat, HasCommand
<1>2. ASSUME NEW r \in Requests, ClaimReplyLost(r) \/ NeverStarts(r) \/ SettleFails(r)
      PROVE  KeyInv'
  <2>1. Abandon({r}) /\ UNCHANGED effects
    BY <1>2 DEF ClaimReplyLost, NeverStarts, SettleFails, restVars
  <2>2. pc'[r] \in {"closing", "done"} /\ \A s \in Requests \ {r} : pc'[s] = pc[s]
    BY <1>2 DEF ClaimReplyLost, NeverStarts, SettleFails, AfterSettlement, Goto, TypeOK
  <2>. QED
    BY <2>1, <2>2, KeysAbandoned DEF TypeOK
<1>3. ASSUME NEW r \in Requests,
             \/ StartPreparing(r) \/ StartExclusive(r) \/ Busy(r) \/ Prepared(r)
             \/ PrepareFails(r) \/ BodyStarts(r) \/ BodyFails(r)
      PROVE  KeyInv'
  <2>1. UNCHANGED <<storeVars, effects>>
    BY <1>3 DEF StartPreparing, StartExclusive, Busy, Prepared, PrepareFails, BodyStarts,
                BodyFails, restVars
  <2>2. \A s \in Requests \ {r} : pc'[s] = pc[s]
    BY <1>3 DEF StartPreparing, StartExclusive, Busy, Prepared, PrepareFails, BodyStarts,
                BodyFails, Goto, TypeOK
  <2>3. pc[r] \in {"idle", "preparing", "scheduled", "running"}
        /\ (HasCommand(r) => view[r] = "held")
    BY <1>3 DEF StartPreparing, StartExclusive, Busy, Prepared, PrepareFails, BodyStarts,
                BodyFails, MayStart, KeyInv, WorkIsClaimed
  <2>. QED
    BY <2>1, <2>2, <2>3, KeysStutter DEF KeyInv, WorkIsClaimed
<1>4. ASSUME NEW r \in Requests, BodySucceeds(r) \/ RewriteFailsPersisted(r)
      PROVE  KeyInv'
  <2>1. /\ pc[r] = "running"
        /\ effects' = effects \cup {r}
        /\ UNCHANGED <<lease, lapsed>>
        /\ \A s \in Requests : pc'[s] # "done" => view'[s] = view[s]
        /\ pc'[r] \in {"finalizing", "done"}
        /\ \A s \in Requests \ {r} : pc'[s] = pc[s]
    BY <1>4 DEF BodySucceeds, RewriteFailsPersisted, Abandon, Goto, TypeOK, StoreTypeOK,
                storeVars
  <2>2. HasCommand(r) => \/ lease[CommandOf[r]] = r
                         \/ CommandOf[r] \in lapsed
    BY <2>1 DEF KeyInv, WorkIsClaimed, StoreInv, HeldOrLapsed
  <2>3. WorkIsClaimed'
    BY <2>1 DEF KeyInv, WorkIsClaimed, HasCommand
  <2>4. EffectsAreMarked'
    BY <2>1, <2>2 DEF KeyInv, EffectsAreMarked, HasCommand, TypeOK
  <2>5. \A s \in effects :
           HasCommand(s) /\ HasCommand(r) /\ CommandOf[s] = CommandOf[r]
             => s = r \/ CommandOf[r] \in lapsed
    BY <2>2 DEF KeyInv, EffectsAreMarked, TypeOK
  <2>6. NoRepeat'
    BY <2>1, <2>5 DEF KeyInv, NoRepeat, HasCommand
  <2>. QED
    BY <2>3, <2>4, <2>6 DEF KeyInv
<1>5. ASSUME NEW r \in Requests, Settle(r)
      PROVE  KeyInv'
  <2>1. /\ UNCHANGED <<effects, lapsed>>
        /\ pc'[r] \in {"closing", "done"}
        /\ \A s \in Requests \ {r} : pc'[s] = pc[s] /\ view'[s] = view[s]
    BY <1>5 DEF Settle, Finalize, Release, Settled, AfterSettlement, Goto, restVars,
                TypeOK, StoreTypeOK
  <2>2. ASSUME NEW s \in effects, HasCommand(s)
        PROVE  lease'[CommandOf[s]] \in {s, Applied} \/ CommandOf[s] \in lapsed
    <3>1. \/ lease[CommandOf[s]] \in {s, Applied}
          \/ CommandOf[s] \in lapsed
      BY <2>2 DEF KeyInv, EffectsAreMarked
    <3>2. CASE Finalize(r)
      BY <3>1, <3>2 DEF Finalize, FinalizeScript, TypeOK, StoreTypeOK
    <3>3. CASE Release(r) /\ pc[r] # "finalizing"
      <4>1. r # s
        BY <1>5, <2>2, <3>3 DEF Settle, Settling, KeyInv, EffectsAreMarked
      <4>. QED
        BY <3>1, <3>3, <4>1 DEF Release, ReleaseScript, TypeOK, StoreTypeOK
    <3>. QED
      BY <1>5, <3>2, <3>3 DEF Settle
  <2>3. WorkIsClaimed'
    BY <2>1 DEF KeyInv, WorkIsClaimed, HasCommand
  <2>4. EffectsAreMarked'
    BY <2>1, <2>2 DEF KeyInv, EffectsAreMarked, HasCommand, TypeOK
  <2>. QED
    BY <2>1, <2>3, <2>4 DEF KeyInv, NoRepeat, HasCommand
<1>6. ASSUME NEW r \in Requests,
             Close(r) \/ DoneCallback(r) \/ CancelTask(r) \/ CancelReturns(r) \/ Disconnect(r)
      PROVE  KeyInv'
  <2>1. UNCHANGED <<storeVars, effects>> /\ (UNCHANGED pc \/ Goto(r, "done"))
    BY <1>6 DEF Close, DoneCallback, CancelTask, CancelReturns, Disconnect, restVars
  <2>2. pc' = pc \/ pc[r] = "closing"
    BY <1>6 DEF Close, DoneCallback, CancelTask, CancelReturns, Disconnect
  <2>. QED
    BY <2>1, <2>2 DEF TypeOK, KeyInv, WorkIsClaimed, EffectsAreMarked, NoRepeat, HasCommand,
                      storeVars, Goto
<1>7. ASSUME NEW c \in Commands, LeaseExpires(c)
      PROVE  KeyInv'
  BY <1>7 DEF LeaseExpires, Expire, restVars, TypeOK, StoreTypeOK, KeyInv, WorkIsClaimed,
              EffectsAreMarked, NoRepeat, HasCommand
<1>8. CASE CancelOrphan \/ GraceElapses
  BY <1>8, KeysStutter DEF CancelOrphan, GraceElapses, restVars, KeyInv, WorkIsClaimed
<1>9. CASE Crash
  <2>1. \A r \in Requests : pc'[r] \in {"idle", "done"} /\ (pc[r] # "idle" => pc'[r] = "done")
    BY <1>9 DEF Crash
  <2>2. Abandon(Requests) /\ UNCHANGED effects
    BY <1>9 DEF Crash
  <2>. QED
    BY <2>1, <2>2, KeysAbandoned DEF TypeOK
<1>10. CASE UNCHANGED vars
  BY <1>10, KeysStutter DEF vars, KeyInv, WorkIsClaimed
<1>. QED
  BY <1>1, <1>2, <1>3, <1>4, <1>5, <1>6, <1>7, <1>8, <1>9, <1>10 DEF Next, Step

LEMMA KeyInvariance == Spec => []KeyInv
<1>1. Init => KeyInv
  BY DEF Init, KeyInv, WorkIsClaimed, EffectsAreMarked, NoRepeat
<1>2. TypeOK /\ TypeOK' /\ StoreInv /\ KeyInv /\ [Next]_vars => KeyInv'
  BY KeyStep
<1>. QED
  BY <1>1, <1>2, TypeCorrect, ServiceStoreInv, PTL DEF Spec

\* Nothing is done twice under one key, unless a lease of the key lapsed.
THEOREM NothingRepeated == Spec => []NoRepeat
  BY KeyInvariance, PTL DEF KeyInv

\* Two requests with one key never work at once while leases outlive the work,
\* however late starts register and cancelled tasks end.
THEOREM TwinsExclude ==
    ASSUME LeaseOutlivesWork
    PROVE  Spec => []TwinExclusion
<1>1. KeyInv /\ StoreInv => TwinExclusion
  BY DEF KeyInv, WorkIsClaimed, StoreInv, HeldOrLapsed, TwinExclusion, Working
<1>. QED
  BY <1>1, KeyInvariance, ServiceStoreInv, PTL

-----------------------------------------------------------------------------
\* However a gate is stolen or freed early, it is never left held for nobody.
THEOREM GateIsNeverForgotten == Spec => []HeldForSomebody
<1>1. Init => HeldForSomebody
  BY DEF Init, Gate!GateInit, HeldForSomebody
<1>2. ASSUME TypeOK, HeldForSomebody, [Next]_vars
      PROVE  HeldForSomebody'
  <2>. USE ServiceAssumption, <1>2
  <2>1. ASSUME NEW r \in Requests, Prepared(r) \/ StartExclusive(r)
        PROVE  active' # None
    BY <2>1 DEF Prepared, StartExclusive, Gate!Register, Gate!StartRegistered
  <2>2. ASSUME NEW r \in Requests, StartPreparing(r)
        PROVE  pc'[r] = "preparing"
    BY <2>2 DEF StartPreparing, Goto, TypeOK
  <2>3. ASSUME NEW r \in Requests,
               \/ PrepareFails(r) \/ BodySucceeds(r) \/ BodyFails(r)
               \/ RewriteFailsPersisted(r) \/ Close(r) \/ DoneCallback(r)
               \/ CancelReturns(r)
        PROVE  \/ locked' = FALSE
               \/ UNCHANGED <<locked, active>>
    BY <2>3 DEF PrepareFails, BodySucceeds, BodyFails, RewriteFailsPersisted, Close,
                DoneCallback, CancelReturns, LeaveGate, Gate!Finish, Gate!FinishAny,
                Gate!gateVars, gateVars
  <2>4. ASSUME NEW r \in Requests,
               \/ BodySucceeds(r) \/ BodyFails(r) \/ RewriteFailsPersisted(r) \/ Close(r)
               \/ DoneCallback(r) \/ CancelReturns(r)
        PROVE  \A s \in Requests : pc[s] = "preparing" => pc'[s] = "preparing"
    BY <2>4 DEF BodySucceeds, BodyFails, RewriteFailsPersisted, Close, DoneCallback,
                CancelReturns, Goto, TypeOK
  <2>5. ASSUME NEW r \in Requests, PrepareFails(r)
        PROVE  locked' = FALSE
    BY <2>5 DEF PrepareFails, Gate!FinishAny
  <2>6. ASSUME NEW r \in Requests,
               \/ Claim(r) \/ ClaimReplyLost(r) \/ Busy(r) \/ BodyStarts(r)
               \/ NeverStarts(r) \/ Settle(r) \/ SettleFails(r) \/ CancelTask(r)
               \/ Disconnect(r)
        PROVE  /\ UNCHANGED gateVars
               /\ \A s \in Requests : pc[s] = "preparing" => pc'[s] = "preparing"
    BY <2>6 DEF Claim, ClaimReplyLost, Busy, MayStart, BodyStarts, NeverStarts, Settle,
                SettleFails, Settling, AfterSettlement, CancelTask, Disconnect, Goto, TypeOK
  <2>7. CASE (\E c \in Commands : LeaseExpires(c)) \/ GraceElapses \/ UNCHANGED vars
    BY <2>7 DEF LeaseExpires, GraceElapses, Gate!GraceElapses, gateVars, vars,
                HeldForSomebody
  <2>8. CASE CancelOrphan \/ Crash
    BY <2>8 DEF CancelOrphan, Gate!FinishAny, Crash, HeldForSomebody
  <2>. QED
    BY <2>1, <2>2, <2>3, <2>4, <2>5, <2>6, <2>7, <2>8
       DEF Next, Step, HeldForSomebody, gateVars
<1>3. TypeOK /\ HeldForSomebody /\ [Next]_vars => HeldForSomebody'
  BY <1>2
<1>. QED
  BY <1>1, <1>3, TypeCorrect, PTL DEF Spec
=============================================================================
