-------------------------- MODULE CommandStoreProofs --------------------------
(***************************************************************************)
(* What the idempotency store guarantees for any set of requests and keys. *)
(***************************************************************************)
EXTENDS CommandStore, TLAPS

\* Every step of the store keeps its types.
LEMMA StoreTypeStep == StoreTypeOK /\ [StoreNext]_storeVars => StoreTypeOK'
<1>. SUFFICES ASSUME StoreTypeOK, [StoreNext]_storeVars
              PROVE  StoreTypeOK'
  OBVIOUS
<1>. USE CommandStoreAssumption DEF StoreTypeOK, Views
<1>1. ASSUME NEW r \in Requests,
             ClaimAcquired(r) \/ ClaimRefused(r) \/ ClaimAnswered(r)
             \/ ClaimUnavailable(r)
      PROVE  StoreTypeOK'
  BY <1>1 DEF ClaimAcquired, ClaimRefused, ClaimAnswered, ClaimUnavailable
<1>2. ASSUME NEW r \in Requests, Finalize(r)
      PROVE  StoreTypeOK'
  BY <1>2 DEF Finalize, FinalizeScript, Settled
<1>3. ASSUME NEW r \in Requests, Release(r)
      PROVE  StoreTypeOK'
  BY <1>3 DEF Release, ReleaseScript, Settled
<1>4. ASSUME NEW S \in SUBSET Requests, Abandon(S)
      PROVE  StoreTypeOK'
  BY <1>4 DEF Abandon
<1>5. ASSUME NEW c \in Commands, Expire(c)
      PROVE  StoreTypeOK'
  BY <1>5 DEF Expire
<1>6. CASE UNCHANGED storeVars
  BY <1>6 DEF storeVars
<1>. QED
  BY <1>1, <1>2, <1>3, <1>4, <1>5, <1>6 DEF StoreNext

\* The type invariant of the store.
THEOREM StoreTypeCorrect == StoreSpec => []StoreTypeOK
<1>1. StoreInit => StoreTypeOK
  BY CommandStoreAssumption DEF StoreInit, StoreTypeOK, Views
<1>. QED
  BY <1>1, StoreTypeStep, PTL DEF StoreSpec

-----------------------------------------------------------------------------
(* The invariant the guarantees below rest on. *)

\* Where a request that holds a claim has lost its token, the lease lapsed:
\* no other request takes a token away.
HeldOrLapsed ==
    \A r \in Requests :
        view[r] = "held" => \/ lease[CommandOf[r]] = r
                            \/ ~LeaseOutlivesWork /\ CommandOf[r] \in lapsed

\* "applied" and the requests that finalized go together.
AppliedIsFinalized ==
    \A c \in Commands :
        lease[c] = Applied <=> \E r \in Requests : CommandOf[r] = c /\ view[r] = "finalized"

StoreInv == StoreTypeOK /\ HeldOrLapsed /\ AppliedIsFinalized /\ TruthfulRefusal

\* The step of the store's invariant, cited by every module that uses the store.
LEMMA StoreInvStep ==
    StoreInv /\ [StoreNext]_storeVars => HeldOrLapsed' /\ AppliedIsFinalized' /\ TruthfulRefusal'
<1>. SUFFICES ASSUME StoreInv, [StoreNext]_storeVars
              PROVE  HeldOrLapsed' /\ AppliedIsFinalized' /\ TruthfulRefusal'
  OBVIOUS
<1>. USE CommandStoreAssumption
     DEF StoreInv, StoreTypeOK, Views, HeldOrLapsed, AppliedIsFinalized, TruthfulRefusal
<1>1. ASSUME NEW r \in Requests, ClaimAcquired(r)
      PROVE  HeldOrLapsed' /\ AppliedIsFinalized' /\ TruthfulRefusal'
  BY <1>1 DEF ClaimAcquired
<1>2. ASSUME NEW r \in Requests, ClaimRefused(r) \/ ClaimUnavailable(r)
      PROVE  HeldOrLapsed' /\ AppliedIsFinalized' /\ TruthfulRefusal'
  BY <1>2 DEF ClaimRefused, ClaimUnavailable
<1>3. ASSUME NEW r \in Requests, ClaimAnswered(r)
      PROVE  HeldOrLapsed' /\ AppliedIsFinalized' /\ TruthfulRefusal'
  BY <1>3 DEF ClaimAnswered
<1>4. ASSUME NEW r \in Requests, Finalize(r)
      PROVE  HeldOrLapsed' /\ AppliedIsFinalized' /\ TruthfulRefusal'
  BY <1>4 DEF Finalize, FinalizeScript, Settled
<1>5. ASSUME NEW r \in Requests, Release(r)
      PROVE  HeldOrLapsed' /\ AppliedIsFinalized' /\ TruthfulRefusal'
  BY <1>5 DEF Release, ReleaseScript, Settled
<1>6. ASSUME NEW S \in SUBSET Requests, Abandon(S)
      PROVE  HeldOrLapsed' /\ AppliedIsFinalized' /\ TruthfulRefusal'
  BY <1>6 DEF Abandon
<1>7. ASSUME NEW c \in Commands, Expire(c)
      PROVE  HeldOrLapsed' /\ AppliedIsFinalized' /\ TruthfulRefusal'
  BY <1>7 DEF Expire
<1>8. CASE UNCHANGED storeVars
  BY <1>8 DEF storeVars
<1>. QED
  BY <1>1, <1>2, <1>3, <1>4, <1>5, <1>6, <1>7, <1>8 DEF StoreNext

LEMMA StoreInvariance == StoreSpec => []StoreInv
<1>1. StoreInit => HeldOrLapsed /\ AppliedIsFinalized /\ TruthfulRefusal
  BY CommandStoreAssumption
     DEF StoreInit, HeldOrLapsed, AppliedIsFinalized, TruthfulRefusal
<1>. QED
  BY <1>1, StoreTypeCorrect, StoreInvStep, PTL DEF StoreSpec, StoreInv

-----------------------------------------------------------------------------
\* The store's exclusion: while leases outlive the work, a command has one holder.
THEOREM StoreExclusion ==
    ASSUME LeaseOutlivesWork
    PROVE  StoreSpec => []OneHolder
<1>1. StoreInv => OneHolder
  BY DEF StoreInv, HeldOrLapsed, OneHolder
<1>. QED
  BY <1>1, StoreInvariance, PTL

\* A finalized command is never granted again, even if leases lapse.
THEOREM FinalizedForGood == StoreSpec => []FinalizedIsRemembered
<1>1. StoreInv => FinalizedIsRemembered
  BY CommandStoreAssumption
     DEF StoreInv, StoreTypeOK, AppliedIsFinalized, FinalizedIsRemembered
<1>. QED
  BY <1>1, StoreInvariance, PTL

\* "already applied" is only answered for a command that was finalized.
THEOREM RefusalIsTruthful == StoreSpec => []TruthfulRefusal
  BY StoreInvariance, PTL DEF StoreInv

\* A late settlement never touches the lease of a successor.
THEOREM SettlementIsOwned == StoreSpec => OnlyTheHolderSettles
<1>. DEFINE Owned(c) ==
         lease[c] \in Requests /\ lease'[c] # lease[c]
           => view'[lease[c]] \in {"finalized", "released"} \/ Expire(c)
<1>1. ASSUME StoreTypeOK, [StoreNext]_storeVars, NEW c \in Commands
      PROVE  Owned(c) \/ UNCHANGED storeVars
  <2>. USE CommandStoreAssumption, <1>1 DEF StoreTypeOK, Views
  <2>1. ASSUME NEW r \in Requests,
               ClaimAcquired(r) \/ ClaimRefused(r) \/ ClaimAnswered(r)
               \/ ClaimUnavailable(r)
        PROVE  Owned(c)
    BY <2>1 DEF ClaimAcquired, ClaimRefused, ClaimAnswered, ClaimUnavailable
  <2>2. ASSUME NEW r \in Requests, Finalize(r)
        PROVE  Owned(c)
    BY <2>2 DEF Finalize, FinalizeScript, Settled
  <2>3. ASSUME NEW r \in Requests, Release(r)
        PROVE  Owned(c)
    BY <2>3 DEF Release, ReleaseScript, Settled
  <2>4. ASSUME NEW S \in SUBSET Requests, Abandon(S)
        PROVE  Owned(c)
    BY <2>4 DEF Abandon
  <2>5. ASSUME NEW d \in Commands, Expire(d)
        PROVE  Owned(c)
    <3>1. CASE c = d
      BY <3>1, <2>5
    <3>2. CASE c # d
      BY <3>2, <2>5 DEF Expire
    <3>. QED
      BY <3>1, <3>2
  <2>. QED
    BY <2>1, <2>2, <2>3, <2>4, <2>5 DEF StoreNext
<1>2. StoreTypeOK /\ [StoreNext]_storeVars => [\A c \in Commands : Owned(c)]_storeVars
  BY <1>1
<1>. QED
  BY <1>2, StoreTypeCorrect, PTL DEF StoreSpec, OnlyTheHolderSettles
=============================================================================
