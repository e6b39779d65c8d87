-------------------------- MODULE QuotaLedgerProofs --------------------------
(***************************************************************************)
(* What the lock of the tenant's row buys, for any number of calls,        *)
(* charges, months and updates: what a call has read between its lock and  *)
(* its commit is still true at its commit.                                 *)
(***************************************************************************)
EXTENDS QuotaLedger, FiniteSetTheorems, TLAPS

Busy(r) == req[r].at \in {"locked", "looked", "counted"}

\* A call names its charge; one that has the lock is alone with the tenant and
\* the ledger, and what it has read of them is what they are.
ReadIsTrue(r) ==
    /\ req[r].at # "idle" => req[r].charge \in Charges
    /\ Busy(r) => holder = r /\ tenant.open
    /\ req[r].at \in {"looked", "counted"} => req[r].found = Charged(req[r].charge)
    /\ req[r].at = "counted" => req[r].used = Used(req[r].period)

ReadsAreTrue == \A r \in Requests : ReadIsTrue(r)

QuotaInv == TypeOK /\ IsFiniteSet(ledger) /\ ReadsAreTrue

Phases == {"idle", "waiting", "locked", "looked", "counted"}
Calls == [at : Phases, charge : Charges \cup {None}, period : Periods,
          found : BOOLEAN, used : Nat, answer : Answers]

-----------------------------------------------------------------------------
\* One more charge of a month is one more that is counted.
LEMMA OneMore ==
    ASSUME IsFiniteSet(ledger), NEW e, e \notin ledger
    PROVE  /\ IsFiniteSet(ledger \cup {e})
           /\ Used(e.period) \in Nat
           /\ Cardinality({f \in ledger \cup {e} : f.period = e.period}) = Used(e.period) + 1
<1> DEFINE S == {f \in ledger : f.period = e.period}
<1>1. IsFiniteSet(S) /\ Cardinality(S) \in Nat
  BY FS_Subset, FS_CardinalityType
<1>2. {f \in ledger \cup {e} : f.period = e.period} = S \cup {e}
  OBVIOUS
<1>3. Cardinality(S \cup {e}) = Cardinality(S) + 1
  BY <1>1, FS_AddElement
<1> QED
  BY <1>1, <1>2, <1>3, FS_AddElement DEF Used

LEMMA UsedIsNat == ASSUME IsFiniteSet(ledger), NEW month PROVE Used(month) \in Nat
BY FS_Subset, FS_CardinalityType DEF Used

LEMMA QuotaInitially == Init => QuotaInv
<1> SUFFICES ASSUME Init PROVE QuotaInv
  OBVIOUS
<1>1. TypeOK
  BY QuotaAssumption DEF Init, TypeOK, Tenants, Idle, Periods, Answers, Entries
<1>2. IsFiniteSet(ledger)
  BY FS_EmptySet DEF Init
<1>3. ReadsAreTrue
  BY DEF Init, ReadsAreTrue, ReadIsTrue, Idle, Busy
<1> QED
  BY <1>1, <1>2, <1>3 DEF QuotaInv

-----------------------------------------------------------------------------
(* The calls beside the one that moves *)

\* What a call has read stays true as long as nobody but itself moves it, the
\* row or the ledger.
LEMMA OthersKeepTheirReads ==
    ASSUME NEW s \in Requests, ReadIsTrue(s), req'[s] = req[s],
           Busy(s) => holder' = holder /\ tenant' = tenant /\ ledger' = ledger
    PROVE  ReadIsTrue(s)'
BY DEF ReadIsTrue, Busy, Charged, Used

\* Only one call is past its lock.
LEMMA Alone ==
    ASSUME QuotaInv, NEW r \in Requests, NEW s \in Requests, r # s, Busy(r) \/ holder = None
    PROVE  ~Busy(s)
BY QuotaAssumption DEF QuotaInv, ReadsAreTrue, ReadIsTrue

-----------------------------------------------------------------------------
(* The end of a call *)

\* Any end that leaves the ledger alone.
LEMMA RefusalKeeps ==
    ASSUME QuotaInv, NEW r \in Requests, NEW answer \in Answers, Refuses(r, answer)
    PROVE  QuotaInv'
<1> USE DEF Refuses, Ends
<1>1. TypeOK'
  BY QuotaAssumption DEF QuotaInv, TypeOK
<1>2. IsFiniteSet(ledger)'
  BY DEF QuotaInv
<1>3. ASSUME NEW s \in Requests PROVE ReadIsTrue(s)'
  <2>1. CASE s = r
    BY <2>1 DEF QuotaInv, TypeOK, ReadIsTrue, Busy
  <2>2. CASE s # r
    <3>1. req'[s] = req[s] /\ ReadIsTrue(s)
      BY <2>2 DEF QuotaInv, TypeOK, ReadsAreTrue
    <3>2. Busy(s) => holder' = holder
      BY <2>2, <3>1 DEF ReadIsTrue
    <3> QED
      BY <3>1, <3>2, OthersKeepTheirReads
  <2> QED
    BY <2>1, <2>2
<1> QED
  BY <1>1, <1>2, <1>3 DEF QuotaInv, ReadsAreTrue

\* The end that charges.
LEMMA ChargeKeeps ==
    ASSUME QuotaInv, NEW r \in Requests, NEW answer \in Answers,
           Counted(r), Ends(r, answer),
           ledger' = ledger \cup {[charge |-> req[r].charge, period |-> req[r].period]}
    PROVE  QuotaInv'
<1> DEFINE e == [charge |-> req[r].charge, period |-> req[r].period]
<1> USE DEF Ends, Counted
<1>0. req[r] \in Calls /\ req[r].charge \in Charges
  BY DEF QuotaInv, TypeOK, ReadsAreTrue, ReadIsTrue, Calls, Phases
<1>1. e \in Entries
  BY <1>0 DEF Entries, Calls
<1>2. TypeOK'
  BY <1>1, QuotaAssumption DEF QuotaInv, TypeOK
<1>3. IsFiniteSet(ledger)'
  BY FS_AddElement DEF QuotaInv
<1>4. ASSUME NEW s \in Requests PROVE ReadIsTrue(s)'
  <2>1. CASE s = r
    BY <2>1 DEF QuotaInv, TypeOK, ReadIsTrue, Busy
  <2>2. CASE s # r
    <3>1. req'[s] = req[s] /\ ReadIsTrue(s)
      BY <2>2 DEF QuotaInv, TypeOK, ReadsAreTrue
    <3>2. ~Busy(s)
      BY <2>2, Alone DEF Busy
    <3> QED
      BY <3>1, <3>2, OthersKeepTheirReads
  <2> QED
    BY <2>1, <2>2
<1> QED
  BY <1>2, <1>3, <1>4 DEF QuotaInv, ReadsAreTrue

-----------------------------------------------------------------------------
(* The steps of a call *)

\* A step inside the transaction, which leaves everything but the call itself,
\* and the lock it may take, as it is.
LEMMA StepKeeps ==
    ASSUME QuotaInv, NEW r \in Requests, NEW call \in Calls,
           req' = [req EXCEPT ![r] = call], ReadIsTrue(r)',
           holder' = holder \/ (holder = None /\ holder' = r),
           UNCHANGED <<tenant, ledger, period, updates>>
    PROVE  QuotaInv'
<1>1. TypeOK'
  BY QuotaAssumption DEF QuotaInv, TypeOK, Calls, Phases
<1>2. IsFiniteSet(ledger)'
  BY DEF QuotaInv
<1>3. ASSUME NEW s \in Requests PROVE ReadIsTrue(s)'
  <2>1. CASE s # r
    <3>1. req'[s] = req[s] /\ ReadIsTrue(s)
      BY <2>1 DEF QuotaInv, TypeOK, ReadsAreTrue
    <3>2. Busy(s) => holder' = holder
      BY <2>1, <3>1, QuotaAssumption DEF ReadIsTrue
    <3> QED
      BY <3>1, <3>2, OthersKeepTheirReads
  <2> QED
    BY <2>1
<1> QED
  BY <1>1, <1>2, <1>3 DEF QuotaInv, ReadsAreTrue

LEMMA BeginKeeps ==
    ASSUME QuotaInv, NEW r \in Requests, NEW charge \in Charges, Begin(r, charge)
    PROVE  QuotaInv'
<1> DEFINE call == [Idle EXCEPT !.at = "waiting", !.charge = charge, !.period = period]
<1>1. call \in Calls
  BY DEF QuotaInv, TypeOK, Calls, Phases, Idle, Answers
<1>2. req'[r] = call
  BY DEF Begin, QuotaInv, TypeOK
<1>3. ReadIsTrue(r)'
  BY <1>2 DEF ReadIsTrue, Busy, Idle
<1> QED
  BY <1>1, <1>3, StepKeeps DEF Begin

LEMMA LockTenantKeeps ==
    ASSUME QuotaInv, NEW r \in Requests, LockTenant(r)
    PROVE  QuotaInv'
<1> DEFINE call == [req[r] EXCEPT !.at = "locked"]
<1>1. call \in Calls /\ req' = [req EXCEPT ![r] = call] /\ req'[r] = call
  BY DEF LockTenant, QuotaInv, TypeOK, Calls, Phases
<1>2. ReadIsTrue(r)'
  BY <1>1 DEF LockTenant, QuotaInv, TypeOK, ReadsAreTrue, ReadIsTrue, Busy
<1> HIDE DEF call
<1> QED
  BY <1>1, <1>2, StepKeeps DEF LockTenant

LEMMA LookKeeps ==
    ASSUME QuotaInv, NEW r \in Requests, Look(r)
    PROVE  QuotaInv'
<1> DEFINE call == [req[r] EXCEPT !.at = "looked", !.found = Charged(req[r].charge)]
<1>1. Charged(req[r].charge) \in BOOLEAN
  BY DEF Charged
<1>2. call \in Calls /\ req' = [req EXCEPT ![r] = call] /\ req'[r] = call
  BY <1>1 DEF Look, QuotaInv, TypeOK, Calls, Phases
<1>3. ReadIsTrue(r)'
  <2>1. ReadIsTrue(r) /\ req[r].at = "locked" /\ UNCHANGED <<tenant, holder, ledger>>
    BY DEF Look, QuotaInv, ReadsAreTrue
  <2>2. /\ req'[r].at = "looked" /\ req'[r].charge = req[r].charge
        /\ req'[r].found = Charged(req[r].charge)
    BY <1>2 DEF QuotaInv, TypeOK
  <2> QED
    BY <2>1, <2>2 DEF ReadIsTrue, Busy, Charged
<1> HIDE DEF call
<1> QED
  BY <1>2, <1>3, StepKeeps DEF Look

LEMMA CountKeeps ==
    ASSUME QuotaInv, NEW r \in Requests, Count(r)
    PROVE  QuotaInv'
<1> DEFINE call == [req[r] EXCEPT !.at = "counted", !.used = Used(req[r].period)]
<1>1. Used(req[r].period) \in Nat
  BY UsedIsNat DEF QuotaInv
<1>2. call \in Calls /\ req' = [req EXCEPT ![r] = call] /\ req'[r] = call
  BY <1>1 DEF Count, QuotaInv, TypeOK, Calls, Phases
<1>3. ReadIsTrue(r)'
  <2>1. ReadIsTrue(r) /\ req[r].at = "looked" /\ UNCHANGED <<tenant, holder, ledger>>
    BY DEF Count, QuotaInv, ReadsAreTrue
  <2>2. /\ req'[r].at = "counted" /\ req'[r].charge = req[r].charge
        /\ req'[r].found = req[r].found /\ req'[r].period = req[r].period
        /\ req'[r].used = Used(req[r].period)
    BY <1>2 DEF QuotaInv, TypeOK
  <2> QED
    BY <2>1, <2>2 DEF ReadIsTrue, Busy, Charged, Used
<1> HIDE DEF call
<1> QED
  BY <1>2, <1>3, StepKeeps DEF Count

LEMMA ReserveKeeps ==
    ASSUME QuotaInv, NEW r \in Requests, Reserve(r)
    PROVE  QuotaInv'
<1>1. CASE \E charge \in Charges : Begin(r, charge)
  BY <1>1, BeginKeeps
<1>2. CASE LockTenant(r)
  BY <1>2, LockTenantKeeps
<1>3. CASE Look(r)
  BY <1>3, LookKeeps
<1>4. CASE Count(r)
  BY <1>4, CountKeeps
<1>5. CASE Unavailable(r) \/ Repeats(r) \/ Exceeded(r) \/ Breaks(r)
  BY <1>5, RefusalKeeps DEF Unavailable, Repeats, Exceeded, Breaks, Answers
<1>6. CASE Charge(r)
  BY <1>6, RefusalKeeps, ChargeKeeps DEF Charge, Answers
<1> QED
  BY <1>1, <1>2, <1>3, <1>4, <1>5, <1>6 DEF Reserve

-----------------------------------------------------------------------------
LEMMA QuotaStep == QuotaInv /\ [Next]_vars => QuotaInv'
<1> SUFFICES ASSUME QuotaInv, [Next]_vars PROVE QuotaInv'
  OBVIOUS
<1>1. CASE \E r \in Requests : Reserve(r)
  BY <1>1, ReserveKeeps
<1>2. CASE UpdateTenant
  <2> USE <1>2 DEF UpdateTenant
  <2>1. tenant' \in Tenants /\ updates' \in 0 .. MaxUpdates
    BY QuotaAssumption DEF QuotaInv, TypeOK, Tenants
  <2>3. TypeOK' /\ IsFiniteSet(ledger)'
    BY <2>1 DEF QuotaInv, TypeOK
  <2>2. ASSUME NEW s \in Requests PROVE ReadIsTrue(s)'
    <3>1. ReadIsTrue(s) /\ ~Busy(s)
      BY QuotaAssumption DEF QuotaInv, ReadsAreTrue, ReadIsTrue
    <3> QED
      BY <3>1, OthersKeepTheirReads
  <2> QED
    BY <2>3, <2>2 DEF QuotaInv, ReadsAreTrue
<1>3. CASE NextMonth
  <2> USE <1>3 DEF NextMonth
  <2>1. TypeOK' /\ IsFiniteSet(ledger)'
    BY QuotaAssumption DEF QuotaInv, TypeOK, Periods
  <2>2. ASSUME NEW s \in Requests PROVE ReadIsTrue(s)'
    BY OthersKeepTheirReads DEF QuotaInv, ReadsAreTrue
  <2> QED
    BY <2>1, <2>2 DEF QuotaInv, ReadsAreTrue
<1>4. CASE UNCHANGED vars
  BY <1>4 DEF vars, QuotaInv, TypeOK, ReadsAreTrue, ReadIsTrue, Busy, Charged, Used
<1> QED
  BY <1>1, <1>2, <1>3, <1>4 DEF Next

\* The tenant, its ledger and the calls under way keep their types, and what a
\* call has read under the lock is what holds: reserve_quota's FOR UPDATE.
THEOREM QuotaInvariant == Spec => []QuotaInv
BY QuotaInitially, QuotaStep, PTL DEF Spec

\* The types of the ledger and of the calls of reserve_quota.
THEOREM QuotaTyped == Spec => []TypeOK
<1>1. QuotaInv => TypeOK
  BY DEF QuotaInv
<1> QED
  BY <1>1, QuotaInvariant, PTL

\* reserve_quota charges nothing to a tenant that is closed or at its limit.
THEOREM NothingIsOverdrawn == Spec => ChargesAreAllowed
<1>1. QuotaInv /\ [Next]_vars =>
        [ledger' # ledger =>
           /\ tenant.open
           /\ \A e \in ledger' \ ledger :
                tenant.unlimited
                  \/ Cardinality({f \in ledger' : f.period = e.period}) <= tenant.limit]_vars
  <2> SUFFICES ASSUME QuotaInv, Next, ledger' # ledger
               PROVE  /\ tenant.open
                      /\ \A e \in ledger' \ ledger :
                           tenant.unlimited
                             \/ Cardinality({f \in ledger' : f.period = e.period}) <= tenant.limit
    BY DEF vars
  <2>1. PICK r \in Requests : Charge(r) /\ ~Charged(req[r].charge)
    BY DEF Next, Reserve, Begin, LockTenant, Unavailable, Look, Count, Repeats, Exceeded,
           Charge, Breaks, Refuses, UpdateTenant, NextMonth
  <2> DEFINE e == [charge |-> req[r].charge, period |-> req[r].period]
  <2>2. ledger' = ledger \cup {e} /\ e \notin ledger
    BY <2>1 DEF Charge, Charged
  <2>3. tenant.open /\ req[r].used = Used(e.period)
    BY <2>1 DEF Charge, Counted, QuotaInv, ReadsAreTrue, ReadIsTrue, Busy
  <2>4. tenant.unlimited \/ Used(e.period) < tenant.limit
    <3>1. tenant.limit \in Nat /\ Used(e.period) \in Nat
      BY UsedIsNat, QuotaAssumption DEF QuotaInv, TypeOK, Tenants
    <3> QED
      BY <2>1, <2>3, <3>1 DEF Charge, Exhausted
  <2>5. /\ Used(e.period) \in Nat
        /\ Cardinality({f \in ledger \cup {e} : f.period = e.period}) = Used(e.period) + 1
    BY <2>2, OneMore DEF QuotaInv
  <2>6. tenant.limit \in Nat
    BY QuotaAssumption DEF QuotaInv, TypeOK, Tenants
  <2>7. tenant.unlimited \/ Cardinality({f \in ledger' : f.period = e.period}) <= tenant.limit
    BY <2>2, <2>4, <2>5, <2>6
  <2> QED
    BY <2>2, <2>3, <2>7
<1> QED
  BY <1>1, QuotaInvariant, PTL DEF Spec, ChargesAreAllowed

\* A charge that reserve_quota finds is free in every month, at every limit.
THEOREM RepeatsAreFree == Spec => RepeatIsFree
<1>1. QuotaInv /\ [Next]_vars =>
        [\A r \in Requests :
           req[r].at # "idle" /\ req'[r].at = "idle" /\ Charged(req[r].charge) =>
             /\ req'[r].answer \notin {"exceeded", "conflict"}
             /\ ledger' = ledger]_vars
  <2> SUFFICES ASSUME QuotaInv, Next, NEW r \in Requests,
                      req[r].at # "idle", req'[r].at = "idle", Charged(req[r].charge)
               PROVE  /\ req'[r].answer \notin {"exceeded", "conflict"}
                      /\ ledger' = ledger
    BY DEF vars
  <2>1. req \in [Requests -> Calls]
    BY DEF QuotaInv, TypeOK, Calls, Phases
  <2>2. ~(UpdateTenant \/ NextMonth)
    BY DEF UpdateTenant, NextMonth
  <2>3. PICK s \in Requests : Reserve(s)
    BY <2>2 DEF Next
  <2>4. ~LockTenant(s) /\ ~Look(s) /\ ~Count(s)
    BY <2>1 DEF LockTenant, Look, Count, Calls
  <2>7. ~(\E charge \in Charges : Begin(s, charge))
    BY <2>1 DEF Begin, Idle
  <2>8. \E answer : Ends(s, answer)
    BY <2>3, <2>4, <2>7 DEF Reserve, Unavailable, Repeats, Exceeded, Charge, Breaks, Refuses
  <2>9. s = r
    BY <2>1, <2>8 DEF Ends
  <2>5. Counted(r) => req[r].found
    BY DEF Counted, QuotaInv, ReadsAreTrue, ReadIsTrue
  <2>6. Unavailable(r) \/ Repeats(r) \/ Breaks(r)
    BY <2>3, <2>4, <2>5, <2>7, <2>9 DEF Reserve, Exceeded, Charge
  <2> QED
    BY <2>1, <2>6 DEF Unavailable, Repeats, Breaks, Refuses, Ends, Calls
<1> QED
  BY <1>1, QuotaInvariant, PTL DEF Spec, RepeatIsFree
=============================================================================
