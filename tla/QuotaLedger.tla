----------------------------- MODULE QuotaLedger -----------------------------
(***************************************************************************)
(* The monthly quota of one tenant (application/quota_service.py,          *)
(* infrastructure/database/identity_repository.py): what the callers of    *)
(* QuotaService.reserve charge, and what an administrator changes          *)
(* meanwhile.                                                              *)
(*                                                                         *)
(* A charge is (workflow_run_id, operation_type, chapter_index): the       *)
(* outline of a run, a chapter of a run, or the rewrite of a command.  Who *)
(* tries again, after an error or a lost answer, names the same charge: a  *)
(* run keeps its id in its checkpoint, a replanning and a rewrite derive   *)
(* theirs from the Idempotency-Key.                                        *)
(*                                                                         *)
(* reserve_quota is one transaction of four statements that read what is   *)
(* committed when they start (READ COMMITTED); the first locks the row of  *)
(* the tenant.                                                             *)
(***************************************************************************)
EXTENDS Naturals, FiniteSets

CONSTANTS
    Requests,       \* calls of reserve that may be under way at once
    Charges,        \* what they may be for
    None,           \* nobody holds the lock; no charge
    Limits,         \* monthly_generation_limit
    MaxPeriod,      \* bound: months
    MaxUpdates      \* bound: updates by an administrator

ASSUME QuotaAssumption ==
    /\ None \notin Requests /\ None \notin Charges
    /\ Limits \subseteq Nat
    /\ MaxPeriod \in Nat
    /\ MaxUpdates \in Nat

Periods == 0 .. MaxPeriod

VARIABLES
    tenant,     \* the row of the tenant; open: active, with AI enabled
    holder,     \* who holds the lock of that row
    ledger,     \* the rows of quota_ledger
    req,        \* how far every call is, and what it has read
    period,     \* the current month in Asia/Shanghai
    updates     \* how often the tenant was updated

vars == <<tenant, holder, ledger, req, period, updates>>

Tenants == [open : BOOLEAN, limit : Limits, unlimited : BOOLEAN]
Entries == [charge : Charges, period : Periods]
Answers == {"none", "charged", "free", "exceeded", "unavailable", "conflict", "lost"}

TypeOK ==
    /\ tenant \in Tenants
    /\ holder \in Requests \cup {None}
    /\ ledger \in SUBSET Entries
    /\ req \in [Requests -> [at : {"idle", "waiting", "locked", "looked", "counted"},
                             charge : Charges \cup {None}, period : Periods,
                             found : BOOLEAN, used : Nat, answer : Answers]]
    /\ period \in Periods
    /\ updates \in 0 .. MaxUpdates

Idle == [at |-> "idle", charge |-> None, period |-> 0,
         found |-> FALSE, used |-> 0, answer |-> "none"]

Init ==
    /\ tenant \in Tenants
    /\ holder = None
    /\ ledger = {}
    /\ req = [r \in Requests |-> Idle]
    /\ period = 0
    /\ updates = 0

Charged(charge) == \E e \in ledger : e.charge = charge

\* quota_usage, which the page of the tenant shows, too.
Used(month) == Cardinality({e \in ledger : e.period = month})

-----------------------------------------------------------------------------
(* reserve *)

\* QuotaService.reserve: the month is the one in which the call is made.
Begin(r, charge) ==
    /\ req[r].at = "idle"
    /\ req' = [req EXCEPT ![r] = [Idle EXCEPT !.at = "waiting", !.charge = charge,
                                              !.period = period]]
    /\ UNCHANGED <<tenant, holder, ledger, period, updates>>

\* A call ends, its transaction committed or rolled back, and with it the lock.
Ends(r, answer) ==
    /\ req' = [req EXCEPT ![r].at = "idle", ![r].answer = answer]
    /\ holder' = IF holder = r THEN None ELSE holder
    /\ UNCHANGED <<tenant, period, updates>>

Refuses(r, answer) == Ends(r, answer) /\ UNCHANGED ledger

\* Variant: the row of the tenant is read without FOR UPDATE.
ReadTenant(r) ==
    /\ req[r].at = "waiting"
    /\ tenant.open
    /\ req' = [req EXCEPT ![r].at = "locked"]
    /\ UNCHANGED <<tenant, holder, ledger, period, updates>>

\* SELECT ... FOR UPDATE of an open tenant.
LockTenant(r) ==
    /\ req[r].at = "waiting"
    /\ holder = None
    /\ tenant.open
    /\ holder' = r
    /\ req' = [req EXCEPT ![r].at = "locked"]
    /\ UNCHANGED <<tenant, ledger, period, updates>>

\* AIUnavailableError
Unavailable(r) ==
    /\ req[r].at = "waiting"
    /\ holder = None
    /\ ~tenant.open
    /\ Refuses(r, "unavailable")

\* Variant: a charge is looked for among those of the month.
LookInTheMonth(r) ==
    /\ req[r].at = "locked"
    /\ req' = [req EXCEPT ![r].at = "looked",
                  ![r].found = [charge |-> req[r].charge, period |-> req[r].period] \in ledger]
    /\ UNCHANGED <<tenant, holder, ledger, period, updates>>

\* The charge is looked for in every month.
Look(r) ==
    /\ req[r].at = "locked"
    /\ req' = [req EXCEPT ![r].at = "looked", ![r].found = Charged(req[r].charge)]
    /\ UNCHANGED <<tenant, holder, ledger, period, updates>>

Count(r) ==
    /\ req[r].at = "looked"
    /\ req' = [req EXCEPT ![r].at = "counted", ![r].used = Used(req[r].period)]
    /\ UNCHANGED <<tenant, holder, ledger, period, updates>>

Counted(r) == req[r].at = "counted"

Exhausted(r) == ~tenant.unlimited /\ req[r].used >= tenant.limit

\* A charge that is there costs nothing, whatever the limit has become.
Repeats(r) ==
    /\ Counted(r)
    /\ req[r].found
    /\ Refuses(r, "free")

\* QuotaExceededError
Exceeded(r) ==
    /\ Counted(r)
    /\ ~req[r].found
    /\ Exhausted(r)
    /\ Refuses(r, "exceeded")

\* The row is inserted as the transaction commits, unless uq_quota_operation
\* has it; the answer may be lost.
Charge(r) ==
    /\ Counted(r)
    /\ ~req[r].found
    /\ ~Exhausted(r)
    /\ IF Charged(req[r].charge)
       THEN Refuses(r, "conflict")
       ELSE /\ ledger' = ledger \cup {[charge |-> req[r].charge, period |-> req[r].period]}
            /\ \E answer \in {"charged", "lost"} : Ends(r, answer)

\* The process dies or the connection breaks; the transaction is rolled back.
Breaks(r) ==
    /\ req[r].at # "idle"
    /\ Refuses(r, "lost")

Reserve(r) ==
    \/ \E charge \in Charges : Begin(r, charge)
    \/ LockTenant(r) \/ Unavailable(r) \/ Look(r) \/ Count(r)
    \/ Repeats(r) \/ Exceeded(r) \/ Charge(r) \/ Breaks(r)

-----------------------------------------------------------------------------
(* What changes beside the calls. *)

\* admin_update_tenant: some of the values; its UPDATE waits for the lock.
UpdateTenant ==
    /\ updates < MaxUpdates
    /\ holder = None
    /\ \E open, unlimited \in BOOLEAN, limit \in Limits :
         tenant' = [open |-> open, limit |-> limit, unlimited |-> unlimited]
    /\ tenant' # tenant
    /\ updates' = updates + 1
    /\ UNCHANGED <<holder, ledger, req, period>>

NextMonth ==
    /\ period < MaxPeriod
    /\ period' = period + 1
    /\ UNCHANGED <<tenant, holder, ledger, req, updates>>

Next ==
    \/ \E r \in Requests : Reserve(r)
    \/ UpdateTenant
    \/ NextMonth

Spec == Init /\ [][Next]_vars

-----------------------------------------------------------------------------
\* Nothing is charged to a tenant that is closed or beyond its limit at that
\* moment, however the calls of its members, the updates of an administrator
\* and the turn of a month interleave.
ChargesAreAllowed ==
    [][ledger' # ledger =>
         /\ tenant.open
         /\ \A e \in ledger' \ ledger :
              tenant.unlimited \/ Cardinality({f \in ledger' : f.period = e.period}) <= tenant.limit]_vars

\* Who repeats what was charged, by itself or by a twin that came first, is not
\* turned away for the quota nor charged again: not at the limit, after it was
\* lowered, nor in another month.
RepeatIsFree ==
    [][\A r \in Requests :
         req[r].at # "idle" /\ req'[r].at = "idle" /\ Charged(req[r].charge) =>
             /\ req'[r].answer \notin {"exceeded", "conflict"}
             /\ ledger' = ledger]_vars
=============================================================================
