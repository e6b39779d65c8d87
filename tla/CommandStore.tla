---------------------------- MODULE CommandStore ----------------------------
(***************************************************************************)
(* The Redis idempotency store of workflow commands                        *)
(* (infrastructure/command_store/redis_command_store.py) with the client   *)
(* side that claims and settles a command (api/workflow_commands.py).      *)
(*                                                                         *)
(* A key of the store is a command of one novel.  Its value is "running"   *)
(* with the lease token of one claim, "applied", or there is no key.  A    *)
(* token is a fresh uuid4 per claim and a request claims once, so a token  *)
(* is modelled by the request that made it.                                *)
(*                                                                         *)
(* The horizon of the model is the 24 hours of TERMINAL_TTL_SECONDS: an    *)
(* "applied" value does not expire in it, a "running" one does.            *)
(***************************************************************************)

CONSTANTS
    Requests,           \* HTTP requests, each one claim of the store
    Commands,           \* Idempotency-Key values, per tenant and novel
    CommandOf,          \* the command a request carries
    Free,               \* no key in the store
    Applied,            \* the value "applied"
    LeaseOutlivesWork   \* TRUE: no lease expires under a request that still works
                        \* (the TTL is WORKFLOW_TIMEOUT_SECONDS + 120)

ASSUME CommandStoreAssumption ==
    /\ CommandOf \in [Requests -> Commands]
    /\ Free \notin Requests
    /\ Applied \notin Requests
    /\ Free # Applied
    /\ LeaseOutlivesWork \in BOOLEAN

VARIABLES
    lease,      \* what Redis holds for every command
    view,       \* what the claim of every request has come to
    lapsed      \* history: commands a running lease of which has expired

storeVars == <<lease, view, lapsed>>

Views == {"none", "refused", "held", "in_progress", "already_applied",
          "unavailable", "finalized", "released", "unsettled"}

StoreTypeOK ==
    /\ lease \in [Commands -> Requests \cup {Free, Applied}]
    /\ view \in [Requests -> Views]
    /\ lapsed \in SUBSET Commands

StoreInit ==
    /\ lease = [c \in Commands |-> Free]
    /\ view = [r \in Requests |-> "none"]
    /\ lapsed = {}

-----------------------------------------------------------------------------
(* The claim: SET key running:token NX EX ttl, and a GET when it is refused. *)

\* Variant: SET without NX.
ClaimWithoutNX(r) ==
    /\ view[r] = "none"
    /\ lease' = [lease EXCEPT ![CommandOf[r]] = r]
    /\ view' = [view EXCEPT ![r] = "held"]
    /\ UNCHANGED lapsed

ClaimAcquired(r) ==
    /\ view[r] = "none"
    /\ lease[CommandOf[r]] = Free
    /\ lease' = [lease EXCEPT ![CommandOf[r]] = r]
    /\ view' = [view EXCEPT ![r] = "held"]
    /\ UNCHANGED lapsed

ClaimRefused(r) ==
    /\ view[r] = "none"
    /\ lease[CommandOf[r]] # Free
    /\ view' = [view EXCEPT ![r] = "refused"]
    /\ UNCHANGED <<lease, lapsed>>

\* Variant: any value is taken for "applied".
ClaimAnsweredByExistence(r) ==
    /\ view[r] = "refused"
    /\ view' = [view EXCEPT ![r] =
                  IF lease[CommandOf[r]] # Free THEN "already_applied"
                                                ELSE "in_progress"]
    /\ UNCHANGED <<lease, lapsed>>

\* The value may have changed, or gone, since the refusal.
ClaimAnswered(r) ==
    /\ view[r] = "refused"
    /\ view' = [view EXCEPT ![r] =
                  IF lease[CommandOf[r]] = Applied THEN "already_applied"
                                                   ELSE "in_progress"]
    /\ UNCHANGED <<lease, lapsed>>

\* A RedisError or the 5 s timeout before the SET took effect.
ClaimUnavailable(r) ==
    /\ view[r] = "none"
    /\ view' = [view EXCEPT ![r] = "unavailable"]
    /\ UNCHANGED <<lease, lapsed>>

-----------------------------------------------------------------------------
(* Settlement: two scripts that compare the stored value with the token. *)

FinalizeScript(r) ==
    IF lease[CommandOf[r]] = r
    THEN [lease EXCEPT ![CommandOf[r]] = Applied]
    ELSE lease

ReleaseScript(r) ==
    IF lease[CommandOf[r]] = r
    THEN [lease EXCEPT ![CommandOf[r]] = Free]
    ELSE lease

Settled(r, outcome) ==
    view' = [view EXCEPT ![r] =
               IF lease[CommandOf[r]] = r THEN outcome ELSE "unsettled"]

Finalize(r) ==
    /\ view[r] = "held"
    /\ lease' = FinalizeScript(r)
    /\ Settled(r, "finalized")
    /\ UNCHANGED lapsed

Release(r) ==
    /\ view[r] = "held"
    /\ lease' = ReleaseScript(r)
    /\ Settled(r, "released")
    /\ UNCHANGED lapsed

\* The requests in S stop without settling: the reply to the claim was lost,
\* the settlement never reached Redis, it was cancelled, or the process died.
Abandon(S) ==
    /\ view' = [r \in Requests |->
                  IF r \in S /\ view[r] = "held" THEN "unsettled"
                  ELSE IF r \in S /\ view[r] = "refused" THEN "unavailable"
                  ELSE view[r]]
    /\ UNCHANGED <<lease, lapsed>>

\* The TTL of a running lease.
Expire(c) ==
    /\ lease[c] \in Requests
    /\ LeaseOutlivesWork => view[lease[c]] # "held"
    /\ lease' = [lease EXCEPT ![c] = Free]
    /\ lapsed' = lapsed \cup {c}
    /\ UNCHANGED view

-----------------------------------------------------------------------------
StoreNext ==
    \/ \E r \in Requests : \/ ClaimAcquired(r) \/ ClaimRefused(r)
                           \/ ClaimAnswered(r) \/ ClaimUnavailable(r)
                           \/ Finalize(r) \/ Release(r)
    \/ \E S \in SUBSET Requests : Abandon(S)
    \/ \E c \in Commands : Expire(c)

StoreSpec == StoreInit /\ [][StoreNext]_storeVars

-----------------------------------------------------------------------------
\* Two requests never hold the same command at once: what the NX of claim and
\* the TTL longer than the work are for.
OneHolder ==
    \A r, s \in Requests :
        view[r] = "held" /\ view[s] = "held" /\ CommandOf[r] = CommandOf[s]
            => r = s

\* A command finalized by its holder stays applied, so that no later claim
\* of the same key is granted, whatever expired or was released meanwhile.
FinalizedIsRemembered ==
    \A r \in Requests : view[r] = "finalized" => lease[CommandOf[r]] = Applied

\* "workflow_command_already_applied" is only answered for a command some
\* other request did finalize, although the SET and the GET of claim are two
\* calls and the key may change between them.
TruthfulRefusal ==
    \A r \in Requests :
        view[r] = "already_applied" =>
            \E s \in Requests : CommandOf[s] = CommandOf[r] /\ view[s] = "finalized"

\* The value of a running lease only changes by the settlement of the request
\* whose token it holds or by its TTL: a late settlement of an earlier holder
\* leaves the lease of its successor alone (the token check of both scripts).
OnlyTheHolderSettles ==
    [][\A c \in Commands :
          lease[c] \in Requests /\ lease'[c] # lease[c]
            => view'[lease[c]] \in {"finalized", "released"} \/ Expire(c)]_storeVars

=============================================================================
