-------------------------- MODULE MCWorkflowService --------------------------
(* Three requests of one novel, two of them with the same Idempotency-Key. *)
EXTENDS WorkflowService, TLC

CONSTANTS r1, r2, r3, c1, c2

MCRequests == {r1, r2, r3}
MCCommands == {c1, c2}
MCCommandOf == (r1 :> c1) @@ (r2 :> c1) @@ (r3 :> c2)

\* The kinds of requests that meet.
StreamInvokeEdit == (r1 :> "stream") @@ (r2 :> "invoke") @@ (r3 :> "edit")
RewriteTwinsStream == (r1 :> "rewrite") @@ (r2 :> "rewrite") @@ (r3 :> "stream")
=============================================================================
