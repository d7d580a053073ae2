----------------------- MODULE MCWorkerSubscriptions -----------------------
(* WorkerSubscriptions for TLC; lookups do not depend on subscriptions, so two of
   the bounds are small. *)
EXTENDS WorkerSubscriptions
=============================================================================
