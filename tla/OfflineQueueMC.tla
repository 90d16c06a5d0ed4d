--------------------------- MODULE OfflineQueueMC ---------------------------
(* OfflineQueue on small instances. *)
EXTENDS OfflineQueue, TLC

Symmetry == Permutations(Item)

\* Posts of a service that is up or down.
UpOrDown == {"down", "ok", "late"}

\* Posts of a service that is up and may answer with HTTP errors.
Answered == {"ok", "refused"}

\* Posts of a service that also answers with HTTP errors.
Anything == AllAnswers
=============================================================================
