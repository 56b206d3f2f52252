------------------------ MODULE MCNotificationStream ------------------------
(* One user's streams.  The runs: two of them, for what holds always; one, *)
(* for the end of its request (no symmetry there: it is a liveness check). *)
EXTENDS NotificationStream, TLC

Symmetry == Permutations(Sessions)
=============================================================================
