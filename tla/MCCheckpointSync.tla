-------------------------- MODULE MCCheckpointSync --------------------------
(* One novel with a handful of chapters, with a client that polls or without. *)
EXTENDS CheckpointSync

CONSTANT p1

OnePoller == {p1}
NoPoller == {}
=============================================================================
