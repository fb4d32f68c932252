------------------------- MODULE MCBroadcastStore -------------------------
(* Instances of BroadcastStore for TLC. *)
EXTENDS BroadcastStore

Greetings == {<<72, 73>>, <<79>>}
=============================================================================
