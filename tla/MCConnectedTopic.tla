--------------------------- MODULE MCConnectedTopic ---------------------------
(* Model-checking instance of ConnectedTopic. *)
EXTENDS ConnectedTopic

CONSTANTS x1, x2

MCCommands == {x1, x2}
=============================================================================
