--------------------------- MODULE MCStreamConsumer ----------------------------
(* Model-checking instance of StreamConsumer. *)
EXTENDS StreamConsumer

CONSTANTS greet, part

MCTypes == {greet, part}
OneType == {greet}
AllOutcomes == {"value", "void", "throw"}
=============================================================================
