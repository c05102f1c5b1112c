---------------------------- MODULE MCStateEmitter -----------------------------
(* Model-checking instance of StateEmitter: objects with a '' and a `user`,  *)
(* which may be missing, a primitive or an object, and the keys 'user.name'  *)
(* and '*', which read as something else than they are.                      *)
EXTENDS StateEmitter

CONSTANTS p, q, undefined

MCNames == {"", "*", "user", "name", "user.name"}
MCSplit == [k \in MCNames |-> IF k = "user.name" THEN <<"user", "name">> ELSE <<k>>]
MCPrimitives == {p, q, undefined}
MCInputs == {[user |-> p], [user |-> [name |-> q]], [k \in {"user.name", "*"} |-> q],
             [k \in {"", "user"} |-> IF k = "" THEN undefined ELSE [name |-> p]]}
MCInitial == [k \in {"", "user"} |-> IF k = "" THEN p ELSE [j \in {"", "name"} |-> p]]
=============================================================================
