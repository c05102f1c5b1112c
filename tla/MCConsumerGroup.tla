---------------------------- MODULE MCConsumerGroup ----------------------------
(* Model-checking instance of ConsumerGroup. *)
EXTENDS ConsumerGroup

CONSTANTS m1, m2

MCMembers == {m1, m2}
OneMember == {m1}
AllOutcomes == {"value", "void", "throw"}
OnlyValues == {"value"}
=============================================================================
