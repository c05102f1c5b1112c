--------------------------- MODULE MCDeferralTracker ---------------------------
(* Model-checking instance of DeferralTracker: two ids, and enough records *)
(* for one id to have had all three kinds of entry. *)
EXTENDS DeferralTracker

CONSTANTS i1, i2, o1, o2, o3

MCIds == {i1, i2}
MCObjects == {o1, o2, o3}
=============================================================================
