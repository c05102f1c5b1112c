---------------------------- MODULE MCStreamAwaiter ----------------------------
(* Model-checking instance of StreamAwaiter: two concurrent calls, each     *)
(* with a record of its own and two more for the responses that come late.  *)
EXTENDS StreamAwaiter

CONSTANTS r1, r2, o1, o2, o3, o4

MCIds == {r1, r2}
MCObjects == {o1, o2, o3, o4}
MCMaxResponses == 2
=============================================================================
