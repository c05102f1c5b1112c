---------------------------- MODULE MCStreamReader -----------------------------
(* Model-checking instance of StreamReader: one reader of two streams, or    *)
(* two that share the connection.                                           *)
EXTENDS StreamReader

CONSTANTS s1, s2, i1, i2

MCStreams == {s1, s2}
MCReaders == {i1, i2}
AllKinds == {"ok", "bad"}

(* A second reader comes after the first, where one of the streams stays    *)
(* silent and nothing is malformed, lost or changed: a bound, on what       *)
(* nobody is obliged to do.                                                 *)
SecondIsBounded ==
  reader[i2].stage # "absent" =>
    /\ reader[i1].stage # "absent" /\ changes = 0 /\ losses = 0
    /\ entries[s2] = <<>> /\ ~Contains(entries[s1], "bad")

BoundedSpec == Init /\ [][Next /\ SecondIsBounded']_vars /\ Fairness
=============================================================================
