------------------------------- MODULE WorkQueue -------------------------------
(***************************************************************************)
(* What a consumer group promises, without connections, cursors, pending   *)
(* lists or buffers: an item is taken once, by one worker, for good.       *)
(* Items are taken in order; a worker handles what it has in order, one at *)
(* a time; an item is closed only when it is finished; when a worker ends, *)
(* what it has not finished is lost, and a worker that goes on may miss    *)
(* what it took last, before it starts any of it.                          *)
(***************************************************************************)
EXTENDS Integers

CONSTANTS
  Items,      (* numbered in the order of their arrival *)
  Workers,
  Nobody

VARIABLES
  status,     (* how far each item has come                  *)
  holder      (* the worker that has it, until it is closed  *)

wqVars == <<status, holder>>

Init ==
  /\ status = [i \in Items |-> "waiting"]
  /\ holder = [i \in Items |-> Nobody]

Open(i) == status[i] \in {"taken", "started"}

(* Its worker has nothing open that came before it. *)
IsFirst(i) == \A j \in Items : Open(j) /\ holder[j] = holder[i] => i <= j

Becomes(i, to) ==
  /\ status' = [status EXCEPT ![i] = to]
  /\ UNCHANGED holder

(* A worker takes items that come after all that were taken before. *)
Take(w, S) ==
  /\ \A i \in S, j \in Items : status[j] # "waiting" => j < i
  /\ status' = [i \in Items |-> IF i \in S THEN "taken" ELSE status[i]]
  /\ holder' = [i \in Items |-> IF i \in S THEN w ELSE holder[i]]

Start(i) == status[i] = "taken" /\ IsFirst(i) /\ Becomes(i, "started")

(* With a result, or unhandled, for want of a handler. *)
Finish(i) == Open(i) /\ IsFirst(i) /\ Becomes(i, "finished")

Close(i) ==
  /\ status[i] = "finished"
  /\ status' = [status EXCEPT ![i] = "closed"]
  /\ holder' = [holder EXCEPT ![i] = Nobody]

Lose(w) ==
  /\ status' = [i \in Items |-> IF Open(i) /\ holder[i] = w THEN "lost" ELSE status[i]]
  /\ UNCHANGED holder

(* What the worker took from item k on. *)
Miss(w, k) ==
  LET Missed == {i \in Items : Open(i) /\ holder[i] = w /\ k <= i}
  IN /\ \A i \in Missed : status[i] = "taken"
     /\ status' = [i \in Items |-> IF i \in Missed THEN "lost" ELSE status[i]]
     /\ UNCHANGED holder

Next ==
  \/ \E w \in Workers, k \in Items : Miss(w, k)
  \/ \E w \in Workers : Lose(w) \/ \E S \in SUBSET Items : Take(w, S)
  \/ \E i \in Items : Start(i) \/ Finish(i) \/ Close(i)

Spec == Init /\ [][Next]_wqVars
=============================================================================
