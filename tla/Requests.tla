------------------------------- MODULE Requests -------------------------------
(***************************************************************************)
(* Requests at work in the handlers of the API. A handler first reads what *)
(* decides whether the request is refused, and writes in a later step,     *)
(* without a lock on what it read. A call keeps what it has read, and here *)
(* also the rows other calls have written since.                           *)
(***************************************************************************)
EXTENDS Naturals, Sequences, FiniteSets, TLC

CONSTANT Handlers

VARIABLES
  calls,     \* the requests being handled
  left       \* how many requests of each kind may still come

Idle == [at |-> "idle"]

Spend(kind) == left[kind] > 0 /\ left' = [left EXCEPT ![kind] = @ - 1]

Free(h, kind) == calls[h] = Idle /\ left[kind] > 0
Untouched(call) == [f \in {"touched"} \cup DOMAIN call |-> IF f = "touched" THEN {} ELSE call[f]]
Begin(h, kind, call) ==
  /\ Free(h, kind) /\ Spend(kind)
  /\ calls' = [calls EXCEPT ![h] = Untouched(call)]

Continue(h, call) ==
  calls' = [calls EXCEPT ![h] = call] /\ UNCHANGED left

Refuse(h) == Continue(h, Idle)

(* The call is answered, having written these rows. *)
Touched(call, rows) ==
  IF call = Idle THEN Idle ELSE [call EXCEPT !.touched = @ \cup rows]
Commit(h, rows) ==
  /\ calls' = [g \in Handlers |-> IF g = h THEN Idle ELSE Touched(calls[g], rows)]
  /\ UNCHANGED left

Overlapped(h, rows) == calls[h].touched \cap rows # {}
=============================================================================
