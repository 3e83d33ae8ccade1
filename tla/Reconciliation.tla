---------------------------- MODULE Reconciliation ----------------------------
(***************************************************************************)
(* The background tasks that ask providers what became of payments and     *)
(* refunds nobody heard of again. Every API process runs one loop: a batch *)
(* of payment attempts, then a batch of refunds, each of the Limit rows    *)
(* that were written longest ago. Only what is written moves to the end of *)
(* that order, and the two tasks write in different cases: an attempt with *)
(* every answer, a refund only when it is decided.                         *)
(***************************************************************************)
EXTENDS Integers, FiniteSets, SequencesExt

CONSTANTS
  Loops,       \* API processes that run the background tasks
  Attempts,    \* payment attempts that a provider may have captured
  Refunds,     \* refunds a provider has accepted
  Limit,       \* rows per batch
  Unserved,    \* rows whose provider is not configured any more
  Mismatched,  \* rows about which the provider names another amount
  Silent,      \* rows the provider never decides
  MaxMishaps   \* crashes, failed transactions, unanswered buyers

Rows     == Attempts \cup Refunds
Tasks    == {"payments", "refunds"}
RowsOf(t) == IF t = "payments" THEN Attempts ELSE Refunds

(* The rows no task ever writes. Fewer of them than fit in a batch, or they *)
(* keep all the others out for ever. A mismatching or silent attempt is     *)
(* written and moves on; a refund does not.                                *)
Stuck(t) ==
  IF t = "payments" THEN Attempts \cap Unserved
                    ELSE Refunds \cap (Unserved \cup Mismatched \cup Silent)

ASSUME ReconciliationAssumption ==
  /\ Attempts \cap Refunds = {}
  /\ Limit \in Nat \ {0} /\ MaxMishaps \in Nat
  /\ \A t \in Tasks : IsFiniteSet(Stuck(t)) /\ Cardinality(Stuck(t)) < Limit

VARIABLES
  status,    \* new, open (a candidate for reconciliation) or settled
  byAge,     \* the open rows of each task, oldest updatedAt first
  recent,    \* attempts written within the last two minutes
  decided,   \* what the provider has decided
  loop,      \* per process: its task, the rest of the batch, the answer it got
  mishaps

vars == <<status, byAge, recent, decided, loop, mishaps>>

AtRest == [task |-> "none", batch |-> <<>>, answer |-> "none"]

Init ==
  /\ status = [x \in Rows |-> "new"]
  /\ byAge = [t \in Tasks |-> <<>>]
  /\ recent = {} /\ decided = {}
  /\ loop = [l \in Loops |-> AtRest]
  /\ mishaps = 0

-----------------------------------------------------------------------------
(* What a write makes of a row: settled, or open and the youngest of all.   *)
TaskOf(x)    == IF x \in Attempts THEN "payments" ELSE "refunds"
Settle(x) ==
  /\ status' = [status EXCEPT ![x] = "settled"]
  /\ byAge' = [byAge EXCEPT ![TaskOf(x)] = Remove(@, x)]
  /\ recent' = recent \ {x}
KeepOpen(x) ==
  /\ status' = [status EXCEPT ![x] = "open"]
  /\ byAge' = [byAge EXCEPT ![TaskOf(x)] = Append(Remove(@, x), x)]
  /\ recent' = recent \cup ({x} \cap Attempts)

(* A payment is asked for, a refund accepted. *)
Open(x) ==
  /\ status[x] = "new" /\ KeepOpen(x)
  /\ UNCHANGED <<decided, loop, mishaps>>

ProviderDecides(x) ==
  /\ status[x] # "new" /\ x \notin decided \cup Silent
  /\ decided' = decided \cup {x}
  /\ UNCHANGED <<status, byAge, recent, loop, mishaps>>

TwoMinutesPass ==
  /\ recent # {} /\ recent' = {}
  /\ UNCHANGED <<status, byAge, decided, loop, mishaps>>

(* No answer in time is an answer too: UNKNOWN. *)
Answers(x) ==
  {"undecided"} \cup (IF x \in decided \ Mismatched THEN {"decided"}
                      ELSE IF x \in decided THEN {"mismatch"} ELSE {})

(* updateRefundVerification returns the row as it is when the provider has  *)
(* not decided; applyVerification writes an attempt in every case, whatever *)
(* the attempt has become while the provider was asked.                    *)
OnlyDecided(x, answer) == answer = "decided"  \* mutation of IsWritten
IsWritten(x, answer) == x \in Attempts \/ (answer = "decided" /\ status[x] = "open")
Apply(x, answer) ==
  IF ~IsWritten(x, answer) THEN UNCHANGED <<status, byAge, recent>>
  ELSE IF answer = "decided" THEN Settle(x) ELSE KeepOpen(x)

(* A buyer, an administrator or a webhook has the same code ask about an    *)
(* open row. That the provider fails to give them an answer it has is one  *)
(* of the mishaps.                                                         *)
AskedElsewhere(x) ==
  /\ status[x] = "open" /\ x \notin Unserved
  /\ \E answer \in Answers(x) :
       /\ Apply(x, answer)
       /\ mishaps' = IF answer = "undecided" /\ x \in decided THEN mishaps + 1 ELSE mishaps
       /\ mishaps' <= MaxMishaps
  /\ UNCHANGED <<decided, loop>>

-----------------------------------------------------------------------------
(* listReconciliationCandidates, listRefundReconciliationCandidates *)
Candidates(t) ==
  LET due == SelectSeq(byAge[t], LAMBDA x : x \notin recent)
  IN SubSeq(due, 1, IF Len(due) < Limit THEN Len(due) ELSE Limit)

Begin(l, t) ==
  loop' = [loop EXCEPT ![l] = [task |-> t, batch |-> Candidates(t), answer |-> "none"]]

Tick(l) ==
  /\ loop[l].task = "none" /\ Begin(l, "payments")
  /\ UNCHANGED <<status, byAge, recent, decided, mishaps>>

NextTask(l) ==
  /\ loop[l].task # "none" /\ loop[l].batch = <<>>
  /\ IF loop[l].task = "payments" THEN Begin(l, "refunds")
     ELSE loop' = [loop EXCEPT ![l] = AtRest]
  /\ UNCHANGED <<status, byAge, recent, decided, mishaps>>

Row(l)  == Head(loop[l].batch)
Done(l) == loop' = [loop EXCEPT ![l].batch = Tail(@), ![l].answer = "none"]
Asks(l, x) == loop[l].batch # <<>> /\ Row(l) = x /\ loop[l].answer = "none"

(* Nothing to ask, or nobody: the attempt's provider has no adapter, the    *)
(* refund is over already, or reconcileRefund throws and is caught.        *)
Skipped(x) == x \in Unserved \/ (x \in Refunds /\ status[x] # "open")
Skip(l, x) ==
  /\ Asks(l, x) /\ Skipped(x) /\ Done(l)
  /\ UNCHANGED <<status, byAge, recent, decided, mishaps>>

Ask(l, x, answer) ==
  /\ Asks(l, x) /\ ~Skipped(x) /\ answer \in Answers(x)
  /\ loop' = [loop EXCEPT ![l].answer = answer]
  /\ UNCHANGED <<status, byAge, recent, decided, mishaps>>

ApplyAnswer(l) ==
  /\ loop[l].answer # "none" /\ Apply(Row(l), loop[l].answer) /\ Done(l)
  /\ UNCHANGED <<decided, mishaps>>

(* A transaction fails. reconcilePending lets that end the whole batch,     *)
(* reconcilePendingRefunds goes on with the next refund.                   *)
Fail(l) ==
  /\ loop[l].answer # "none" /\ mishaps < MaxMishaps /\ mishaps' = mishaps + 1
  /\ IF loop[l].task = "payments"
     THEN loop' = [loop EXCEPT ![l].batch = <<>>, ![l].answer = "none"]
     ELSE Done(l)
  /\ UNCHANGED <<status, byAge, recent, decided>>

Restart(l) ==
  /\ loop[l] # AtRest /\ mishaps < MaxMishaps /\ mishaps' = mishaps + 1
  /\ loop' = [loop EXCEPT ![l] = AtRest]
  /\ UNCHANGED <<status, byAge, recent, decided>>

LoopStep(l) ==
  \/ Tick(l)
  \/ NextTask(l)
  \/ \E x \in Rows : Skip(l, x) \/ \E answer \in Answers(x) : Ask(l, x, answer)
  \/ ApplyAnswer(l)
  \/ Fail(l)
  \/ Restart(l)

Next ==
  \/ \E x \in Rows : Open(x) \/ ProviderDecides(x) \/ AskedElsewhere(x)
  \/ TwoMinutesPass
  \/ \E l \in Loops : LoopStep(l)

Spec == Init /\ [][Next]_vars

(* The interval fires again and again, a task that has begun goes on, and   *)
(* a provider that is asked about a row again and again once gives the      *)
(* answer it has.                                                          *)
Fairness ==
  /\ WF_vars(TwoMinutesPass)
  /\ \A l \in Loops :
       /\ WF_vars(\/ Tick(l) \/ NextTask(l) \/ ApplyAnswer(l)
                  \/ \E x \in Rows : Skip(l, x) \/ Ask(l, x, "undecided"))
       /\ \A x \in Rows : SF_vars(Ask(l, x, "decided") \/ Ask(l, x, "mismatch"))

FairSpec == Spec /\ Fairness

-----------------------------------------------------------------------------
(* What a provider has decided is settled in the end and stays settled,     *)
(* however many other rows it is silent about or contradicts us on.        *)
DecidedSettle ==
  \A x \in Rows \ (Unserved \cup Mismatched) :
    <>[](x \in decided => status[x] = "settled")
===============================================================================
