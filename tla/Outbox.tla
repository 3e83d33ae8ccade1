-------------------------------- MODULE Outbox --------------------------------
(***************************************************************************)
(* From a committed change to the notifications it causes. A change of a   *)
(* return's status writes an outbox event in its transaction. Dispatchers  *)
(* claim due events in batches under a lease, add a job per event to the   *)
(* Redis queue and mark the event PUBLISHED. A consumer runs the job: it   *)
(* reads the return as it is by then and writes an email row and an in-app *)
(* row, each under a dedupe key made of the return and that status.        *)
(*                                                                         *)
(* Every database statement and every Redis command is a step of its own.  *)
(* A lease is named by its holder: a dispatcher works off its batch before *)
(* it claims again, so the attempts and lockedAt the code compares match   *)
(* just when the row is still held from that dispatcher's present batch.   *)
(***************************************************************************)
EXTENDS EmailDelivery, FiniteSets

CONSTANTS
  Events,       \* 1..n, the events a run may write; a status is the number of its event
  Kinds,        \* what is written: a "status" change, a fact nobody subscribes to
                \* ("silent"), an event of a version the worker does not know ("newer")
  Dispatchers,  \* worker processes
  BatchSize, MaxAttempts,
  JobAttempts,  \* runs of a job
  MaxReplays,   \* bound on replays by an operator
  MaxMishaps,   \* bound on crashes of dispatchers and on leases that run out under them
  MayLoseRedis

ASSUME OutboxAssumption ==
  /\ Events \subseteq Nat \ {0} /\ IsFiniteSet(Events) /\ Letters \subseteq Events
  /\ Kinds \subseteq {"status", "silent", "newer"}
  /\ BatchSize \in Nat /\ MaxAttempts \in Nat \ {0} /\ JobAttempts \in Nat \ {0}
  /\ MaxReplays \in Nat /\ MaxMishaps \in Nat /\ MayLoseRedis \in BOOLEAN

VARIABLES
  current,     \* status of the return: the number of its last change
  row,         \* OutboxEvent
  work,        \* the batch a dispatcher works off
  job,         \* the job in Redis and its run
  told,        \* statuses with an in-app notification
  replays, mishaps, lost

dispatch == <<row, work>>
bounds   == <<replays, mishaps, lost>>
outbox   == <<current, dispatch, job, told, bounds>>

NoRow  == [kind |-> "none", status |-> "NONE", tries |-> 0, due |-> FALSE, holder |-> "nobody"]
NoJob  == [state |-> "none", saw |-> 0, runs |-> 0]
NoWork == [step |-> "next", todo |-> {}, now |-> 0]
Written(e) == row[e] # NoRow

OutboxInit ==
  /\ current = 0
  /\ row = [e \in Events |-> NoRow]
  /\ work = [d \in Dispatchers |-> NoWork]
  /\ job = [e \in Events |-> NoJob]
  /\ told = {}
  /\ replays = 0 /\ mishaps = 0 /\ lost = FALSE

(* A transaction moves the return on, or does something else, and writes an *)
(* event. The COMPLETED that follows a refund is no such change: the code   *)
(* writes it without an event, and refund.succeeded announces it.          *)
WriteEvent(e, k) ==
  /\ ~Written(e) /\ \A p \in Events : p < e => Written(p)
  /\ row' = [row EXCEPT ![e] = [kind |-> k, status |-> "PENDING", tries |-> 0, due |-> TRUE,
                                holder |-> "nobody"]]
  /\ current' = IF k = "status" THEN e ELSE current
  /\ UNCHANGED <<delivery, work, job, told, bounds>>

-----------------------------------------------------------------------------
(* The dispatcher. *)

(* `due`: availableAt has come, or the lease is older than its timeout. *)
ClaimableBelowMax(e) == row[e].due /\ row[e].tries < MaxAttempts  \* mutation of Claimable
Claimable(e) ==
  /\ row[e].due
  /\ \/ row[e].status \in {"PENDING", "FAILED"} /\ row[e].tries < MaxAttempts
     \/ row[e].status = "PROCESSING" /\ row[e].tries <= MaxAttempts

(* Taking over a stale lease is not another attempt. *)
TakeoverCounts(e)     == row[e].tries + 1  \* mutation of AttemptsAfterClaim
AttemptsAfterClaim(e) ==
  IF row[e].status = "PROCESSING" THEN row[e].tries ELSE row[e].tries + 1

ClaimBatch(d, B) ==
  /\ work[d] = NoWork
  /\ B # {} /\ Cardinality(B) <= BatchSize /\ \A e \in B : Claimable(e)
  /\ row' = [e \in Events |->
       IF e \notin B THEN row[e]
       ELSE [row[e] EXCEPT !.status = "PROCESSING", !.due = FALSE, !.holder = d,
                           !.tries = AttemptsAfterClaim(e)]]
  /\ work' = [work EXCEPT ![d] = [step |-> "next", todo |-> B, now |-> 0]]
  /\ UNCHANGED <<delivery, current, job, told, bounds>>

AnyLease(d, e)   == TRUE  \* mutation of HoldsLease
HoldsLease(d, e) == row[e].status = "PROCESSING" /\ row[e].holder = d

(* Adding a job that is there already, in whatever state, changes nothing. *)
AddedOncePerReturn(e) ==  \* mutation of Added
  IF row[e].kind = "status" /\ \A p \in Events : job[p].state \in {"none", "lost"}
  THEN [job EXCEPT ![e] = [NoJob EXCEPT !.state = "waiting"]] ELSE job
Added(e) ==
  IF row[e].kind = "status" /\ job[e].state \in {"none", "lost"}
  THEN [job EXCEPT ![e] = [NoJob EXCEPT !.state = "waiting"]] ELSE job

AddJobs(d, e) ==
  /\ work[d].step = "next" /\ e \in work[d].todo /\ row[e].kind # "newer"
  /\ job' = Added(e)
  /\ work' = [work EXCEPT ![d] = [step |-> "mark", todo |-> @.todo \ {e}, now |-> e]]
  /\ UNCHANGED <<delivery, current, row, told, bounds>>

(* Redis does not answer; the job may be there nevertheless. *)
AddFails(d, e) ==
  /\ work[d].step = "next" /\ e \in work[d].todo /\ row[e].kind = "status"
  /\ job' \in {job, Added(e)}
  /\ work' = [work EXCEPT ![d] = [step |-> "fail", todo |-> @.todo \ {e}, now |-> e]]
  /\ UNCHANGED <<delivery, current, row, told, bounds>>

Published(e) == [row EXCEPT ![e] = [@ EXCEPT !.status = "PUBLISHED", !.holder = "nobody"]]

MarkPublished(d) ==
  LET e == work[d].now IN
  /\ work[d].step = "mark" /\ HoldsLease(d, e)
  /\ row' = Published(e)
  /\ work' = [work EXCEPT ![d] = [step |-> "next", todo |-> @.todo, now |-> 0]]
  /\ UNCHANGED <<delivery, current, job, told, bounds>>

(* The lease was taken away, the statement fails, or its answer is lost     *)
(* after it was committed: all are caught.                                 *)
MarkPublishedFails(d) ==
  LET e == work[d].now IN
  /\ work[d].step = "mark"
  /\ \/ row' = row
     \/ HoldsLease(d, e) /\ row' = Published(e)
  /\ work' = [work EXCEPT ![d].step = "fail"]
  /\ UNCHANGED <<delivery, current, job, told, bounds>>

MarkRetryableFailure(d) ==
  LET e == work[d].now IN
  /\ work[d].step = "fail" /\ HoldsLease(d, e)
  /\ row' = [row EXCEPT ![e] = [@ EXCEPT !.status = "FAILED", !.due = FALSE, !.holder = "nobody"]]
  /\ work' = [work EXCEPT ![d] = [step |-> "next", todo |-> @.todo, now |-> 0]]
  /\ UNCHANGED <<delivery, current, job, told, bounds>>

MarkPermanentFailure(d, e) ==
  /\ work[d].step = "next" /\ e \in work[d].todo /\ row[e].kind = "newer" /\ HoldsLease(d, e)
  /\ row' = [row EXCEPT ![e] = [@ EXCEPT !.status = "FAILED", !.tries = MaxAttempts,
                                         !.due = FALSE, !.holder = "nobody"]]
  /\ work' = [work EXCEPT ![d].todo = @ \ {e}]
  /\ UNCHANGED <<delivery, current, job, told, bounds>>

(* A failure of a row that is held no more is thrown out of the loop: the   *)
(* rest of the batch stays PROCESSING until its lease runs out.            *)
AbandonBatch(d) ==
  /\ \/ work[d].step = "fail" /\ ~HoldsLease(d, work[d].now)
     \/ /\ work[d].step = "next"
        /\ \E e \in work[d].todo : row[e].kind = "newer" /\ ~HoldsLease(d, e)
  /\ work' = [work EXCEPT ![d] = NoWork]
  /\ UNCHANGED <<delivery, current, row, job, told, bounds>>

(* The process dies, or the database fails in the catch block. *)
Die(d) ==
  /\ work[d] # NoWork /\ mishaps < MaxMishaps
  /\ work' = [work EXCEPT ![d] = NoWork]
  /\ mishaps' = mishaps + 1
  /\ UNCHANGED <<delivery, current, row, job, told, replays, lost>>

BackoffOver(e) ==
  /\ row[e].status = "FAILED" /\ row[e].tries < MaxAttempts /\ ~row[e].due
  /\ row' = [row EXCEPT ![e].due = TRUE]
  /\ UNCHANGED <<delivery, current, work, job, told, bounds>>

AtWorkOn(d, e) == e \in work[d].todo \/ e = work[d].now
LeaseRunsOut(e) ==
  LET alive == \E d \in Dispatchers : row[e].holder = d /\ AtWorkOn(d, e) IN
  /\ row[e].status = "PROCESSING" /\ ~row[e].due
  /\ alive => mishaps < MaxMishaps
  /\ row' = [row EXCEPT ![e].due = TRUE]
  /\ mishaps' = IF alive THEN mishaps + 1 ELSE mishaps
  /\ UNCHANGED <<delivery, current, work, job, told, replays, lost>>

(* An operator replays a FAILED event. *)
Replay(e) ==
  /\ row[e].status = "FAILED" /\ replays < MaxReplays
  /\ row' = [row EXCEPT ![e] = [@ EXCEPT !.status = "PENDING", !.tries = 0, !.due = TRUE]]
  /\ replays' = replays + 1
  /\ UNCHANGED <<delivery, current, work, job, told, mishaps, lost>>

-----------------------------------------------------------------------------
(* The queue and its consumers. *)

RedisLost ==
  /\ MayLoseRedis /\ ~lost
  /\ lost' = TRUE
  /\ job' = [e \in Events |-> IF job[e].state = "none" THEN NoJob ELSE [NoJob EXCEPT !.state = "lost"]]
  /\ UNCHANGED <<delivery, current, dispatch, told, replays, mishaps>>

(* An operator rebuilds the jobs of published events. *)
Recover(e) ==
  /\ lost /\ row[e].status = "PUBLISHED"
  /\ job' = Added(e) /\ job' # job
  /\ UNCHANGED <<delivery, current, dispatch, told, bounds>>

ReadAggregate(e) ==
  /\ job[e].state = "waiting"
  /\ job' = [job EXCEPT ![e].state = "email", ![e].saw = current]
  /\ UNCHANGED <<delivery, current, dispatch, told, bounds>>

PersistEmail(e) ==
  LET s == job[e].saw IN
  /\ job[e].state = "email"
  /\ mail' = [l \in Letters |-> IF l = s /\ mail[l] = NoMail THEN [status |-> "QUEUED", tries |-> 0] ELSE mail[l]]
  /\ job' = [job EXCEPT ![e].state = "inapp"]
  /\ UNCHANGED <<old, tx, remembered, inbox, current, dispatch, told, bounds>>

PersistInApp(e) ==
  /\ job[e].state = "inapp"
  /\ told' = told \cup {job[e].saw}
  /\ job' = [job EXCEPT ![e].state = "done"]
  /\ UNCHANGED <<delivery, current, dispatch, bounds>>

(* A run throws or stalls; the job is run again, or has failed for good. *)
JobFails(e) ==
  /\ job[e].state \in {"email", "inapp"}
  /\ job' = [job EXCEPT ![e] = [state |-> IF @.runs + 1 < JobAttempts THEN "waiting" ELSE "failed",
                                saw |-> 0, runs |-> @.runs + 1]]
  /\ UNCHANGED <<delivery, current, dispatch, told, bounds>>

DispatchStep(d) ==
  \/ \E B \in SUBSET Events : ClaimBatch(d, B)
  \/ \E e \in Events : AddJobs(d, e) \/ AddFails(d, e) \/ MarkPermanentFailure(d, e)
  \/ MarkPublished(d)
  \/ MarkPublishedFails(d)
  \/ MarkRetryableFailure(d)
  \/ AbandonBatch(d)
  \/ Die(d)
EventStep(e) ==
  \/ \E k \in Kinds : WriteEvent(e, k)
  \/ BackoffOver(e)
  \/ LeaseRunsOut(e)
  \/ Replay(e)
  \/ Recover(e)
JobStep(e) ==
  \/ ReadAggregate(e)
  \/ PersistEmail(e)
  \/ PersistInApp(e)
  \/ JobFails(e)

-----------------------------------------------------------------------------
Rows  == {NoRow} \cup
  [kind : Kinds, status : {"PENDING", "PROCESSING", "PUBLISHED", "FAILED"},
   tries : 0..MaxAttempts, due : BOOLEAN, holder : Dispatchers \cup {"nobody"}]
Works == [step : {"next", "mark", "fail"}, todo : SUBSET Events, now : Events \cup {0}]
Jobs  == [state : {"none", "waiting", "email", "inapp", "done", "failed", "lost"},
          saw : Events \cup {0}, runs : 0..JobAttempts]

OutboxTypeOK ==
  /\ current \in Events \cup {0} /\ told \subseteq Events
  /\ row \in [Events -> Rows]
  /\ work \in [Dispatchers -> Works]
  /\ job \in [Events -> Jobs]
  /\ replays \in Nat /\ mishaps \in Nat /\ lost \in BOOLEAN

(* A published event stays published: a dispatcher that was overtaken       *)
(* cannot have its late failure overwrite the success of another.          *)
PublishedStays ==
  [][\A e \in Events : row[e].status = "PUBLISHED" => row'[e].status = "PUBLISHED"]_outbox

(* When every change was published and its job done, the buyer has been     *)
(* told the return's present status, by email and in the app, although     *)
(* jobs run in any order and read the return when they run.                *)
Delivered(e) == row[e].status = "PUBLISHED" /\ job[e].state \in {"none", "done"}
LastStatusTold ==
  (\A e \in Events : Written(e) /\ row[e].kind = "status" => Delivered(e))
    => current = 0 \/ (current \in told /\ (current \in Letters => mail[current] # NoMail))
=============================================================================
