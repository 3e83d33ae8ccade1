------------------------------ MODULE Messaging ------------------------------
(***************************************************************************)
(* Outbox, queue, consumers and email delivery put together: what becomes  *)
(* of a change of a return on its way to the buyer's inbox.                *)
(***************************************************************************)
EXTENDS Outbox

vars == <<delivery, outbox>>

Init == DeliveryInit /\ OutboxInit

Next ==
  \/ \E d \in Dispatchers : DispatchStep(d)
  \/ \E e \in Events : EventStep(e) \/ JobStep(e)
  \/ RedisLost
  \/ \E l \in Letters : DeliveryStep(l) /\ UNCHANGED outbox

Spec == Init /\ [][Next]_vars

(* Dispatchers poll every second, oldest events first; the delivery task    *)
(* runs every minute, time passes, BullMQ runs every job, and a process    *)
(* that has begun something goes on with it.                               *)
Fairness ==
  /\ \A d \in Dispatchers :
       WF_vars(\/ \E e \in Events : AddJobs(d, e) \/ MarkPermanentFailure(d, e)
               \/ MarkPublished(d) \/ MarkPublishedFails(d) \/ MarkRetryableFailure(d)
               \/ AbandonBatch(d))
  /\ \A e \in Events :
       /\ SF_vars(\E d \in Dispatchers, B \in SUBSET Events : e \in B /\ ClaimBatch(d, B))
       /\ WF_vars(BackoffOver(e)) /\ WF_vars(LeaseRunsOut(e))
       /\ WF_vars(ReadAggregate(e) \/ PersistEmail(e) \/ PersistInApp(e))
  /\ \A l \in Letters :
       /\ WF_vars(GrowOld(l) /\ UNCHANGED outbox)
       /\ SF_vars(GiveUp(l) /\ UNCHANGED outbox)
       /\ WF_vars((RecordSent(l) \/ RecordFailure(l) \/ Rollback(l)) /\ UNCHANGED outbox)

FairSpec == Spec /\ Fairness

-----------------------------------------------------------------------------
TypeOK == DeliveryTypeOK /\ OutboxTypeOK

Parked(e) == row[e].status = "FAILED" /\ row[e].tries >= MaxAttempts

(* Every event is published or parked for an operator, wherever dispatchers *)
(* crash or are overtaken.                                                 *)
EventsResolve ==
  \A e \in Events : Written(e) ~> row[e].status = "PUBLISHED" \/ Parked(e)

(* An email about a change, or about a later one, is sent or given up in    *)
(* the end, unless an operator has something to look at: a parked event, a *)
(* failed job, or a Redis that lost its jobs.                              *)
ChangesReachTheBuyer ==
  \A e \in Letters :
    (Written(e) /\ row[e].kind = "status")
      ~> \/ \E s \in Letters : s >= e /\ mail[s].status \in {"SENT", "FAILED"}
         \/ Parked(e) \/ job[e].state \in {"failed", "lost"}
=============================================================================
