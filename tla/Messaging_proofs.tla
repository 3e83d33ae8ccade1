--------------------------- MODULE Messaging_proofs ---------------------------
(***************************************************************************)
(* Invariants of Messaging for any number of events, dispatchers, attempts *)
(* and mishaps.                                                            *)
(***************************************************************************)
EXTENDS Messaging, TLAPS

(***************************************************************************)
(* Types are inductive with the counters' guards: a job that is not over   *)
(* has runs left, a transaction that sends has tries left, and a job       *)
(* exists, and read a status, only when the return has changed.            *)
(***************************************************************************)
Counted ==
  /\ \A e \in Events :
       /\ job[e].state \in {"waiting", "email", "inapp"} => job[e].runs < JobAttempts
       /\ job[e].state \in {"email", "inapp"} => job[e].saw # 0
       /\ row[e].kind = "status" \/ job[e].state # "none" => current # 0
  /\ \A l \in Letters : tx[l] # "none" => mail[l].tries < MaxSends

TypeInv == TypeOK /\ Counted

LEMMA TypingInit == Init => TypeInv
<1> SUFFICES ASSUME Init PROVE TypeInv
  OBVIOUS
<1>1. DeliveryTypeOK
  BY DeliveryAssumption DEF Init, DeliveryInit, DeliveryTypeOK, NoMail, MailStatus
<1>2. NoRow \in Rows /\ NoJob \in Jobs /\ NoWork \in Works
  BY OutboxAssumption DEF Rows, Jobs, Works, NoRow, NoJob, NoWork
<1>3. OutboxTypeOK
  BY <1>2 DEF Init, OutboxInit, OutboxTypeOK
<1>4. Counted
  BY DEF Init, OutboxInit, DeliveryInit, Counted, NoRow, NoJob
<1> QED BY <1>1, <1>3, <1>4 DEF TypeInv, TypeOK

(* Only rows that were written are claimed. *)
LEMMA ClaimedRows ==
  ASSUME TypeInv, NEW e \in Events, Claimable(e)
  PROVE  row[e] \in Rows \ {NoRow} /\ row[e].kind # "none"
<1>1. row[e] \in Rows
  BY DEF TypeInv, TypeOK, OutboxTypeOK
<1>2. row[e] # NoRow
  BY DEF Claimable, NoRow
<1> QED BY <1>1, <1>2, OutboxAssumption DEF Rows

(* A job that is added has not run, and is about a change. *)
LEMMA AddedJobs ==
  ASSUME TypeInv, NEW e \in Events
  PROVE  /\ Added(e) \in [Events -> Jobs]
         /\ \A p \in Events :
              \/ Added(e)[p] = job[p]
              \/ p = e /\ row[e].kind = "status" /\ Added(e)[p] = [NoJob EXCEPT !.state = "waiting"]
<1>1. [NoJob EXCEPT !.state = "waiting"] \in Jobs
  BY OutboxAssumption DEF NoJob, Jobs
<1> QED BY <1>1 DEF Added, TypeInv, TypeOK, OutboxTypeOK

(* What leaves the email rows alone and the other rows well typed. *)
LEMMA TypingDispatch ==
  ASSUME TypeInv, NEW d \in Dispatchers, DispatchStep(d)
  PROVE  TypeInv' /\ \A p \in Events : row'[p].kind = row[p].kind
<1> USE OutboxAssumption, DeliveryAssumption
<1>0. UNCHANGED <<delivery, current, told, replays, lost>>
  BY DEF DispatchStep, ClaimBatch, AddJobs, AddFails, MarkPermanentFailure, MarkPublished,
         MarkPublishedFails, MarkRetryableFailure, AbandonBatch, Die, bounds
<1>1. CASE \E B \in SUBSET Events : ClaimBatch(d, B)
  <2>1. PICK B \in SUBSET Events : ClaimBatch(d, B)
    BY <1>1
  <2>2. \A e \in B : /\ row[e] \in Rows \ {NoRow}
                     /\ AttemptsAfterClaim(e) \in 0..MaxAttempts
    <3> SUFFICES ASSUME NEW e \in B
                 PROVE  row[e] \in Rows \ {NoRow} /\ AttemptsAfterClaim(e) \in 0..MaxAttempts
      OBVIOUS
    <3>1. row[e] \in Rows /\ Claimable(e)
      BY <2>1 DEF ClaimBatch, TypeInv, TypeOK, OutboxTypeOK
    <3>2. row[e] # NoRow
      BY <3>1 DEF Claimable, NoRow
    <3>3. row[e].tries \in 0..MaxAttempts
      BY <3>1, <3>2 DEF Rows
    <3> QED BY <3>1, <3>2, <3>3 DEF Claimable, AttemptsAfterClaim
  <2>3. \A e \in B :
          LET r == [row[e] EXCEPT !.status = "PROCESSING", !.due = FALSE, !.holder = d,
                                  !.tries = AttemptsAfterClaim(e)]
          IN  r \in Rows /\ r.kind = row[e].kind
    BY <2>2 DEF Rows, NoRow
  <2>4. row' \in [Events -> Rows] /\ \A e \in Events : row'[e].kind = row[e].kind
    BY <2>1, <2>3 DEF ClaimBatch, TypeInv, TypeOK, OutboxTypeOK
  <2>5. work' \in [Dispatchers -> Works]
    BY <2>1 DEF ClaimBatch, TypeInv, TypeOK, OutboxTypeOK, Works
  <2> QED BY <1>0, <2>1, <2>4, <2>5
      DEF ClaimBatch, bounds, delivery, TypeInv, TypeOK, OutboxTypeOK, DeliveryTypeOK, Counted
<1>2. CASE \E e \in Events : AddJobs(d, e) \/ AddFails(d, e)
  <2>1. PICK e \in Events : AddJobs(d, e) \/ AddFails(d, e)
    BY <1>2
  <2>2. work' \in [Dispatchers -> Works]
    BY <2>1 DEF AddJobs, AddFails, TypeInv, TypeOK, OutboxTypeOK, Works
  <2>3. job' \in {job, Added(e)}
    BY <2>1 DEF AddJobs, AddFails
  <2>4. UNCHANGED <<row, bounds>>
    BY <2>1 DEF AddJobs, AddFails
  <2>5. /\ job' \in [Events -> Jobs]
        /\ \A p \in Events :
             \/ job'[p] = job[p]
             \/ p = e /\ row[e].kind = "status" /\ job'[p] = [NoJob EXCEPT !.state = "waiting"]
    BY <2>3, AddedJobs DEF TypeInv, TypeOK, OutboxTypeOK
  <2>6. Counted'
    BY <1>0, <2>4, <2>5 DEF Counted, TypeInv, delivery, NoJob
  <2> QED BY <1>0, <2>2, <2>4, <2>5, <2>6
      DEF bounds, delivery, TypeInv, TypeOK, OutboxTypeOK, DeliveryTypeOK
<1>3. CASE \/ \E e \in Events : MarkPermanentFailure(d, e)
           \/ MarkPublished(d) \/ MarkPublishedFails(d) \/ MarkRetryableFailure(d)
  <2>1. UNCHANGED <<job, bounds>>
    BY <1>3 DEF MarkPermanentFailure, MarkPublished, MarkPublishedFails, MarkRetryableFailure
  <2>2. work' \in [Dispatchers -> Works]
    <3>1. work[d] \in Works
      BY DEF TypeInv, TypeOK, OutboxTypeOK
    <3>2. /\ \A e \in Events : [work[d] EXCEPT !.todo = @ \ {e}] \in Works
          /\ [work[d] EXCEPT !.step = "fail"] \in Works
          /\ [step |-> "next", todo |-> work[d].todo, now |-> 0] \in Works
      BY <3>1 DEF Works
    <3>3. PICK w \in Works : work' = [work EXCEPT ![d] = w]
      BY <1>3, <3>2 DEF MarkPermanentFailure, MarkPublished, MarkPublishedFails, MarkRetryableFailure
    <3> QED BY <3>3 DEF TypeInv, TypeOK, OutboxTypeOK
  <2>3. PICK e : \/ row' = row
                 \/ HoldsLease(d, e) /\ row' = Published(e)
                 \/ HoldsLease(d, e) /\ row' = [row EXCEPT ![e] = [@ EXCEPT !.status = "FAILED",
                                                       !.due = FALSE, !.holder = "nobody"]]
                 \/ HoldsLease(d, e) /\ row' = [row EXCEPT ![e] = [@ EXCEPT !.status = "FAILED",
                                      !.tries = MaxAttempts, !.due = FALSE, !.holder = "nobody"]]
    BY <1>3 DEF MarkPermanentFailure, MarkPublished, MarkPublishedFails, MarkRetryableFailure
  <2>4. ASSUME e \in Events, HoldsLease(d, e)
        PROVE  /\ [row[e] EXCEPT !.status = "PUBLISHED", !.holder = "nobody"] \in Rows
               /\ [row[e] EXCEPT !.status = "FAILED", !.due = FALSE, !.holder = "nobody"] \in Rows
               /\ [row[e] EXCEPT !.status = "FAILED", !.tries = MaxAttempts,
                                 !.due = FALSE, !.holder = "nobody"] \in Rows
    <3>1. row[e] \in Rows /\ row[e] # NoRow
      BY <2>4 DEF HoldsLease, NoRow, TypeInv, TypeOK, OutboxTypeOK
    <3>2. [row[e] EXCEPT !.status = "PUBLISHED", !.holder = "nobody"] \in Rows
      BY <3>1 DEF Rows, NoRow
    <3>3. [row[e] EXCEPT !.status = "FAILED", !.due = FALSE, !.holder = "nobody"] \in Rows
      BY <3>1 DEF Rows, NoRow
    <3>4. MaxAttempts \in 0..MaxAttempts
      OBVIOUS
    <3>5. [row[e] EXCEPT !.status = "FAILED", !.tries = MaxAttempts, !.due = FALSE,
                         !.holder = "nobody"] \in Rows
      BY <3>1, <3>4 DEF Rows, NoRow
    <3> QED BY <3>2, <3>3, <3>5
  <2>5. row' \in [Events -> Rows] /\ \A p \in Events : row'[p].kind = row[p].kind
    <3>1. row \in [Events -> Rows]
      BY DEF TypeInv, TypeOK, OutboxTypeOK
    <3>2. CASE e \in Events /\ HoldsLease(d, e)
      <4>1. PICK r \in Rows : row' = [row EXCEPT ![e] = r] /\ r.kind = row[e].kind
        <5>1. row[e] \in Rows /\ row = [row EXCEPT ![e] = row[e]]
          BY <3>1, <3>2
        <5>2. row[e].kind = [row[e] EXCEPT !.status = "PUBLISHED", !.holder = "nobody"].kind
          BY <5>1 DEF Rows, NoRow
        <5>3. /\ row[e].kind = [row[e] EXCEPT !.status = "FAILED", !.due = FALSE,
                                               !.holder = "nobody"].kind
              /\ row[e].kind = [row[e] EXCEPT !.status = "FAILED", !.tries = MaxAttempts,
                                               !.due = FALSE, !.holder = "nobody"].kind
          BY <5>1 DEF Rows, NoRow
        <5>4. CASE row' = row
          BY <5>1, <5>4
        <5>5. CASE row' # row
          BY <2>3, <2>4, <3>2, <5>2, <5>3, <5>5 DEF Published
        <5> QED BY <5>4, <5>5
      <4> QED BY <3>1, <4>1
    <3>3. CASE ~(e \in Events /\ HoldsLease(d, e))
      BY <2>3, <3>1, <3>3 DEF Published
    <3> QED BY <3>2, <3>3
  <2> QED BY <1>0, <2>1, <2>2, <2>5
      DEF bounds, delivery, TypeInv, TypeOK, OutboxTypeOK, DeliveryTypeOK, Counted
<1>4. CASE AbandonBatch(d) \/ Die(d)
  <2>1. work' \in [Dispatchers -> Works]
    BY <1>4 DEF AbandonBatch, Die, NoWork, TypeInv, TypeOK, OutboxTypeOK, Works
  <2>2. UNCHANGED <<row, job>> /\ mishaps' \in Nat
    BY <1>4 DEF AbandonBatch, Die, bounds, TypeInv, TypeOK, OutboxTypeOK
  <2> QED BY <1>0, <2>1, <2>2
      DEF delivery, TypeInv, TypeOK, OutboxTypeOK, DeliveryTypeOK, Counted
<1> QED BY <1>1, <1>2, <1>3, <1>4 DEF DispatchStep

(* Writing, timing out and replaying events change rows; recovery adds jobs. *)
LEMMA TypingEvent ==
  ASSUME TypeInv, NEW e \in Events, EventStep(e)
  PROVE  TypeInv'
<1> USE OutboxAssumption, DeliveryAssumption
<1>0. UNCHANGED <<delivery, told, work, lost>>
  BY DEF EventStep, WriteEvent, BackoffOver, LeaseRunsOut, Replay, Recover, bounds, dispatch
<1>1. row[e] \in Rows /\ row \in [Events -> Rows] /\ job \in [Events -> Jobs]
  BY DEF TypeInv, TypeOK, OutboxTypeOK
<1>2. CASE \E k \in Kinds : WriteEvent(e, k)
  <2>1. PICK k \in Kinds : WriteEvent(e, k)
    BY <1>2
  <2>2. [kind |-> k, status |-> "PENDING", tries |-> 0, due |-> TRUE, holder |-> "nobody"] \in Rows
    BY DEF Rows
  <2>3. row' \in [Events -> Rows]
    BY <2>1, <2>2, <1>1 DEF WriteEvent
  <2>4. current' = IF k = "status" THEN e ELSE current
    BY <2>1 DEF WriteEvent
  <2>5. current' \in Events \cup {0} /\ (current # 0 => current' # 0)
        /\ (k = "status" => current' # 0)
    BY <2>4 DEF TypeInv, TypeOK, OutboxTypeOK
  <2>6. \A p \in Events : row'[p].kind = "status" => (p = e /\ k = "status") \/ row[p].kind = "status"
    BY <2>1, <1>1 DEF WriteEvent
  <2>7. UNCHANGED <<job, replays, mishaps>>
    BY <2>1 DEF WriteEvent, bounds
  <2> QED BY <1>0, <2>3, <2>5, <2>6, <2>7
      DEF delivery, TypeInv, TypeOK, OutboxTypeOK, DeliveryTypeOK, Counted
<1>3. CASE BackoffOver(e) \/ LeaseRunsOut(e) \/ Replay(e)
  <2>1. row[e] \in Rows \ {NoRow}
    BY <1>1, <1>3 DEF BackoffOver, LeaseRunsOut, Replay, NoRow
  <2>2. [row[e] EXCEPT !.due = TRUE] \in Rows /\ [row[e] EXCEPT !.due = TRUE].kind = row[e].kind
    BY <2>1 DEF Rows, NoRow
  <2>3. /\ [row[e] EXCEPT !.status = "PENDING", !.tries = 0, !.due = TRUE] \in Rows
        /\ [row[e] EXCEPT !.status = "PENDING", !.tries = 0, !.due = TRUE].kind = row[e].kind
    <3>1. 0 \in 0..MaxAttempts
      OBVIOUS
    <3>2. [row[e] EXCEPT !.status = "PENDING", !.tries = 0, !.due = TRUE] \in Rows
      BY <2>1, <3>1 DEF Rows, NoRow
    <3>3. [row[e] EXCEPT !.status = "PENDING", !.tries = 0, !.due = TRUE].kind = row[e].kind
      BY <2>1 DEF Rows, NoRow
    <3> QED BY <3>2, <3>3
  <2>4. PICK r \in Rows : row' = [row EXCEPT ![e] = r] /\ r.kind = row[e].kind
    BY <1>3, <2>2, <2>3 DEF BackoffOver, LeaseRunsOut, Replay
  <2>5. row' \in [Events -> Rows] /\ \A p \in Events : row'[p].kind = row[p].kind
    BY <1>1, <2>4
  <2>6. UNCHANGED <<current, job>> /\ replays' \in Nat /\ mishaps' \in Nat
    BY <1>3 DEF BackoffOver, LeaseRunsOut, Replay, bounds, TypeInv, TypeOK, OutboxTypeOK
  <2> QED BY <1>0, <2>5, <2>6
      DEF delivery, TypeInv, TypeOK, OutboxTypeOK, DeliveryTypeOK, Counted
<1>4. CASE Recover(e)
  <2>1. job' = Added(e) /\ UNCHANGED <<current, row, replays, mishaps>>
    BY <1>4 DEF Recover, bounds, dispatch
  <2>2. Counted'
    BY <1>0, <2>1, AddedJobs DEF Counted, TypeInv, delivery, NoJob
  <2> QED BY <1>0, <2>1, <2>2, AddedJobs DEF delivery, TypeInv, TypeOK, OutboxTypeOK, DeliveryTypeOK
<1> QED BY <1>2, <1>3, <1>4 DEF EventStep

LEMMA TypingJob ==
  ASSUME TypeInv, NEW e \in Events, JobStep(e)
  PROVE  TypeInv'
<1> USE OutboxAssumption, DeliveryAssumption
<1>0. UNCHANGED <<old, tx, remembered, inbox, current, dispatch, bounds>>
  BY DEF JobStep, ReadAggregate, PersistEmail, PersistInApp, JobFails, delivery
<1>1. job[e] \in Jobs /\ job \in [Events -> Jobs]
  BY DEF TypeInv, TypeOK, OutboxTypeOK
<1>2. CASE ReadAggregate(e)
  <2>1. [job[e] EXCEPT !.state = "email", !.saw = current] \in Jobs
    BY <1>1 DEF Jobs, TypeInv, TypeOK, OutboxTypeOK
  <2>2. job' = [job EXCEPT ![e] = [job[e] EXCEPT !.state = "email", !.saw = current]]
        /\ UNCHANGED <<mail, told>>
    BY <1>2 DEF ReadAggregate, delivery
  <2>3. job[e].state = "waiting" /\ job[e].runs < JobAttempts /\ current # 0
    BY <1>2 DEF ReadAggregate, TypeInv, Counted
  <2>4. job' \in [Events -> Jobs] /\ Counted'
    BY <1>0, <1>1, <2>1, <2>2, <2>3 DEF TypeInv, Counted, dispatch, Jobs
  <2> QED BY <1>0, <2>2, <2>4
      DEF dispatch, bounds, TypeInv, TypeOK, OutboxTypeOK, DeliveryTypeOK
<1>3. CASE PersistEmail(e)
  <2>1. [job[e] EXCEPT !.state = "inapp"] \in Jobs
    BY <1>1 DEF Jobs
  <2>2. job' = [job EXCEPT ![e] = [job[e] EXCEPT !.state = "inapp"]] /\ UNCHANGED told
    BY <1>3 DEF PersistEmail
  <2>3. [status |-> "QUEUED", tries |-> 0] \in [status : MailStatus, tries : 0..MaxSends]
    BY DEF MailStatus
  <2>4. /\ mail' \in [Letters -> [status : MailStatus, tries : 0..MaxSends]]
        /\ \A l \in Letters : mail'[l].tries = 0 \/ mail'[l] = mail[l]
    BY <1>3, <2>3 DEF PersistEmail, TypeInv, TypeOK, DeliveryTypeOK
  <2>5. job[e].state = "email" /\ job[e].runs < JobAttempts /\ job[e].saw # 0 /\ current # 0
    BY <1>3 DEF PersistEmail, TypeInv, Counted
  <2>6. job' \in [Events -> Jobs] /\ Counted'
    BY <1>0, <1>1, <2>1, <2>2, <2>4, <2>5 DEF TypeInv, Counted, dispatch, Jobs
  <2> QED BY <1>0, <2>2, <2>4, <2>6
      DEF dispatch, bounds, TypeInv, TypeOK, OutboxTypeOK, DeliveryTypeOK
<1>4. CASE PersistInApp(e)
  <2>1. [job[e] EXCEPT !.state = "done"] \in Jobs
    BY <1>1 DEF Jobs
  <2>2. job' = [job EXCEPT ![e] = [job[e] EXCEPT !.state = "done"]]
        /\ UNCHANGED mail /\ told' = told \cup {job[e].saw}
    BY <1>4 DEF PersistInApp, delivery
  <2>3. job[e].state = "inapp" /\ job[e].saw # 0 /\ job[e].saw \in Events \cup {0} /\ current # 0
    BY <1>1, <1>4 DEF PersistInApp, TypeInv, Counted, Jobs
  <2>4. job' \in [Events -> Jobs] /\ Counted'
    BY <1>0, <1>1, <2>1, <2>2, <2>3 DEF TypeInv, Counted, dispatch, Jobs
  <2> QED BY <1>0, <2>2, <2>3, <2>4
      DEF dispatch, bounds, TypeInv, TypeOK, OutboxTypeOK, DeliveryTypeOK
<1>5. CASE JobFails(e)
  <2>1. job[e].state \in {"email", "inapp"} /\ job[e].runs < JobAttempts /\ current # 0
    BY <1>5 DEF JobFails, TypeInv, Counted
  <2>2. PICK st \in {"waiting", "failed"} :
          /\ job' = [job EXCEPT ![e] = [state |-> st, saw |-> 0, runs |-> job[e].runs + 1]]
          /\ st = "waiting" => job[e].runs + 1 < JobAttempts
    BY <1>5 DEF JobFails
  <2>3. [state |-> st, saw |-> 0, runs |-> job[e].runs + 1] \in Jobs
    BY <1>1, <2>1 DEF Jobs
  <2>4. UNCHANGED <<mail, told>>
    BY <1>5 DEF JobFails, delivery
  <2>5. job' \in [Events -> Jobs] /\ Counted'
    BY <1>0, <1>1, <2>1, <2>2, <2>3, <2>4 DEF TypeInv, Counted, dispatch
  <2> QED BY <1>0, <2>4, <2>5
      DEF dispatch, bounds, TypeInv, TypeOK, OutboxTypeOK, DeliveryTypeOK
<1> QED BY <1>2, <1>3, <1>4, <1>5 DEF JobStep

LEMMA TypingRedis ==
  ASSUME TypeInv, RedisLost
  PROVE  TypeInv'
<1> USE OutboxAssumption
<1>1. NoJob \in Jobs /\ [NoJob EXCEPT !.state = "lost"] \in Jobs
  BY DEF NoJob, Jobs
<1>2. \A e \in Events : job'[e].state \in {"none", "lost"} /\ (job[e].state = "none" => job'[e].state = "none")
  BY DEF RedisLost, NoJob
<1>3. job' \in [Events -> Jobs] /\ UNCHANGED <<delivery, current, dispatch, told, replays, mishaps>>
      /\ lost' = TRUE
  BY <1>1 DEF RedisLost
<1> QED BY <1>2, <1>3
    DEF delivery, dispatch, TypeInv, TypeOK, OutboxTypeOK, DeliveryTypeOK, Counted

LEMMA TypingDelivery ==
  ASSUME TypeInv, NEW l \in Letters, DeliveryStep(l), UNCHANGED outbox
  PROVE  TypeInv'
<1> USE DeliveryAssumption
<1>1. mail[l] \in [status : MailStatus, tries : 0..MaxSends] /\ DeliveryTypeOK
  BY DEF TypeInv, TypeOK, DeliveryTypeOK
<1>2. tx[l] # "none" => mail[l].tries < MaxSends
  BY DEF TypeInv, Counted
<1>3. DeliveryTypeOK' /\ \A m \in Letters : tx'[m] # "none" => mail'[m].tries < MaxSends
  <2>1. CASE GiveUp(l)
    BY <1>1, <2>1 DEF GiveUp, Deliverable, DeliveryTypeOK, MailStatus, TypeInv, Counted
  <2>2. CASE BeginSend(l)
    BY <1>1, <2>2 DEF BeginSend, Deliverable, OutOfTries, DeliveryTypeOK, TypeInv, Counted
  <2>3. CASE ProviderAccepts(l) \/ ProviderRefuses(l)
    <3>1. /\ inbox[l] \in Nat /\ inbox' \in {inbox, [inbox EXCEPT ![l] = inbox[l] + 1]}
          /\ remembered' \in {remembered, [remembered EXCEPT ![l] = TRUE]}
      BY <1>1, <2>3 DEF ProviderAccepts, ProviderRefuses, DeliveryTypeOK
    <3>2. PICK answer \in {"accepted", "failed"} : tx' = [tx EXCEPT ![l] = answer]
      BY <2>3 DEF ProviderAccepts, ProviderRefuses
    <3>3. UNCHANGED <<mail, old>> /\ tx[l] = "asking"
      BY <2>3 DEF ProviderAccepts, ProviderRefuses
    <3>4. /\ inbox' \in [Letters -> Nat] /\ remembered' \in [Letters -> BOOLEAN]
          /\ tx' \in [Letters -> {"none", "asking", "accepted", "failed"}]
      <4>1. inbox' \in [Letters -> Nat]
        <5>1. inbox \in [Letters -> Nat] /\ inbox[l] + 1 \in Nat
          BY <1>1, <3>1 DEF DeliveryTypeOK
        <5> QED BY <3>1, <5>1
      <4>2. remembered' \in [Letters -> BOOLEAN]
        BY <1>1, <3>1 DEF DeliveryTypeOK
      <4>3. tx' \in [Letters -> {"none", "asking", "accepted", "failed"}]
        BY <1>1, <3>2 DEF DeliveryTypeOK
      <4> QED BY <4>1, <4>2, <4>3
    <3>5. \A m \in Letters : tx'[m] # "none" => tx[m] # "none"
      BY <1>1, <3>2, <3>3 DEF DeliveryTypeOK
    <3> QED BY <1>1, <3>3, <3>4, <3>5 DEF DeliveryTypeOK, TypeInv, Counted
  <2>4. CASE RecordSent(l) \/ RecordFailure(l)
    <3>1. mail[l].tries + 1 \in 0..MaxSends
      BY <1>1, <1>2, <2>4 DEF RecordSent, RecordFailure
    <3>2. PICK st \in {"SENT", "FAILED", "QUEUED"} :
            mail' = [mail EXCEPT ![l] = [status |-> st, tries |-> mail[l].tries + 1]]
      BY <2>4 DEF RecordSent, RecordFailure
    <3>3. tx' = [tx EXCEPT ![l] = "none"] /\ UNCHANGED <<old, remembered>> /\ inbox' = inbox
      BY <2>4 DEF RecordSent, RecordFailure
    <3> QED BY <1>1, <3>1, <3>2, <3>3 DEF DeliveryTypeOK, MailStatus, TypeInv, Counted
  <2>5. CASE Rollback(l)
    BY <1>1, <2>5 DEF Rollback, DeliveryTypeOK, TypeInv, Counted
  <2>6. CASE GrowOld(l) \/ ProviderForgets(l)
    BY <1>1, <2>6 DEF GrowOld, ProviderForgets, DeliveryTypeOK, TypeInv, Counted
  <2> QED BY <2>1, <2>2, <2>3, <2>4, <2>5, <2>6 DEF DeliveryStep
<1> QED BY <1>3 DEF outbox, dispatch, bounds, TypeInv, TypeOK, OutboxTypeOK, Counted

LEMMA TypeInvInductive ==
  ASSUME TypeInv, [Next]_vars
  PROVE  TypeInv'
<1>1. CASE UNCHANGED vars
  BY <1>1 DEF vars, delivery, outbox, dispatch, bounds, TypeInv, TypeOK, OutboxTypeOK,
              DeliveryTypeOK, Counted
<1>2. CASE Next
  BY <1>2, TypingDispatch, TypingEvent, TypingJob, TypingRedis, TypingDelivery DEF Next
<1> QED BY <1>1, <1>2

(* Every reachable state is well typed. *)
THEOREM Typing == Spec => []TypeOK
<1>1. TypeInv => TypeOK
  BY DEF TypeInv
<1>2. Init => TypeInv
  BY TypingInit
<1>3. TypeInv /\ [Next]_vars => TypeInv'
  BY TypeInvInductive
<1> QED BY <1>1, <1>2, <1>3, PTL DEF Spec

-----------------------------------------------------------------------------
(***************************************************************************)
(* An email that was sent is either still known to the provider, or its    *)
(* row is so old that no transaction will send it again. Needed because    *)
(* the provider forgets.                                                   *)
(***************************************************************************)
SentOnce ==
  \A l \in Letters :
    /\ inbox[l] \in {0, 1}
    /\ inbox[l] = 1 => remembered[l] \/ (old[l] /\ tx[l] # "asking")

LEMMA SentOnceStep ==
  ASSUME TypeInv, SentOnce, NEW l \in Letters, DeliveryStep(l)
  PROVE  SentOnce'
<1>1. /\ tx \in [Letters -> {"none", "asking", "accepted", "failed"}] /\ inbox \in [Letters -> Nat]
      /\ remembered \in [Letters -> BOOLEAN] /\ old \in [Letters -> BOOLEAN]
  BY DEF TypeInv, TypeOK, DeliveryTypeOK
<1>2. CASE GiveUp(l)
  BY <1>1, <1>2 DEF GiveUp, SentOnce
<1>3. CASE BeginSend(l)
  <2>1. ~old[l]
    BY <1>3 DEF BeginSend, OutOfTries
  <2> QED BY <1>1, <1>3, <2>1 DEF BeginSend, SentOnce
<1>4. CASE ProviderAccepts(l)
  <2>1. inbox'[l] \in {0, 1}
    <3>1. inbox[l] \in {0, 1} /\ (~remembered[l] => inbox[l] = 0)
      BY <1>4 DEF ProviderAccepts, SentOnce
    <3>2. inbox'[l] = IF remembered[l] THEN inbox[l] ELSE inbox[l] + 1
      BY <1>1, <1>4 DEF ProviderAccepts
    <3> QED BY <1>1, <3>1, <3>2
  <2>2. /\ remembered' = [remembered EXCEPT ![l] = TRUE] /\ old' = old
        /\ \A m \in Letters \ {l} : inbox'[m] = inbox[m] /\ tx'[m] = tx[m]
    BY <1>1, <1>4 DEF ProviderAccepts
  <2> QED BY <1>1, <2>1, <2>2 DEF SentOnce
<1>5. CASE ProviderRefuses(l) \/ RecordSent(l) \/ RecordFailure(l) \/ Rollback(l)
  <2>1. UNCHANGED <<inbox, remembered, old>> /\ \A m \in Letters : tx'[m] = "asking" => tx[m] = "asking"
    BY <1>1, <1>5 DEF ProviderRefuses, RecordSent, RecordFailure, Rollback
  <2> QED BY <2>1 DEF SentOnce
<1>6. CASE GrowOld(l)
  BY <1>1, <1>6 DEF GrowOld, SentOnce
<1>7. CASE ProviderForgets(l)
  BY <1>1, <1>7 DEF ProviderForgets, SentOnce
<1> QED BY <1>2, <1>3, <1>4, <1>5, <1>6, <1>7 DEF DeliveryStep

LEMMA SentOnceInductive ==
  ASSUME TypeInv, SentOnce, [Next]_vars
  PROVE  SentOnce'
<1>1. CASE \E l \in Letters : DeliveryStep(l)
  BY <1>1, SentOnceStep
<1>2. CASE UNCHANGED <<old, tx, remembered, inbox>>
  BY <1>2 DEF SentOnce
<1>3. CASE UNCHANGED vars
  BY <1>2, <1>3 DEF vars, delivery
<1>4. CASE \E d \in Dispatchers : DispatchStep(d)
  BY <1>2, <1>4 DEF DispatchStep, ClaimBatch, AddJobs, AddFails, MarkPermanentFailure, MarkPublished,
                    MarkPublishedFails, MarkRetryableFailure, AbandonBatch, Die, delivery
<1>5. CASE \E e \in Events : EventStep(e)
  BY <1>2, <1>5 DEF EventStep, WriteEvent, BackoffOver, LeaseRunsOut, Replay, Recover, delivery
<1>6. CASE RedisLost \/ \E e \in Events : JobStep(e)
  BY <1>2, <1>6 DEF RedisLost, JobStep, ReadAggregate, PersistEmail, PersistInApp, JobFails, delivery
<1> QED BY <1>1, <1>3, <1>4, <1>5, <1>6 DEF Next

(* Nobody gets an email twice, however often answers and transactions are   *)
(* lost and whatever the number of attempts.                                *)
THEOREM SentAtMostOnce == Spec => []EmailedOnce
<1>1. SentOnce => EmailedOnce
  <2> SUFFICES ASSUME SentOnce, NEW l \in Letters PROVE inbox[l] <= 1
    BY DEF EmailedOnce
  <2>1. inbox[l] \in {0, 1}
    BY DEF SentOnce
  <2> QED BY <2>1
<1>2. Init => TypeInv /\ SentOnce
  BY TypingInit DEF Init, DeliveryInit, SentOnce
<1>3. TypeInv /\ SentOnce /\ [Next]_vars => TypeInv' /\ SentOnce'
  BY TypeInvInductive, SentOnceInductive
<1> QED BY <1>1, <1>2, <1>3, PTL DEF Spec

-----------------------------------------------------------------------------
(* A step that changes the row of an event leaves a published one alone:    *)
(* only rows that may be claimed, are held under a lease or have FAILED     *)
(* are ever written.                                                        *)
LEMMA PublishedKept ==
  ASSUME TypeInv, [Next]_vars, NEW e \in Events, row[e].status = "PUBLISHED"
  PROVE  row'[e].status = "PUBLISHED"
<1>1. row \in [Events -> Rows]
  BY DEF TypeInv, TypeOK, OutboxTypeOK
<1>2. CASE row' = row
  BY <1>2
<1>3. ASSUME NEW d \in Dispatchers, DispatchStep(d)
      PROVE  row'[e].status = "PUBLISHED"
  <2>1. CASE \E B \in SUBSET Events : ClaimBatch(d, B)
    BY <2>1 DEF ClaimBatch, Claimable
  <2>2. CASE MarkPublished(d) \/ MarkPublishedFails(d) \/ MarkRetryableFailure(d)
    BY <1>1, <1>2, <2>2 DEF MarkPublished, MarkPublishedFails, MarkRetryableFailure, Published, HoldsLease
  <2>3. CASE \E p \in Events : MarkPermanentFailure(d, p)
    BY <1>1, <2>3 DEF MarkPermanentFailure, HoldsLease
  <2>4. CASE \/ \E p \in Events : AddJobs(d, p) \/ AddFails(d, p)
             \/ AbandonBatch(d) \/ Die(d)
    BY <1>2, <2>4 DEF AddJobs, AddFails, AbandonBatch, Die
  <2> QED BY <1>3, <2>1, <2>2, <2>3, <2>4 DEF DispatchStep
<1>4. ASSUME NEW p \in Events, EventStep(p)
      PROVE  row'[e].status = "PUBLISHED"
  BY <1>1, <1>2, <1>4 DEF EventStep, WriteEvent, Written, NoRow, BackoffOver, LeaseRunsOut, Replay,
                          Recover, dispatch
<1>5. CASE \/ \E p \in Events : JobStep(p)
           \/ RedisLost
           \/ UNCHANGED outbox
  BY <1>2, <1>5 DEF JobStep, ReadAggregate, PersistEmail, PersistInApp, JobFails, RedisLost,
                    outbox, dispatch
<1> QED BY <1>3, <1>4, <1>5 DEF Next, vars

(* A published event stays published, whichever dispatchers were overtaken. *)
THEOREM PublishedForGood == Spec => PublishedStays
<1>1. TypeInv /\ [Next]_vars => [\A e \in Events : row[e].status = "PUBLISHED"
                                               => row'[e].status = "PUBLISHED"]_outbox
  BY PublishedKept
<1>2. Init => TypeInv
  BY TypingInit
<1>3. TypeInv /\ [Next]_vars => TypeInv'
  BY TypeInvInductive
<1> QED BY <1>1, <1>2, <1>3, PTL DEF Spec, PublishedStays

-----------------------------------------------------------------------------
(***************************************************************************)
(* Why the buyer is told the last status. An event that is not written is  *)
(* nowhere; the return's status is the number of a change; a dispatcher    *)
(* that is about to mark a change published has added its job, so a        *)
(* published change has one; and the job of the last change has read the   *)
(* last status, for nobody could have added it before the change.          *)
(***************************************************************************)
UnwrittenIsNowhere ==
  \A e \in Events : row[e].kind = "none" =>
    job[e].state = "none" /\ \A d \in Dispatchers : ~AtWorkOn(d, e)
LastIsAChange == current # 0 => row[current].kind = "status"
AddedThenMarked ==
  \A e \in Events : row[e].kind = "status" /\ job[e].state = "none" =>
    /\ row[e].status # "PUBLISHED"
    /\ \A d \in Dispatchers : ~(work[d].step = "mark" /\ work[d].now = e)
LastJobTells ==
  current # 0 =>
    /\ job[current].state \in {"email", "inapp"} => job[current].saw = current
    /\ job[current].state \in {"inapp", "done"} /\ current \in Letters => mail[current] # NoMail
    /\ job[current].state = "done" => current \in told

TellInv == UnwrittenIsNowhere /\ LastIsAChange /\ AddedThenMarked /\ LastJobTells

LEMMA TellInit == Init => TellInv
BY OutboxAssumption DEF Init, OutboxInit, TellInv, UnwrittenIsNowhere, LastIsAChange, AddedThenMarked,
   LastJobTells, AtWorkOn, NoRow, NoJob, NoWork

(* What a dispatcher can do to jobs and to its own work. *)
LEMMA TellDispatch ==
  ASSUME TypeInv, TellInv, NEW d \in Dispatchers, DispatchStep(d)
  PROVE  TellInv'
<1>0. UNCHANGED <<delivery, current, told>> /\ \A p \in Events : row'[p].kind = row[p].kind
  BY TypingDispatch DEF DispatchStep, ClaimBatch, AddJobs, AddFails, MarkPermanentFailure, MarkPublished,
         MarkPublishedFails, MarkRetryableFailure, AbandonBatch, Die
<1>1. /\ current \in Events \cup {0} /\ 0 \notin Events
      /\ row \in [Events -> Rows] /\ work \in [Dispatchers -> Works] /\ job \in [Events -> Jobs]
  BY OutboxAssumption DEF TypeInv, TypeOK, OutboxTypeOK
<1>2. \A p \in Events :
        \/ job'[p] = job[p]
        \/ /\ row[p].kind = "status" /\ job[p].state \in {"none", "lost"} /\ job'[p].state = "waiting"
  <2>1. CASE \E e \in Events : AddJobs(d, e) \/ AddFails(d, e)
    BY <1>1, <2>1 DEF AddJobs, AddFails, Added, NoJob
  <2>2. CASE UNCHANGED job
    BY <2>2
  <2> QED BY <2>1, <2>2 DEF DispatchStep, ClaimBatch, MarkPermanentFailure, MarkPublished,
             MarkPublishedFails, MarkRetryableFailure, AbandonBatch, Die
<1>3. LastIsAChange' /\ LastJobTells'
  BY <1>0, <1>1, <1>2 DEF TellInv, LastIsAChange, LastJobTells, delivery
<1>4. \A e \in Events, c \in Dispatchers : AtWorkOn(c, e)' => AtWorkOn(c, e) \/ row[e].kind # "none"
  <2>1. \A c \in Dispatchers \ {d} : work'[c] = work[c]
    BY <1>1 DEF DispatchStep, ClaimBatch, AddJobs, AddFails, MarkPermanentFailure, MarkPublished,
           MarkPublishedFails, MarkRetryableFailure, AbandonBatch, Die
  <2>2. CASE \E B \in SUBSET Events : ClaimBatch(d, B)
    <3>1. PICK B \in SUBSET Events : ClaimBatch(d, B)
      BY <2>2
    <3>2. \A e \in B : row[e].kind # "none"
      BY <3>1, ClaimedRows DEF ClaimBatch
    <3> QED BY <1>1, <2>1, <3>1, <3>2 DEF ClaimBatch, AtWorkOn
  <2>3. CASE \E e \in Events : AddJobs(d, e) \/ AddFails(d, e) \/ MarkPermanentFailure(d, e)
    BY <1>1, <2>1, <2>3 DEF AddJobs, AddFails, MarkPermanentFailure, AtWorkOn, Works
  <2>4. CASE MarkPublished(d) \/ MarkPublishedFails(d) \/ MarkRetryableFailure(d)
    BY <1>1, <2>1, <2>4 DEF MarkPublished, MarkPublishedFails, MarkRetryableFailure, AtWorkOn, Works
  <2>5. CASE AbandonBatch(d) \/ Die(d)
    BY <1>1, <2>1, <2>5 DEF AbandonBatch, Die, AtWorkOn, NoWork
  <2> QED BY <2>2, <2>3, <2>4, <2>5 DEF DispatchStep
<1>5. UnwrittenIsNowhere'
  BY <1>0, <1>2, <1>4 DEF TellInv, UnwrittenIsNowhere
<1>6. \A e \in Events : row[e].kind = "status" /\ job'[e].state = "none" =>
        \A c \in Dispatchers : ~(work'[c].step = "mark" /\ work'[c].now = e)
  <2>1. \A c \in Dispatchers \ {d} : work'[c] = work[c]
    BY <1>1 DEF DispatchStep, ClaimBatch, AddJobs, AddFails, MarkPermanentFailure, MarkPublished,
           MarkPublishedFails, MarkRetryableFailure, AbandonBatch, Die
  <2>2. CASE \E p \in Events : AddJobs(d, p)
    <3>1. PICK p \in Events : AddJobs(d, p)
      BY <2>2
    <3>2. work'[d].now = p /\ (row[p].kind = "status" => job'[p].state # "none")
      BY <1>1, <3>1 DEF AddJobs, Added, NoJob, Jobs
    <3> QED BY <1>2, <2>1, <3>2 DEF TellInv, AddedThenMarked
  <2>3. CASE work'[d].step # "mark" \/ (work'[d].step = work[d].step /\ work'[d].now = work[d].now)
    BY <1>2, <2>1, <2>3 DEF TellInv, AddedThenMarked
  <2>4. CASE \E p \in Events : MarkPermanentFailure(d, p)
    BY <1>1, <2>3, <2>4 DEF MarkPermanentFailure, Works
  <2>5. CASE \E p \in Events : AddFails(d, p)
    <3>1. work'[d].step = "fail"
      BY <1>1, <2>5 DEF AddFails
    <3> QED BY <2>3, <3>1
  <2>6. CASE MarkPublished(d) \/ MarkPublishedFails(d) \/ MarkRetryableFailure(d)
    <3>1. work'[d].step \in {"next", "fail"}
      BY <1>1, <2>6 DEF MarkPublished, MarkPublishedFails, MarkRetryableFailure, Works
    <3> QED BY <2>3, <3>1
  <2>7. CASE AbandonBatch(d) \/ Die(d) \/ \E B \in SUBSET Events : ClaimBatch(d, B)
    <3>1. CASE AbandonBatch(d) \/ Die(d)
      <4>1. work'[d] = NoWork
        BY <1>1, <3>1 DEF AbandonBatch, Die
      <4> QED BY <2>3, <4>1 DEF NoWork
    <3>2. CASE \E B \in SUBSET Events : ClaimBatch(d, B)
      <4>1. PICK B \in SUBSET Events :
              work' = [work EXCEPT ![d] = [step |-> "next", todo |-> B, now |-> 0]]
        BY <3>2 DEF ClaimBatch
      <4>2. work'[d].step = "next"
        BY <1>1, <4>1
      <4> QED BY <2>3, <4>2
    <3> QED BY <2>7, <3>1, <3>2
  <2> QED BY <2>2, <2>4, <2>5, <2>6, <2>7 DEF DispatchStep
<1>7. \A e \in Events : row'[e].status = "PUBLISHED" =>
        row[e].status = "PUBLISHED" \/ (work[d].step = "mark" /\ work[d].now = e)
  <2>1. CASE \E B \in SUBSET Events : ClaimBatch(d, B)
    <3>1. PICK B \in SUBSET Events : ClaimBatch(d, B)
      BY <2>1
    <3>2. \A e \in B : row'[e].status = "PROCESSING"
      <4>1. \A e \in B : row[e] \in Rows \ {NoRow}
        BY <3>1, ClaimedRows DEF ClaimBatch
      <4> QED BY <3>1, <4>1 DEF ClaimBatch, Rows
    <3> QED BY <3>1, <3>2 DEF ClaimBatch
  <2>2. CASE MarkPublished(d) \/ MarkPublishedFails(d)
    BY <1>1, <2>2 DEF MarkPublished, MarkPublishedFails, Published
  <2>3. CASE MarkRetryableFailure(d) \/ \E p \in Events : MarkPermanentFailure(d, p)
    <3>1. \A r \in Rows :
            /\ [r EXCEPT !.status = "FAILED", !.due = FALSE, !.holder = "nobody"].status = "FAILED"
            /\ [r EXCEPT !.status = "FAILED", !.tries = MaxAttempts, !.due = FALSE,
                         !.holder = "nobody"].status = "FAILED"
      BY DEF Rows, NoRow
    <3>2. CASE MarkRetryableFailure(d)
      BY <1>1, <3>1, <3>2 DEF MarkRetryableFailure
    <3>3. CASE \E p \in Events : MarkPermanentFailure(d, p)
      BY <1>1, <3>1, <3>3 DEF MarkPermanentFailure
    <3> QED BY <2>3, <3>2, <3>3
  <2>4. CASE UNCHANGED row
    BY <2>4
  <2> QED BY <2>1, <2>2, <2>3, <2>4 DEF DispatchStep, AddJobs, AddFails, AbandonBatch, Die
<1>8. AddedThenMarked'
  BY <1>0, <1>2, <1>6, <1>7 DEF TellInv, AddedThenMarked
<1> QED BY <1>3, <1>5, <1>8 DEF TellInv

(* A new change starts with no job and no dispatcher at work on it. *)
LEMMA TellEvent ==
  ASSUME TypeInv, TellInv, NEW e \in Events, EventStep(e)
  PROVE  TellInv'
<1>0. UNCHANGED <<delivery, told, work>>
  BY DEF EventStep, WriteEvent, BackoffOver, LeaseRunsOut, Replay, Recover, dispatch
<1>1. /\ current \in Events \cup {0} /\ 0 \notin Events /\ "none" \notin Kinds
      /\ row \in [Events -> Rows] /\ job \in [Events -> Jobs]
  BY OutboxAssumption DEF TypeInv, TypeOK, OutboxTypeOK
<1>2. CASE \E k \in Kinds : WriteEvent(e, k)
  <2>1. PICK k \in Kinds : WriteEvent(e, k)
    BY <1>2
  <2>2. /\ row[e].kind = "none" /\ job' = job
        /\ current' = IF k = "status" THEN e ELSE current
        /\ row'[e].kind = k /\ row'[e].status = "PENDING"
        /\ \A p \in Events \ {e} : row'[p] = row[p]
    BY <1>1, <2>1 DEF WriteEvent, Written, NoRow
  <2>3. job[e].state = "none" /\ \A d \in Dispatchers : ~AtWorkOn(d, e)
    BY <2>2 DEF TellInv, UnwrittenIsNowhere
  <2>4. UnwrittenIsNowhere' /\ LastIsAChange'
    BY <1>0, <1>1, <2>2 DEF TellInv, UnwrittenIsNowhere, LastIsAChange, AtWorkOn
  <2>5. AddedThenMarked'
    BY <1>0, <1>1, <2>2, <2>3 DEF TellInv, AddedThenMarked, AtWorkOn
  <2>6. LastJobTells'
    BY <1>0, <1>1, <2>2, <2>3 DEF TellInv, LastJobTells, delivery
  <2> QED BY <2>4, <2>5, <2>6 DEF TellInv
<1>3. CASE BackoffOver(e) \/ LeaseRunsOut(e) \/ Replay(e)
  <2>1. \A r \in Rows :
          /\ [r EXCEPT !.due = TRUE].kind = r.kind /\ [r EXCEPT !.due = TRUE].status = r.status
          /\ [r EXCEPT !.status = "PENDING", !.tries = 0, !.due = TRUE].kind = r.kind
          /\ [r EXCEPT !.status = "PENDING", !.tries = 0, !.due = TRUE].status = "PENDING"
    BY DEF Rows, NoRow
  <2>2. \A p \in Events : /\ row'[p].kind = row[p].kind
                          /\ row'[p].status = "PUBLISHED" => row[p].status = "PUBLISHED"
    BY <1>1, <1>3, <2>1, ZenonT(40) DEF BackoffOver, LeaseRunsOut, Replay
  <2>3. UNCHANGED <<current, job>>
    BY <1>3 DEF BackoffOver, LeaseRunsOut, Replay
  <2>4. UnwrittenIsNowhere' /\ AddedThenMarked'
    BY <1>0, <2>2, <2>3 DEF AtWorkOn, TellInv, UnwrittenIsNowhere, AddedThenMarked
  <2>5. LastIsAChange' /\ LastJobTells'
    BY <1>0, <1>1, <2>2, <2>3 DEF delivery, TellInv, LastIsAChange, LastJobTells
  <2> QED BY <2>4, <2>5 DEF TellInv
<1>4. CASE Recover(e)
  <2>1. /\ UNCHANGED <<current, row>>
        /\ \A p \in Events : job'[p] = job[p] \/ (row[p].kind = "status" /\ job'[p].state = "waiting")
    BY <1>1, <1>4 DEF Recover, Added, NoJob, dispatch
  <2> QED BY <1>0, <1>1, <2>1 DEF delivery, AtWorkOn, TellInv, UnwrittenIsNowhere, LastIsAChange,
             AddedThenMarked, LastJobTells
<1> QED BY <1>2, <1>3, <1>4 DEF EventStep

(* The job of the last change reads the last status, then tells it. *)
LEMMA TellJob ==
  ASSUME TypeInv, TellInv, NEW e \in Events, JobStep(e)
  PROVE  TellInv'
<1>0. UNCHANGED <<current, row, work>>
  BY DEF JobStep, ReadAggregate, PersistEmail, PersistInApp, JobFails, dispatch
<1>1. /\ current \in Events \cup {0} /\ job \in [Events -> Jobs]
      /\ mail \in [Letters -> [status : MailStatus, tries : 0..MaxSends]]
  BY DEF TypeInv, TypeOK, OutboxTypeOK, DeliveryTypeOK
<1>2. /\ job[e].state # "none" /\ job'[e].state # "none"
      /\ \A p \in Events \ {e} : job'[p] = job[p]
  BY <1>1 DEF JobStep, ReadAggregate, PersistEmail, PersistInApp, JobFails, Jobs
<1>3. UnwrittenIsNowhere' /\ LastIsAChange' /\ AddedThenMarked'
  BY <1>0, <1>2 DEF TellInv, UnwrittenIsNowhere, LastIsAChange, AddedThenMarked, AtWorkOn
<1>4. told \subseteq told' /\ \A l \in Letters : mail[l] # NoMail => mail'[l] # NoMail
  <2>1. CASE PersistEmail(e)
    BY <2>1 DEF PersistEmail
  <2>2. CASE ReadAggregate(e) \/ PersistInApp(e) \/ JobFails(e)
    BY <2>2 DEF ReadAggregate, PersistInApp, JobFails, delivery
  <2> QED BY <2>1, <2>2 DEF JobStep
<1>5. LastJobTells'
  <2>1. CASE current # e \/ current = 0
    BY <1>0, <1>1, <1>2, <1>4, <2>1 DEF TellInv, LastJobTells
  <2>2. CASE current = e /\ ReadAggregate(e)
    BY <1>0, <1>1, <2>2 DEF ReadAggregate, LastJobTells, Jobs
  <2>3. CASE current = e /\ PersistEmail(e)
    <3>1. job[e].saw = e /\ job'[e].saw = e /\ job'[e].state = "inapp"
      BY <1>1, <2>3, OutboxAssumption DEF PersistEmail, TellInv, LastJobTells, Jobs
    <3>2. e \in Letters => mail'[e] # NoMail
      BY <2>3, <3>1 DEF PersistEmail, NoMail
    <3> QED BY <1>0, <2>3, <3>1, <3>2 DEF LastJobTells
  <2>4. CASE current = e /\ PersistInApp(e)
    BY <1>0, <1>1, <1>4, <2>4, OutboxAssumption DEF PersistInApp, TellInv, LastJobTells, Jobs
  <2>5. CASE current = e /\ JobFails(e)
    BY <1>0, <1>1, <2>5 DEF JobFails, LastJobTells
  <2> QED BY <2>1, <2>2, <2>3, <2>4, <2>5 DEF JobStep
<1> QED BY <1>3, <1>5 DEF TellInv

LEMMA TellRest ==
  ASSUME TypeInv, TellInv,
         RedisLost \/ UNCHANGED vars \/ \E l \in Letters : DeliveryStep(l) /\ UNCHANGED outbox
  PROVE  TellInv'
<1>1. CASE RedisLost
  <2>1. \A p \in Events : IF job[p].state = "none" THEN job'[p].state = "none" ELSE job'[p].state = "lost"
    BY <1>1 DEF RedisLost, NoJob
  <2>2. UNCHANGED <<delivery, current, dispatch, told>> /\ current \in Events \cup {0}
    BY <1>1 DEF RedisLost, TypeInv, TypeOK, OutboxTypeOK
  <2> QED BY <2>1, <2>2 DEF delivery, dispatch, AtWorkOn, TellInv, UnwrittenIsNowhere, LastIsAChange,
             AddedThenMarked, LastJobTells
<1>2. CASE UNCHANGED vars
  BY <1>2 DEF vars, outbox, delivery, dispatch, AtWorkOn, TellInv, UnwrittenIsNowhere, LastIsAChange,
              AddedThenMarked, LastJobTells
<1>3. ASSUME NEW l \in Letters, DeliveryStep(l), UNCHANGED outbox
      PROVE  TellInv'
  <2>1. \A m \in Letters : mail[m] # NoMail => mail'[m] # NoMail
    <3>1. mail \in [Letters -> [status : MailStatus, tries : 0..MaxSends]]
      BY DEF TypeInv, TypeOK, DeliveryTypeOK
    <3>2. mail'[l] = mail[l] \/ mail'[l].status \in {"SENT", "FAILED", "QUEUED"}
      BY <1>3, <3>1 DEF DeliveryStep, GiveUp, BeginSend, ProviderAccepts, ProviderRefuses,
                        RecordSent, RecordFailure, Rollback, GrowOld, ProviderForgets
    <3>3. \A m \in Letters \ {l} : mail'[m] = mail[m]
      BY <1>3, <3>1 DEF DeliveryStep, GiveUp, BeginSend, ProviderAccepts, ProviderRefuses,
                        RecordSent, RecordFailure, Rollback, GrowOld, ProviderForgets
    <3> QED BY <3>2, <3>3 DEF NoMail
  <2> QED BY <1>3, <2>1 DEF outbox, dispatch, AtWorkOn, TellInv, UnwrittenIsNowhere, LastIsAChange,
             AddedThenMarked, LastJobTells
<1> QED BY <1>1, <1>2, <1>3

(* When every change is published and its job done, the buyer has been told *)
(* the present status, in whatever order the jobs of the changes ran.       *)
THEOREM LastStatusIsTold == Spec => []LastStatusTold
<1>1. TypeInv /\ TellInv => LastStatusTold
  <2> SUFFICES ASSUME TypeInv, TellInv, current # 0,
                      \A e \in Events : Written(e) /\ row[e].kind = "status" => Delivered(e)
               PROVE  current \in told /\ (current \in Letters => mail[current] # NoMail)
    BY DEF LastStatusTold
  <2>1. current \in Events /\ row[current].kind = "status"
    BY DEF TypeInv, TypeOK, OutboxTypeOK, TellInv, LastIsAChange
  <2>2. Delivered(current)
    BY <2>1 DEF Written, NoRow
  <2>3. job[current].state = "done"
    BY <2>1, <2>2 DEF Delivered, TellInv, AddedThenMarked
  <2> QED BY <2>3 DEF TellInv, LastJobTells
<1>2. Init => TypeInv /\ TellInv
  BY TypingInit, TellInit
<1>3. TypeInv /\ TellInv /\ [Next]_vars => TypeInv' /\ TellInv'
  BY TypeInvInductive, TellDispatch, TellEvent, TellJob, TellRest DEF Next
<1> QED BY <1>1, <1>2, <1>3, PTL DEF Spec
=============================================================================
