----------------------------- MODULE EmailDelivery -----------------------------
(***************************************************************************)
(* Delivery of queued emails. Any number of API instances run the          *)
(* background task that takes one queued Notification row after another:   *)
(* it locks the row (rows locked by others are skipped), asks the mail     *)
(* provider to send under the row's idempotency key, and records the       *)
(* outcome, all in one database transaction. When that transaction is lost *)
(* after the provider was asked, the email is sent again under the same    *)
(* key: the provider forgets a key 24 hours after it first saw it, so the  *)
(* task gives up on rows that are 23 hours old.                            *)
(***************************************************************************)
EXTENDS Integers

CONSTANTS
  Letters,     \* the emails whose delivery a run follows, one per dedupe key
  MaxSends     \* attempts the task records before it gives up

ASSUME DeliveryAssumption == MaxSends \in Nat \ {0}

VARIABLES
  mail,        \* Notification.status and attempts of the EMAIL row
  old,         \* the row is older than maxAge
  tx,          \* the transaction that holds the row's lock
  remembered,  \* the provider knows the idempotency key
  inbox        \* how often the provider put the email in the recipient's inbox

delivery == <<mail, old, tx, remembered, inbox>>

NoMail     == [status |-> "NONE", tries |-> 0]
MailStatus == {"NONE", "QUEUED", "SENT", "FAILED"}

DeliveryInit ==
  /\ mail = [l \in Letters |-> NoMail]
  /\ old = [l \in Letters |-> FALSE]
  /\ tx = [l \in Letters |-> "none"]
  /\ remembered = [l \in Letters |-> FALSE]
  /\ inbox = [l \in Letters |-> 0]

(* What the task selects: undelivered rows nobody holds. Backoff is time,   *)
(* so a row may be due again at any moment.                                *)
OnlyPending(l)  == mail[l].status = "PENDING" /\ tx[l] = "none"  \* mutation of Deliverable
Deliverable(l)  == mail[l].status \in {"PENDING", "QUEUED"} /\ tx[l] = "none"
OutOfSends(l)   == mail[l].tries >= MaxSends  \* mutation of OutOfTries
OutOfTries(l)   == mail[l].tries >= MaxSends \/ old[l]

GiveUp(l) ==
  /\ Deliverable(l) /\ OutOfTries(l)
  /\ mail' = [mail EXCEPT ![l].status = "FAILED"]
  /\ UNCHANGED <<old, tx, remembered, inbox>>

BeginSend(l) ==
  /\ Deliverable(l) /\ ~OutOfTries(l)
  /\ tx' = [tx EXCEPT ![l] = "asking"]
  /\ UNCHANGED <<mail, old, remembered, inbox>>

(* The provider sends the email unless it knows the key; the answer may be *)
(* lost on the way back. Or it refuses, or is never reached.               *)
ProviderAccepts(l) ==
  /\ tx[l] = "asking"
  /\ inbox' = [inbox EXCEPT ![l] = IF remembered[l] THEN @ ELSE @ + 1]
  /\ remembered' = [remembered EXCEPT ![l] = TRUE]
  /\ \E answer \in {"accepted", "failed"} : tx' = [tx EXCEPT ![l] = answer]
  /\ UNCHANGED <<mail, old>>

ProviderRefuses(l) ==
  /\ tx[l] = "asking"
  /\ tx' = [tx EXCEPT ![l] = "failed"]
  /\ UNCHANGED <<mail, old, remembered, inbox>>

RecordSent(l) ==
  /\ tx[l] = "accepted"
  /\ mail' = [mail EXCEPT ![l] = [status |-> "SENT", tries |-> @.tries + 1]]
  /\ tx' = [tx EXCEPT ![l] = "none"]
  /\ UNCHANGED <<old, remembered, inbox>>

RecordFailure(l) ==
  /\ tx[l] = "failed"
  /\ mail' = [mail EXCEPT ![l] =
                [status |-> IF @.tries + 1 >= MaxSends THEN "FAILED" ELSE "QUEUED",
                 tries |-> @.tries + 1]]
  /\ tx' = [tx EXCEPT ![l] = "none"]
  /\ UNCHANGED <<old, remembered, inbox>>

(* The instance dies, or the transaction fails: nothing is recorded. *)
Rollback(l) ==
  /\ tx[l] # "none"
  /\ tx' = [tx EXCEPT ![l] = "none"]
  /\ UNCHANGED <<mail, old, remembered, inbox>>

(* 23 hours pass since the row was created, then the 24 hours of the        *)
(* provider; both matter while the row is undelivered. A transaction lasts *)
(* 15 seconds at most: none that began before the first is open at the     *)
(* second.                                                                 *)
GrowOld(l) ==
  /\ mail[l].status = "QUEUED" /\ ~old[l]
  /\ old' = [old EXCEPT ![l] = TRUE]
  /\ UNCHANGED <<mail, tx, remembered, inbox>>

ProviderForgets(l) ==
  /\ mail[l].status = "QUEUED" /\ old[l] /\ remembered[l] /\ tx[l] = "none"
  /\ remembered' = [remembered EXCEPT ![l] = FALSE]
  /\ UNCHANGED <<mail, old, tx, inbox>>

DeliveryStep(l) ==
  \/ GiveUp(l)
  \/ BeginSend(l)
  \/ ProviderAccepts(l)
  \/ ProviderRefuses(l)
  \/ RecordSent(l)
  \/ RecordFailure(l)
  \/ Rollback(l)
  \/ GrowOld(l)
  \/ ProviderForgets(l)

-----------------------------------------------------------------------------
DeliveryTypeOK ==
  /\ mail \in [Letters -> [status : MailStatus, tries : 0..MaxSends]]
  /\ old \in [Letters -> BOOLEAN] /\ remembered \in [Letters -> BOOLEAN]
  /\ tx \in [Letters -> {"none", "asking", "accepted", "failed"}]
  /\ inbox \in [Letters -> Nat]

(* Whatever answers and transactions are lost, nobody gets an email twice. *)
EmailedOnce == \A l \in Letters : inbox[l] <= 1
=============================================================================
