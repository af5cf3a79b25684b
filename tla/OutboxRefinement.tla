----------------------------- MODULE OutboxRefinement -----------------------------
(* The notifications table as a record of the lives of its notifications: the  *)
(* stage is read from the status column, a deleted row is told from one that   *)
(* was never stored by its id, and retry_count counts the failures.  A row     *)
(* that two batches have held at once is contested, whatever its columns say.  *)
EXTENDS OutboxProperties

ShownStage(n) ==
    CASE status[n] = "ABSENT" -> IF IsNew(n) THEN "none" ELSE "deleted"
      [] status[n] = "PENDING" -> "due"
      [] status[n] = "FAILED" -> "failed"
      [] status[n] = "SENT" -> "delivered"
      [] status[n] = "READ" -> "seen"

StageOf(n) == IF n \in shared THEN "contested" ELSE ShownStage(n)

Unshared(counter) == [n \in Rows |-> IF n \in shared THEN 0 ELSE counter[n]]

Life == INSTANCE NotificationLife WITH
    Limit <- MaxRetry,
    stage <- [n \in Rows |-> StageOf(n)],
    accepted <- Unshared(pushes),
    failures <- Unshared(retryCount)

(* However many background tasks overlap, every step of a flush, of the retry, *)
(* of the users and of a crash is a step in the life of each notification that *)
(* no two batches have held at once, or none: no batch writes an outcome over  *)
(* another one, counts a failure twice or after a later one, or brings a       *)
(* deleted row back.                                                           *)
ImplementsNotificationLife == Life!Spec

===================================================================================
