---------------------------- MODULE OutboxProperties ----------------------------
(* What the delivery of notifications promises.                                *)
EXTENDS NotificationOutbox

(* No row is tried again once it has failed MaxRetry times, however the        *)
(* batches of the background tasks and of the scheduled job overlap.           *)
RetriesBounded == \A n \in Rows : retryCount[n] <= MaxRetry

(* A row that shows SENT was accepted by FCM: no interleaving of batches, of   *)
(* readers and of crashes stores a delivery that did not happen.               *)
SentWasPushed == \A n \in Rows : status[n] = "SENT" => pushes[n] > 0

(* A row that is stored as SENT is pushed again only if two batches have held  *)
(* it at once: a flush, a retry or a user that comes later never causes it.    *)
SentIsNotPushedAgain ==
    [][\A n \in Rows : pushes'[n] > pushes[n] => status[n] # "SENT" \/ n \in shared]_vars

(* A failed delivery stays retryable for ever only if calls of FCM raise for   *)
(* ever: otherwise it is delivered, read, deleted or given up, whatever        *)
(* overlaps, crashes and withdrawals there are on the way.  A call that always *)
(* raises ends every retry before its commit, so no failure of the batch is    *)
(* ever counted.                                                               *)
FailureIsSettled ==
    \A n \in Rows :
        \/ Retryable(n) ~> ~Retryable(n)
        \/ []<><<\E j \in Jobs : PushRaises(j)>>_vars

--------------------------------------------------------------------------------
(* What docs/product-specs/notification-policy.md says.                        *)

(* After the answer of the request its PENDING notifications are sent.         *)
PendingIsTried == \A n \in Rows : Pending(n) ~> ~Pending(n)

================================================================================
