--------------------------- MODULE NotificationOutbox ---------------------------
(* The delivery of the notifications that requests have stored: the background *)
(* tasks that flush the PENDING rows, the scheduled job that retries the       *)
(* FAILED ones, the users who read, mute, register a device or withdraw        *)
(* meanwhile, and the process crashing between any two steps.                  *)
(*                                                                             *)
(* A batch is one database session of NotificationWorker._send_batch: it reads *)
(* its rows and tokens (StartFlush, StartRetry), calls FCM for one row after   *)
(* the other (PushAnswered), and stores all the outcomes in one commit         *)
(* (CommitBatch).  An exception out of one call ends it without a commit       *)
(* (PushRaises).                                                               *)
EXTENDS Integers, Sequences, FiniteSets

CONSTANTS
    Rows,         \* notification ids
    Users,        \* their recipients
    Recipient,    \* notifications.user_id
    Flushers,     \* threads that run the background tasks of answered requests
    Retrier,      \* the thread of the scheduled job: it runs at most once at a time
    MaxRetry,     \* _MAX_RETRY
    BatchLimit,   \* LIMIT of the batch query
    Unflushed,    \* the rows stored by confirm_received, which schedules no flush
    Withdrawing,  \* bound: the users who may withdraw
    MaxCrashes,   \* bound: how often the process crashes
    MaxPushes,    \* bound: the pushes of a row that FCM may have accepted when a call raises
    NoBatch       \* the job is idle

ASSUME RecipientAssumption == Recipient \in [Rows -> Users]
ASSUME BoundsAssumption == MaxRetry \in Nat \ {0} /\ BatchLimit \in Nat \ {0} /\ MaxCrashes \in Nat
ASSUME PushesAssumption == MaxPushes \in Nat
ASSUME JobsAssumption == Retrier \notin Flushers
ASSUME SubsetsAssumption == Unflushed \subseteq Rows /\ Withdrawing \subseteq Users

VARIABLES
    alarm,       \* users.alarm_enabled
    withdrawn,   \* users.deleted
    token,       \* the user has a user_fcm_tokens row
    created,     \* the rows in the order of created_at
    status,      \* notifications.status; "ABSENT": not inserted, or deleted
    retryCount,  \* notifications.retry_count
    read,        \* notifications.read_at is set
    flushDue,    \* background tasks of answered requests that have not started
    batch,       \* by job: its batch, or NoBatch
    pushes,      \* history: how many pushes of the row FCM has accepted
    shared,      \* history: the rows that two batches have held at once
    crashes      \* how often the process has crashed

userVars == <<alarm, withdrawn, token>>
rowVars == <<created, status, retryCount, read>>
vars == <<userVars, rowVars, flushDue, batch, pushes, shared, crashes>>

Jobs == Flushers \cup {Retrier}
Status == {"PENDING", "SENT", "FAILED", "READ"}

(* todo: where in created the rows still to be pushed are; was, tries: status  *)
(* and retry_count as they were read; tokens: the users whose token was found; *)
(* sent: the rows FCM has reported as delivered.                               *)
Batches == [rows : (SUBSET Rows) \ {{}}, todo : SUBSET DOMAIN created, was : {"PENDING", "FAILED"},
            tries : [Rows -> Nat], tokens : SUBSET Users, sent : SUBSET Rows]

TypeOK ==
    /\ alarm \in [Users -> BOOLEAN]
    /\ withdrawn \in [Users -> BOOLEAN]
    /\ token \in [Users -> BOOLEAN]
    /\ created \in Seq(Rows)
    /\ status \in [Rows -> Status \cup {"ABSENT"}]
    /\ retryCount \in [Rows -> Nat]
    /\ read \in [Rows -> BOOLEAN]
    /\ flushDue \in Nat
    /\ batch \in [Jobs -> Batches \cup {NoBatch}]
    /\ pushes \in [Rows -> Nat]
    /\ shared \in SUBSET Rows
    /\ crashes \in 0..MaxCrashes

(* Everybody wants notifications; a device is registered, or not yet.          *)
Init ==
    /\ alarm = [u \in Users |-> TRUE]
    /\ withdrawn = [u \in Users |-> FALSE]
    /\ token \in [Users -> BOOLEAN]
    /\ created = <<>>
    /\ status = [n \in Rows |-> "ABSENT"]
    /\ retryCount = [n \in Rows |-> 0]
    /\ read = [n \in Rows |-> FALSE]
    /\ flushDue = 0
    /\ batch = [j \in Jobs |-> NoBatch]
    /\ pushes = [n \in Rows |-> 0]
    /\ shared = {}
    /\ crashes = 0

--------------------------------------------------------------------------------
(* Rows appear.                                                                *)

IsNew(n) == ~\E i \in DOMAIN created : created[i] = n

(* A request commits a row; the endpoint schedules a flush after its answer,   *)
(* except the one of confirm_received.                                         *)
Store(n) ==
    /\ IsNew(n)
    /\ alarm[Recipient[n]] /\ ~withdrawn[Recipient[n]]
    /\ created' = Append(created, n)
    /\ status' = [status EXCEPT ![n] = "PENDING"]
    /\ flushDue' = IF n \in Unflushed THEN flushDue ELSE flushDue + 1
    /\ UNCHANGED <<userVars, retryCount, read, batch, pushes, shared, crashes>>

AfterPush(n, accepted) == IF accepted THEN [pushes EXCEPT ![n] = @ + 1] ELSE pushes

(* FCMService.send_to_user, behind POST /notifications/send: the row is stored *)
(* with its outcome, and the switch of the user is not looked at.  A call that *)
(* raises fails the request, which rolls its row back: nothing has changed.    *)
SendToUser(n) ==
    /\ IsNew(n) /\ ~withdrawn[Recipient[n]]
    /\ created' = Append(created, n)
    /\ \E accepted \in BOOLEAN :
         /\ accepted => token[Recipient[n]]
         /\ status' = [status EXCEPT ![n] = IF accepted THEN "SENT" ELSE "FAILED"]
         /\ pushes' = AfterPush(n, accepted)
    /\ UNCHANGED <<userVars, retryCount, read, flushDue, batch, shared, crashes>>

--------------------------------------------------------------------------------
(* Batches.                                                                    *)

(* ORDER BY created_at LIMIT: where the oldest BatchLimit of the rows found are. *)
Oldest(found) ==
    {i \in DOMAIN created :
        /\ created[i] \in found
        /\ Cardinality({k \in 1..i : created[k] \in found}) <= BatchLimit}

(* Mutant: <= for <. *)
RetryableOneMore(n) == status[n] = "FAILED" /\ retryCount[n] <= MaxRetry

(* Mutant: a row that was sent is retried too. *)
RetryableAlsoSent(n) == status[n] \in {"FAILED", "SENT"} /\ retryCount[n] < MaxRetry

Retryable(n) == status[n] = "FAILED" /\ retryCount[n] < MaxRetry

Pending(n) == status[n] = "PENDING"

Held == UNION {batch[k].rows : k \in {k \in Jobs : batch[k] # NoBatch}}

(* Mutant: an empty batch is gone through as well. *)
StartAnyBatch(j, was, todo) ==
    /\ batch' = [batch EXCEPT ![j] =
            [rows |-> {created[i] : i \in todo}, todo |-> todo, was |-> was, tries |-> retryCount,
             tokens |-> {u \in Users : token[u]}, sent |-> {}]]
    /\ UNCHANGED shared

(* An empty batch returns at once. *)
StartBatch(j, was, todo) ==
    /\ batch' = IF todo = {} THEN batch ELSE
        [batch EXCEPT ![j] =
            [rows |-> {created[i] : i \in todo}, todo |-> todo, was |-> was, tries |-> retryCount,
             tokens |-> {u \in Users : token[u]}, sent |-> {}]]
    /\ shared' = shared \cup (Held \cap {created[i] : i \in todo})

StartFlush(j) ==
    /\ batch[j] = NoBatch /\ flushDue > 0
    /\ flushDue' = flushDue - 1
    /\ StartBatch(j, "PENDING", Oldest({n \in Rows : Pending(n)}))
    /\ UNCHANGED <<userVars, rowVars, pushes, crashes>>

StartRetry ==
    /\ batch[Retrier] = NoBatch
    /\ \E n \in Rows : Retryable(n)
    /\ StartBatch(Retrier, "FAILED", Oldest({n \in Rows : Retryable(n)}))
    /\ UNCHANGED <<userVars, rowVars, flushDue, pushes, crashes>>

(* The next row of a batch is the oldest one it has left. *)
IsNext(i, b) == i \in b.todo /\ \A k \in b.todo : i <= k

(* Mutant: a row without a token counts as sent. *)
PushIgnoresTokens(j) ==
    /\ batch[j] # NoBatch
    /\ \E i \in DOMAIN created, accepted \in BOOLEAN :
         /\ IsNext(i, batch[j])
         /\ accepted => Recipient[created[i]] \in batch[j].tokens
         /\ batch' = [batch EXCEPT ![j].todo = @ \ {i}, ![j].sent = @ \cup {created[i]}]
         /\ pushes' = AfterPush(created[i], accepted)
    /\ UNCHANGED <<userVars, rowVars, flushDue, shared, crashes>>

(* The row has no token, or send_notification returns: FCM has accepted the    *)
(* push, or has not (the token is unregistered, or FCM is not initialized).    *)
PushAnswered(j) ==
    /\ batch[j] # NoBatch
    /\ \E i \in DOMAIN created, accepted \in BOOLEAN :
         /\ IsNext(i, batch[j])
         /\ accepted => Recipient[created[i]] \in batch[j].tokens
         /\ batch' = [batch EXCEPT ![j].todo = @ \ {i},
                 ![j].sent = IF accepted THEN @ \cup {created[i]} ELSE @]
         /\ pushes' = AfterPush(created[i], accepted)
    /\ UNCHANGED <<userVars, rowVars, flushDue, shared, crashes>>

(* Any other error, a lost answer among them, leaves send_notification as an   *)
(* AttributeError: firebase_admin.messaging has no InvalidArgumentError, which *)
(* the second of its except clauses names.  The batch ends without a commit.   *)
PushRaises(j) ==
    /\ batch[j] # NoBatch
    /\ \E i \in DOMAIN created, accepted \in BOOLEAN :
         /\ IsNext(i, batch[j]) /\ Recipient[created[i]] \in batch[j].tokens
         /\ pushes' = AfterPush(created[i], accepted)
    /\ \A n \in batch[j].rows : pushes'[n] <= MaxPushes
    /\ batch' = [batch EXCEPT ![j] = NoBatch]
    /\ UNCHANGED <<userVars, rowVars, flushDue, shared, crashes>>

Push(j) == PushAnswered(j) \/ PushRaises(j)

(* Mutant: a failure is not counted. *)
StoreOutcomesUncounted(b) ==
    status' = [n \in Rows |-> IF n \in b.sent THEN "SENT"
                              ELSE IF n \in b.rows /\ b.was = "PENDING" THEN "FAILED"
                              ELSE status[n]] /\ UNCHANGED retryCount

(* The columns that differ from what was read: a row that fails again keeps    *)
(* its FAILED, so that column is not written.                                  *)
StoreOutcomes(b) ==
    /\ status' = [n \in Rows |-> IF n \in b.sent THEN "SENT"
                                 ELSE IF n \in b.rows /\ b.was = "PENDING" THEN "FAILED"
                                 ELSE status[n]]
    /\ retryCount' = [n \in Rows |-> IF n \in b.rows \ b.sent THEN b.tries[n] + 1
                                     ELSE retryCount[n]]

(* A row that has been deleted meanwhile makes the ORM give up the whole       *)
(* transaction (StaleDataError): no outcome of the batch is stored.            *)
CommitBatch(j) ==
    /\ batch[j] # NoBatch /\ batch[j].todo = {}
    /\ IF \E n \in batch[j].rows : status[n] = "ABSENT"
       THEN UNCHANGED <<status, retryCount>>
       ELSE StoreOutcomes(batch[j])
    /\ batch' = [batch EXCEPT ![j] = NoBatch]
    /\ UNCHANGED <<userVars, created, read, flushDue, pushes, shared, crashes>>

(* The process restarts: open sessions roll back, background tasks are lost.   *)
Crash ==
    /\ crashes < MaxCrashes
    /\ crashes' = crashes + 1
    /\ flushDue' = 0
    /\ batch' = [j \in Jobs |-> NoBatch]
    /\ UNCHANGED <<userVars, rowVars, pushes, shared>>

--------------------------------------------------------------------------------
(* Users.                                                                      *)

(* mark_notifications_read: in SQL, on an unread row in whatever status. *)
MarkRead(n) ==
    /\ status[n] # "ABSENT" /\ ~read[n]
    /\ read' = [read EXCEPT ![n] = TRUE]
    /\ status' = [status EXCEPT ![n] = "READ"]
    /\ UNCHANGED <<userVars, created, retryCount, flushDue, batch, pushes, shared, crashes>>

UpdateAlarm(u) ==
    /\ ~withdrawn[u]
    /\ alarm' = [alarm EXCEPT ![u] = ~@]
    /\ UNCHANGED <<withdrawn, token, rowVars, flushDue, batch, pushes, shared, crashes>>

UpdateFcmToken(u) ==
    /\ ~withdrawn[u] /\ ~token[u]
    /\ token' = [token EXCEPT ![u] = TRUE]
    /\ UNCHANGED <<alarm, withdrawn, rowVars, flushDue, batch, pushes, shared, crashes>>

Withdraw(u) ==
    /\ u \in Withdrawing /\ ~withdrawn[u]
    /\ withdrawn' = [withdrawn EXCEPT ![u] = TRUE]
    /\ alarm' = [alarm EXCEPT ![u] = FALSE]
    /\ token' = [token EXCEPT ![u] = FALSE]
    /\ status' = [n \in Rows |-> IF Recipient[n] = u THEN "ABSENT" ELSE status[n]]
    /\ UNCHANGED <<created, retryCount, read, flushDue, batch, pushes, shared, crashes>>

--------------------------------------------------------------------------------
Next ==
    \/ \E n \in Rows : Store(n) \/ SendToUser(n) \/ MarkRead(n)
    \/ \E j \in Flushers : StartFlush(j)
    \/ StartRetry
    \/ \E j \in Jobs : Push(j) \/ CommitBatch(j)
    \/ \E u \in Users : UpdateAlarm(u) \/ UpdateFcmToken(u) \/ Withdraw(u)
    \/ Crash

(* A background task that is due gets a thread of the pool, the scheduler      *)
(* starts the retry every five minutes, and a thread that runs a batch goes    *)
(* on with it: FCM answers, or its client times out, which raises.             *)
Fairness ==
    /\ \A j \in Flushers : WF_vars(StartFlush(j))
    /\ WF_vars(StartRetry)
    /\ \A j \in Jobs : WF_vars(Push(j)) /\ WF_vars(CommitBatch(j))

Spec == Init /\ [][Next]_vars /\ Fairness

================================================================================
