------------------------------ MODULE OutboxProofs ------------------------------
(* The safety of the delivery of notifications, for any rows, users, limits,   *)
(* number of background tasks and number of crashes.                           *)
EXTENDS OutboxRefinement, TLAPS

USE DEF userVars, rowVars

(* A row nobody has stored has never been tried, nor has a row that waits for  *)
(* its first flush.                                                            *)
NewRowsUntouched ==
    \A n \in Rows : IsNew(n) => status[n] = "ABSENT" /\ retryCount[n] = 0
PendingUntried == \A n \in Rows : status[n] = "PENDING" => retryCount[n] = 0

(* What a batch has read stays good enough for what it will write: its rows    *)
(* exist, none had used up its retries, a row of a retry does not wait for a   *)
(* flush, and what it will store as sent has been pushed.                      *)
BatchSound(b) ==
    /\ b.sent \subseteq b.rows
    /\ \A i \in b.todo : created[i] \in b.rows
    /\ \A n \in b.rows : ~IsNew(n) /\ b.tries[n] < MaxRetry
    /\ b.was = "FAILED" => \A n \in b.rows : status[n] # "PENDING"
    /\ \A n \in b.sent : pushes[n] > 0

BatchesSound == \A j \in Jobs : batch[j] # NoBatch => BatchSound(batch[j])

DeliveryInv ==
    /\ TypeOK /\ NewRowsUntouched /\ PendingUntried /\ BatchesSound
    /\ RetriesBounded /\ SentWasPushed

(* A row that no two batches have held at once is in one batch at most, and    *)
(* until that batch commits only its user changes it.                          *)
BatchesApart ==
    \A j \in Jobs : batch[j] # NoBatch =>
        \A n \in batch[j].rows \ shared :
            /\ status[n] \in {batch[j].was, "READ", "ABSENT"}
            /\ \A k \in Jobs \ {j} : batch[k] # NoBatch => n \notin batch[k].rows

--------------------------------------------------------------------------------
(* What no step takes back, and what a batch needs of that.                    *)

Later ==
    /\ DOMAIN created \subseteq DOMAIN created'
    /\ \A i \in DOMAIN created : created'[i] = created[i]
    /\ \A n \in Rows : ~IsNew(n) => ~IsNew(n)'
    /\ \A n \in Rows : status'[n] = "PENDING" => status[n] = "PENDING" \/ IsNew(n)
    /\ \A n \in Rows : pushes[n] > 0 => pushes'[n] > 0

LEMMA BatchSoundLater ==
  ASSUME NEW b, b.rows \subseteq Rows, b.todo \subseteq DOMAIN created, BatchSound(b), Later
  PROVE  BatchSound(b)'
  BY DEF BatchSound, Later

LEMMA AppendCreated ==
  ASSUME TypeOK, NEW n \in Rows, created' = Append(created, n)
  PROVE  /\ created' \in Seq(Rows)
         /\ DOMAIN created \subseteq DOMAIN created'
         /\ \A i \in DOMAIN created : created'[i] = created[i]
         /\ \A m \in Rows : IsNew(m)' <=> IsNew(m) /\ m # n
<1>1. created \in Seq(Rows)
  BY DEF TypeOK
<1>2. /\ created' \in Seq(Rows) /\ DOMAIN created = 1 .. Len(created) /\ Len(created) \in Nat
      /\ DOMAIN created' = 1 .. (Len(created) + 1) /\ created'[Len(created) + 1] = n
      /\ \A i \in 1 .. Len(created) : created'[i] = created[i]
  BY <1>1
<1>3. DOMAIN created' = DOMAIN created \cup {Len(created) + 1}
  BY <1>2
<1>4. \A i \in DOMAIN created : created'[i] = created[i]
  BY <1>2
<1>5. \A m \in Rows : IsNew(m)' <=> IsNew(m) /\ m # n
  BY <1>2, <1>3, <1>4 DEF IsNew
<1>6. QED
  BY <1>2, <1>3, <1>4, <1>5

LEMMA SameCreated ==
  ASSUME UNCHANGED created
  PROVE  /\ \A m \in Rows : IsNew(m)' <=> IsNew(m)
         /\ DOMAIN created' = DOMAIN created
  BY DEF IsNew

(* A step that leaves a batch alone, or ends it, keeps it sound. *)
LEMMA BatchesKept ==
  ASSUME TypeOK, BatchesSound, Later,
         \A j \in Jobs : batch'[j] \in {batch[j], NoBatch}
  PROVE  BatchesSound'
<1> SUFFICES ASSUME NEW j \in Jobs, batch'[j] # NoBatch PROVE BatchSound(batch[j])'
  BY DEF BatchesSound
<1>1. PICK b : b = batch[j]
  OBVIOUS
<1>2. b = batch'[j] /\ BatchSound(b) /\ b.rows \subseteq Rows /\ b.todo \subseteq DOMAIN created
  BY <1>1 DEF BatchesSound, TypeOK, Batches
<1>3. BatchSound(b)'
  BY <1>2, BatchSoundLater
<1>4. QED
  BY <1>2, <1>3 DEF BatchSound

(* The batches stay well typed when rows are only added. *)
LEMMA BatchType ==
  ASSUME TypeOK, DOMAIN created \subseteq DOMAIN created',
         NEW j \in Jobs, batch'[j] \in {batch[j], NoBatch}
  PROVE  batch'[j] \in Batches' \cup {NoBatch}
  BY DEF TypeOK, Batches

LEMMA OutboxInit == Init => DeliveryInv
<1> SUFFICES ASSUME Init PROVE DeliveryInv
  OBVIOUS
<1>1. TypeOK
  BY BoundsAssumption DEF Init, TypeOK
<1>2. QED
  BY <1>1, BoundsAssumption DEF Init, DeliveryInv, NewRowsUntouched, PendingUntried, BatchesSound,
     RetriesBounded, SentWasPushed

LEMMA StoreKeeps ==
  ASSUME DeliveryInv, NEW n \in Rows, Store(n)
  PROVE  DeliveryInv'
<1>1. TypeOK /\ created' = Append(created, n) /\ IsNew(n)
  BY DEF DeliveryInv, Store
<1>2. /\ created' \in Seq(Rows) /\ DOMAIN created \subseteq DOMAIN created'
      /\ \A i \in DOMAIN created : created'[i] = created[i]
      /\ \A m \in Rows : IsNew(m)' <=> IsNew(m) /\ m # n
  BY <1>1, AppendCreated
<1>3. UNCHANGED <<batch, retryCount, pushes, shared>> /\ status' = [status EXCEPT ![n] = "PENDING"]
  BY DEF Store
<1>4. batch' \in [Jobs -> Batches' \cup {NoBatch}]
  BY <1>1, <1>2, <1>3, BatchType DEF TypeOK
<1>5. TypeOK'
  BY <1>1, <1>2, <1>4 DEF TypeOK, Store, Status
<1>6. Later
  BY <1>1, <1>2, <1>3 DEF Later, TypeOK
<1>7. BatchesSound'
  BY <1>1, <1>3, <1>6, BatchesKept DEF DeliveryInv
<1>8. NewRowsUntouched' /\ PendingUntried' /\ RetriesBounded' /\ SentWasPushed'
  BY <1>1, <1>2, <1>3 DEF DeliveryInv, TypeOK, NewRowsUntouched, PendingUntried, RetriesBounded,
     SentWasPushed
<1>9. QED
  BY <1>5, <1>7, <1>8 DEF DeliveryInv

(* A push leaves the counters counters, and a row that was pushed pushed.      *)
LEMMA AfterPushCounts ==
  ASSUME TypeOK, NEW n \in Rows, NEW accepted \in BOOLEAN, pushes' = AfterPush(n, accepted)
  PROVE  /\ pushes' \in [Rows -> Nat]
         /\ \A m \in Rows : pushes[m] > 0 => pushes'[m] > 0
         /\ accepted => pushes'[n] > 0
         /\ \A m \in Rows : pushes'[m] > pushes[m] => m = n
  BY DEF TypeOK, AfterPush

LEMMA SendToUserKeeps ==
  ASSUME DeliveryInv, NEW n \in Rows, SendToUser(n)
  PROVE  DeliveryInv'
<1>1. TypeOK /\ created' = Append(created, n) /\ IsNew(n)
  BY DEF DeliveryInv, SendToUser
<1>2. /\ created' \in Seq(Rows) /\ DOMAIN created \subseteq DOMAIN created'
      /\ \A i \in DOMAIN created : created'[i] = created[i]
      /\ \A m \in Rows : IsNew(m)' <=> IsNew(m) /\ m # n
  BY <1>1, AppendCreated
<1>3. UNCHANGED <<userVars, retryCount, read, flushDue, batch, shared, crashes>>
  BY DEF SendToUser
<1>4. /\ status' \in {[status EXCEPT ![n] = "SENT"], [status EXCEPT ![n] = "FAILED"]}
      /\ pushes' \in [Rows -> Nat]
      /\ \A m \in Rows : pushes[m] > 0 => pushes'[m] > 0
      /\ status'[n] = "SENT" => pushes'[n] > 0
  <2>1. PICK accepted \in BOOLEAN :
          /\ status' = [status EXCEPT ![n] = IF accepted THEN "SENT" ELSE "FAILED"]
          /\ pushes' = AfterPush(n, accepted)
    BY DEF SendToUser
  <2>2. QED
    BY <1>1, <2>1, AfterPushCounts DEF TypeOK
<1>5. batch' \in [Jobs -> Batches' \cup {NoBatch}]
  BY <1>1, <1>2, <1>3, BatchType DEF TypeOK
<1>6. TypeOK'
  BY <1>1, <1>2, <1>3, <1>4, <1>5 DEF TypeOK, Status
<1>7. Later
  BY <1>1, <1>2, <1>4 DEF Later, TypeOK
<1>8. BatchesSound'
  BY <1>1, <1>3, <1>7, BatchesKept DEF DeliveryInv
<1>9. NewRowsUntouched' /\ PendingUntried' /\ RetriesBounded' /\ SentWasPushed'
  BY <1>1, <1>2, <1>3, <1>4 DEF DeliveryInv, TypeOK, NewRowsUntouched, PendingUntried,
     RetriesBounded, SentWasPushed
<1>10. QED
  BY <1>6, <1>8, <1>9 DEF DeliveryInv

(* Whether a step adds no row: then only the statuses and batches matter.      *)
LEMMA NoNewRow ==
  ASSUME DeliveryInv, UNCHANGED <<created, pushes>>, TypeOK',
         \A j \in Jobs : batch'[j] \in {batch[j], NoBatch},
         \A n \in Rows : status'[n] = "PENDING" => status[n] = "PENDING"
  PROVE  BatchesSound'
<1>1. Later
  BY SameCreated DEF Later
<1>2. QED
  BY <1>1, BatchesKept DEF DeliveryInv

(* A batch starts with the oldest of the rows that were found.                 *)
LEMMA StartBatchKeeps ==
  ASSUME DeliveryInv, NEW j \in Jobs, NEW was \in {"PENDING", "FAILED"},
         NEW found \in SUBSET Rows, StartBatch(j, was, Oldest(found)),
         UNCHANGED <<userVars, rowVars, pushes, crashes>>, flushDue' \in Nat,
         \A n \in found : retryCount[n] < MaxRetry,
         was = "FAILED" => \A n \in found : status[n] # "PENDING"
  PROVE  DeliveryInv'
<1> DEFINE todo == Oldest(found)
           started == [rows |-> {created[i] : i \in todo}, todo |-> todo, was |-> was,
                       tries |-> retryCount, tokens |-> {u \in Users : token[u]}, sent |-> {}]
<1>1. TypeOK /\ todo \subseteq DOMAIN created /\ \A i \in todo : created[i] \in found
  BY DEF DeliveryInv, Oldest
<1>2. /\ started.rows = {created[i] : i \in todo} /\ started.todo = todo
      /\ started.was = was /\ started.tries = retryCount /\ started.sent = {}
  OBVIOUS
<1>3. batch' = batch \/ (todo # {} /\ batch' = [batch EXCEPT ![j] = started])
  BY DEF StartBatch
<1>3a. shared' \in SUBSET Rows
  <2>1. \A i \in todo : created[i] \in Rows
    BY <1>1
  <2>2. QED
    BY <1>1, <2>1 DEF StartBatch, TypeOK
<1>4. todo # {} => started \in Batches
  <2>1. \A i \in todo : created[i] \in Rows
    BY <1>1
  <2>2. todo # {} => {created[i] : i \in todo} \in (SUBSET Rows) \ {{}}
    BY <2>1
  <2>3. retryCount \in [Rows -> Nat]
    BY <1>1 DEF TypeOK
  <2>4. QED
    BY <1>1, <2>2, <2>3 DEF Batches
<1>5. BatchSound(started)
  BY <1>1, <1>2 DEF BatchSound, IsNew
<1> HIDE DEF started, todo
<1>6. batch' \in [Jobs -> Batches \cup {NoBatch}]
  BY <1>1, <1>3, <1>4 DEF TypeOK
<1>7. Batches' = Batches
  BY DEF Batches
<1>8. TypeOK'
  BY <1>1, <1>6, <1>7, <1>3a DEF TypeOK
<1>9. Later
  BY SameCreated DEF Later
<1>10. BatchesSound'
  <2> SUFFICES ASSUME NEW k \in Jobs, batch'[k] # NoBatch PROVE BatchSound(batch[k])'
    BY DEF BatchesSound
  <2>1. PICK b : b = batch'[k]
    OBVIOUS
  <2>2. BatchSound(b) /\ b.rows \subseteq Rows /\ b.todo \subseteq DOMAIN created
    <3>1. b \in Batches
      BY <1>6, <2>1
    <3>2. BatchSound(b)
      BY <1>1, <1>3, <1>5, <2>1 DEF DeliveryInv, BatchesSound, TypeOK
    <3>3. QED
      BY <3>1, <3>2 DEF Batches
  <2>3. BatchSound(b)'
    BY <1>9, <2>2, BatchSoundLater
  <2>4. QED
    BY <2>1, <2>3 DEF BatchSound
<1>11. NewRowsUntouched' /\ PendingUntried' /\ RetriesBounded' /\ SentWasPushed'
  BY SameCreated DEF DeliveryInv, NewRowsUntouched, PendingUntried, RetriesBounded, SentWasPushed
<1>12. QED
  BY <1>8, <1>10, <1>11 DEF DeliveryInv

LEMMA StartFlushKeeps ==
  ASSUME DeliveryInv, NEW j \in Flushers, StartFlush(j)
  PROVE  DeliveryInv'
<1> DEFINE found == {n \in Rows : Pending(n)}
<1>1. found \in SUBSET Rows /\ \A n \in found : retryCount[n] < MaxRetry
  BY BoundsAssumption DEF DeliveryInv, PendingUntried, Pending
<1>2. StartBatch(j, "PENDING", Oldest(found)) /\ UNCHANGED <<userVars, rowVars, pushes, crashes>>
  BY DEF StartFlush
<1>3. j \in Jobs /\ flushDue' \in Nat
  BY DEF Jobs, StartFlush, DeliveryInv, TypeOK
<1> HIDE DEF found
<1>4. QED
  BY <1>1, <1>2, <1>3, StartBatchKeeps

LEMMA StartRetryKeeps ==
  ASSUME DeliveryInv, StartRetry
  PROVE  DeliveryInv'
<1> DEFINE found == {n \in Rows : Retryable(n)}
<1>1. /\ found \in SUBSET Rows
      /\ \A n \in found : retryCount[n] < MaxRetry /\ status[n] # "PENDING"
  BY DEF Retryable
<1>2. /\ StartBatch(Retrier, "FAILED", Oldest(found))
      /\ UNCHANGED <<userVars, rowVars, pushes, crashes>>
  BY DEF StartRetry
<1>3. Retrier \in Jobs /\ flushDue' \in Nat
  BY DEF Jobs, StartRetry, DeliveryInv, TypeOK
<1> HIDE DEF found
<1>4. QED
  BY <1>1, <1>2, <1>3, StartBatchKeeps

(* One row of a batch is pushed, or found without a token: what the batch has  *)
(* left, and what it will store as sent.                                       *)
LEMMA PushAnsweredEffect ==
  ASSUME TypeOK, NEW j \in Jobs, PushAnswered(j)
  PROVE  \E i \in DOMAIN created, sent \in SUBSET Rows :
            /\ i \in batch[j].todo
            /\ batch' = [batch EXCEPT ![j].todo = @ \ {i}, ![j].sent = sent]
            /\ sent \in {batch[j].sent, batch[j].sent \cup {created[i]}}
            /\ sent = batch[j].sent \/ pushes'[created[i]] > 0
<1>1. batch[j] \in Batches /\ batch[j].sent \subseteq Rows
  BY DEF TypeOK, Batches, PushAnswered
<1>2. PICK i \in DOMAIN created, accepted \in BOOLEAN :
        /\ i \in batch[j].todo
        /\ batch' = [batch EXCEPT ![j].todo = @ \ {i},
                ![j].sent = IF accepted THEN @ \cup {created[i]} ELSE @]
        /\ pushes' = AfterPush(created[i], accepted)
  BY DEF PushAnswered, IsNext
<1>3. created[i] \in Rows
  BY DEF TypeOK
<1>4. CASE accepted
  <2>1. batch' = [batch EXCEPT ![j].todo = @ \ {i}, ![j].sent = batch[j].sent \cup {created[i]}]
    BY <1>2, <1>4 DEF TypeOK
  <2>2. pushes'[created[i]] > 0
    BY <1>2, <1>3, <1>4, AfterPushCounts
  <2>3. batch[j].sent \cup {created[i]} \in SUBSET Rows
    BY <1>1, <1>3
  <2> WITNESS i \in DOMAIN created, batch[j].sent \cup {created[i]} \in SUBSET Rows
  <2>4. QED
    BY <1>2, <2>1, <2>2
<1>5. CASE ~accepted
  <2>1. batch' = [batch EXCEPT ![j].todo = @ \ {i}, ![j].sent = batch[j].sent]
    BY <1>2, <1>5 DEF TypeOK
  <2>2. batch[j].sent \in SUBSET Rows
    BY <1>1
  <2> WITNESS i \in DOMAIN created, batch[j].sent \in SUBSET Rows
  <2>3. QED
    BY <1>2, <2>1
<1>6. QED
  BY <1>4, <1>5

(* Answered or not, a push is of one row of a batch, which some batch holds.   *)
LEMMA PushOfOne ==
  ASSUME TypeOK, NEW j \in Jobs, Push(j)
  PROVE  \E i \in DOMAIN created, accepted \in BOOLEAN :
            /\ batch[j] # NoBatch /\ i \in batch[j].todo /\ created[i] \in Rows
            /\ pushes' = AfterPush(created[i], accepted)
<1>1. PICK i \in DOMAIN created, accepted \in BOOLEAN :
        batch[j] # NoBatch /\ i \in batch[j].todo /\ pushes' = AfterPush(created[i], accepted)
  BY DEF Push, PushAnswered, PushRaises, IsNext
<1>2. created[i] \in Rows
  BY DEF TypeOK
<1>3. QED
  BY <1>1, <1>2

(* Answered or not, a push adds no row to a batch and starts none.             *)
LEMMA PushKeepsBatches ==
  ASSUME TypeOK, NEW j \in Jobs, Push(j), NEW k \in Jobs, batch'[k] # NoBatch
  PROVE  /\ batch[k] # NoBatch /\ batch'[k].rows = batch[k].rows
         /\ batch'[k].was = batch[k].was /\ batch'[k].tries = batch[k].tries
<1>1. batch \in [Jobs -> Batches \cup {NoBatch}] /\ batch[j] # NoBatch /\ batch[j] \in Batches
  BY DEF Push, PushAnswered, PushRaises, TypeOK
<1>2. CASE PushAnswered(j)
  <2>1. PICK i \in DOMAIN created, sent \in SUBSET Rows :
          batch' = [batch EXCEPT ![j].todo = @ \ {i}, ![j].sent = sent]
    BY <1>2, PushAnsweredEffect
  <2>2. CASE k = j
    <3>1. batch'[k] = [batch[j] EXCEPT !.todo = @ \ {i}, !.sent = sent]
      BY <1>1, <2>1, <2>2
    <3>2. QED
      BY <1>1, <2>2, <3>1 DEF Batches
  <2>3. CASE k # j
    BY <1>1, <2>1, <2>3
  <2>4. QED
    BY <2>2, <2>3
<1>3. CASE PushRaises(j)
  BY <1>1, <1>3 DEF PushRaises
<1>4. QED
  BY <1>2, <1>3 DEF Push

LEMMA PushAnsweredKeeps ==
  ASSUME DeliveryInv, NEW j \in Jobs, PushAnswered(j)
  PROVE  DeliveryInv'
<1>1. TypeOK /\ batch[j] # NoBatch /\ batch[j] \in Batches /\ BatchSound(batch[j])
  BY DEF DeliveryInv, PushAnswered, TypeOK, BatchesSound
<1>2. /\ pushes' \in [Rows -> Nat]
      /\ \A m \in Rows : pushes[m] > 0 => pushes'[m] > 0
  BY <1>1, PushOfOne, AfterPushCounts DEF Push
<1>3. PICK i \in DOMAIN created, sent \in SUBSET Rows :
        /\ i \in batch[j].todo
        /\ batch' = [batch EXCEPT ![j].todo = @ \ {i}, ![j].sent = sent]
        /\ sent \in {batch[j].sent, batch[j].sent \cup {created[i]}}
        /\ sent = batch[j].sent \/ pushes'[created[i]] > 0
  BY <1>1, PushAnsweredEffect
<1>4. UNCHANGED <<userVars, rowVars, flushDue, shared, crashes>>
  BY DEF PushAnswered
<1>5. PICK b : b = [batch[j] EXCEPT !.todo = @ \ {i}, !.sent = sent]
  OBVIOUS
<1>6. /\ b.rows = batch[j].rows /\ b.todo = batch[j].todo \ {i} /\ b.was = batch[j].was
      /\ b.tries = batch[j].tries /\ b.sent = sent /\ b \in Batches
  BY <1>1, <1>5 DEF Batches
<1>7. batch' = [batch EXCEPT ![j] = b]
  BY <1>1, <1>3, <1>5 DEF TypeOK, Batches
<1>8. TypeOK'
  <2>1. batch' \in [Jobs -> Batches \cup {NoBatch}]
    BY <1>1, <1>6, <1>7 DEF TypeOK
  <2>2. Batches' = Batches
    BY <1>4 DEF Batches
  <2>3. QED
    BY <1>1, <1>2, <1>4, <2>1, <2>2 DEF TypeOK
<1>9. Later
  BY <1>2, <1>4, SameCreated DEF Later
<1>10. BatchSound(b)'
  <2>1. created[i] \in batch[j].rows /\ created[i] \in Rows
    BY <1>1, <1>3 DEF BatchSound, TypeOK
  <2>2. b.sent \subseteq b.rows /\ \A k \in b.todo : created[k] \in b.rows
    BY <1>1, <1>3, <1>6, <2>1 DEF BatchSound
  <2>3. \A n \in b.rows : ~IsNew(n) /\ b.tries[n] < MaxRetry
    BY <1>1, <1>6 DEF BatchSound
  <2>4. b.was = "FAILED" => \A n \in b.rows : status[n] # "PENDING"
    BY <1>1, <1>6 DEF BatchSound
  <2>5. \A n \in b.sent : pushes'[n] > 0
    BY <1>1, <1>2, <1>3, <1>6, <2>1 DEF BatchSound, Batches
  <2>6. b.rows \subseteq Rows
    BY <1>6 DEF Batches
  <2>7. QED
    BY <1>4, <2>2, <2>3, <2>4, <2>5, <2>6, SameCreated DEF BatchSound
<1>11. BatchesSound'
  <2> SUFFICES ASSUME NEW k \in Jobs, batch'[k] # NoBatch PROVE BatchSound(batch[k])'
    BY DEF BatchesSound
  <2>1. CASE k = j
    <3>1. batch'[k] = b
      BY <1>1, <1>7, <2>1 DEF TypeOK
    <3>2. QED
      BY <1>10, <3>1 DEF BatchSound
  <2>2. CASE k # j
    <3>1. PICK c : c = batch[k]
      OBVIOUS
    <3>2. c = batch'[k] /\ BatchSound(c) /\ c.rows \subseteq Rows /\ c.todo \subseteq DOMAIN created
      BY <1>1, <1>7, <2>2, <3>1 DEF DeliveryInv, BatchesSound, TypeOK, Batches
    <3>3. BatchSound(c)'
      BY <1>9, <3>2, BatchSoundLater
    <3>4. QED
      BY <3>2, <3>3 DEF BatchSound
  <2>3. QED
    BY <2>1, <2>2
<1>12. NewRowsUntouched' /\ PendingUntried' /\ RetriesBounded' /\ SentWasPushed'
  BY <1>2, <1>4, SameCreated
     DEF DeliveryInv, NewRowsUntouched, PendingUntried, RetriesBounded, SentWasPushed
<1>13. QED
  BY <1>8, <1>11, <1>12 DEF DeliveryInv

(* A batch that a call ends stores nothing. *)
LEMMA PushRaisesKeeps ==
  ASSUME DeliveryInv, NEW j \in Jobs, PushRaises(j)
  PROVE  DeliveryInv'
<1>1. TypeOK /\ UNCHANGED <<userVars, rowVars, flushDue, shared, crashes>>
  BY DEF DeliveryInv, PushRaises
<1>2. /\ pushes' \in [Rows -> Nat]
      /\ \A m \in Rows : pushes[m] > 0 => pushes'[m] > 0
  BY <1>1, PushOfOne, AfterPushCounts DEF Push
<1>3. \A k \in Jobs : batch'[k] \in {batch[k], NoBatch}
  BY <1>1 DEF PushRaises, TypeOK
<1>4. TypeOK'
  <2>1. batch' \in [Jobs -> Batches \cup {NoBatch}]
    BY <1>1 DEF PushRaises, TypeOK
  <2>2. Batches' = Batches
    BY <1>1 DEF Batches
  <2>3. QED
    BY <1>1, <1>2, <2>1, <2>2 DEF TypeOK
<1>5. Later
  BY <1>1, <1>2, SameCreated DEF Later
<1>6. BatchesSound'
  BY <1>1, <1>3, <1>5, BatchesKept DEF DeliveryInv
<1>7. NewRowsUntouched' /\ PendingUntried' /\ RetriesBounded' /\ SentWasPushed'
  BY <1>1, <1>2, SameCreated
     DEF DeliveryInv, NewRowsUntouched, PendingUntried, RetriesBounded, SentWasPushed
<1>8. QED
  BY <1>4, <1>6, <1>7 DEF DeliveryInv

LEMMA CommitBatchKeeps ==
  ASSUME DeliveryInv, NEW j \in Jobs, CommitBatch(j)
  PROVE  DeliveryInv'
<1>1. PICK b : b = batch[j]
  OBVIOUS
<1>2. /\ TypeOK /\ b \in Batches /\ BatchSound(b)
      /\ batch' = [batch EXCEPT ![j] = NoBatch]
      /\ UNCHANGED <<userVars, created, read, flushDue, pushes, shared, crashes>>
  BY <1>1 DEF DeliveryInv, CommitBatch, TypeOK, BatchesSound
<1>3. /\ status' \in [Rows -> Status \cup {"ABSENT"}] /\ retryCount' \in [Rows -> Nat]
      /\ \A n \in Rows : status'[n] = "PENDING" =>
            status[n] = "PENDING" /\ retryCount'[n] = retryCount[n]
      /\ \A n \in Rows : retryCount'[n] <= MaxRetry
      /\ \A n \in Rows : status'[n] = "SENT" => pushes[n] > 0
      /\ \A n \in Rows : IsNew(n) => status'[n] = status[n] /\ retryCount'[n] = retryCount[n]
  <2>1. CASE UNCHANGED <<status, retryCount>>
    BY <1>2, <2>1 DEF DeliveryInv, TypeOK, RetriesBounded, SentWasPushed
  <2>2. CASE StoreOutcomes(b)
    <3>1. /\ status' = [n \in Rows |-> IF n \in b.sent THEN "SENT"
                                 ELSE IF n \in b.rows /\ b.was = "PENDING" THEN "FAILED"
                                 ELSE status[n]]
          /\ retryCount' = [n \in Rows |-> IF n \in b.rows \ b.sent THEN b.tries[n] + 1
                                     ELSE retryCount[n]]
      BY <2>2 DEF StoreOutcomes
    <3>2. /\ b.sent \subseteq b.rows /\ b.rows \subseteq Rows /\ b.tries \in [Rows -> Nat]
          /\ b.was \in {"PENDING", "FAILED"}
          /\ \A n \in b.rows : ~IsNew(n) /\ b.tries[n] < MaxRetry
          /\ b.was = "FAILED" => \A n \in b.rows : status[n] # "PENDING"
          /\ \A n \in b.sent : pushes[n] > 0
      BY <1>2 DEF BatchSound, Batches
    <3>3. status' \in [Rows -> Status \cup {"ABSENT"}]
      BY <1>2, <3>1 DEF TypeOK, Status
    <3>4. \A n \in b.rows : b.tries[n] + 1 \in Nat /\ b.tries[n] + 1 <= MaxRetry
      BY <3>2, BoundsAssumption
    <3>5. retryCount' \in [Rows -> Nat] /\ \A n \in Rows : retryCount'[n] <= MaxRetry
      BY <1>2, <3>1, <3>4 DEF TypeOK, DeliveryInv, RetriesBounded
    <3>6. \A n \in Rows : status'[n] = "PENDING" =>
            status[n] = "PENDING" /\ retryCount'[n] = retryCount[n]
      BY <3>1, <3>2
    <3>7. \A n \in Rows : status'[n] = "SENT" => pushes[n] > 0
      BY <3>1, <3>2 DEF DeliveryInv, SentWasPushed
    <3>8. \A n \in Rows : IsNew(n) => status'[n] = status[n] /\ retryCount'[n] = retryCount[n]
      BY <3>1, <3>2
    <3>9. QED
      BY <3>3, <3>5, <3>6, <3>7, <3>8
  <2>3. QED
    BY <1>1, <2>1, <2>2 DEF CommitBatch
<1>4. TypeOK'
  <2>1. \A k \in Jobs : batch'[k] \in Batches \cup {NoBatch}
    BY <1>2 DEF TypeOK
  <2>2. Batches' = Batches
    BY <1>2 DEF Batches
  <2>3. QED
    BY <1>2, <1>3, <2>1, <2>2 DEF TypeOK
<1>5. BatchesSound'
  <2>1. \A k \in Jobs : batch'[k] \in {batch[k], NoBatch}
    BY <1>2 DEF TypeOK
  <2>2. QED
    BY <1>2, <1>3, <1>4, <2>1, NoNewRow
<1>6. NewRowsUntouched' /\ PendingUntried' /\ RetriesBounded' /\ SentWasPushed'
  BY <1>2, <1>3, SameCreated
     DEF DeliveryInv, NewRowsUntouched, PendingUntried, RetriesBounded, SentWasPushed
<1>7. QED
  BY <1>4, <1>5, <1>6 DEF DeliveryInv

(* The steps of the users, and the crash: rows are read, hidden or deleted,    *)
(* batches go on or are lost.                                                  *)
LEMMA OtherKeeps ==
  ASSUME DeliveryInv, UNCHANGED <<created, retryCount, pushes, shared>>,
         alarm' \in [Users -> BOOLEAN], withdrawn' \in [Users -> BOOLEAN],
         token' \in [Users -> BOOLEAN], read' \in [Rows -> BOOLEAN],
         flushDue' \in Nat, crashes' \in 0..MaxCrashes,
         batch' = batch \/ batch' = [j \in Jobs |-> NoBatch],
         status' \in [Rows -> Status \cup {"ABSENT"}],
         \A n \in Rows :
            \/ status'[n] = status[n] \/ status'[n] = "ABSENT"
            \/ status'[n] = "READ" /\ status[n] # "ABSENT"
  PROVE  DeliveryInv'
<1>1. TypeOK /\ \A j \in Jobs : batch'[j] \in {batch[j], NoBatch}
  BY DEF DeliveryInv
<1>2. TypeOK'
  <2>1. batch' \in [Jobs -> Batches \cup {NoBatch}]
    BY <1>1 DEF TypeOK
  <2>2. Batches' = Batches
    BY DEF Batches
  <2>3. QED
    BY <1>1, <2>1, <2>2 DEF TypeOK
<1>3. BatchesSound'
  BY <1>1, <1>2, NoNewRow
<1>4. NewRowsUntouched' /\ PendingUntried' /\ RetriesBounded' /\ SentWasPushed'
  BY SameCreated DEF DeliveryInv, NewRowsUntouched, PendingUntried, RetriesBounded, SentWasPushed
<1>5. QED
  BY <1>2, <1>3, <1>4 DEF DeliveryInv

LEMMA OutboxNext == DeliveryInv /\ [Next]_vars => DeliveryInv'
<1> SUFFICES ASSUME DeliveryInv, [Next]_vars PROVE DeliveryInv'
  OBVIOUS
<1>1. TypeOK
  BY DEF DeliveryInv
<1>2. ASSUME NEW n \in Rows, MarkRead(n) PROVE DeliveryInv'
  BY <1>1, <1>2, OtherKeeps DEF MarkRead, TypeOK, Status
<1>3. ASSUME NEW u \in Users, UpdateAlarm(u) PROVE DeliveryInv'
  BY <1>1, <1>3, OtherKeeps DEF UpdateAlarm, TypeOK
<1>4. ASSUME NEW u \in Users, UpdateFcmToken(u) PROVE DeliveryInv'
  BY <1>1, <1>4, OtherKeeps DEF UpdateFcmToken, TypeOK
<1>5. ASSUME NEW u \in Users, Withdraw(u) PROVE DeliveryInv'
  BY <1>1, <1>5, OtherKeeps DEF Withdraw, TypeOK
<1>6. CASE Crash
  BY <1>1, <1>6, OtherKeeps, BoundsAssumption DEF Crash, TypeOK
<1>7. CASE UNCHANGED vars
  BY <1>1, <1>7, OtherKeeps DEF vars, TypeOK
<1>8. QED
  BY <1>2, <1>3, <1>4, <1>5, <1>6, <1>7, StoreKeeps, SendToUserKeeps, StartFlushKeeps,
     StartRetryKeeps, PushAnsweredKeeps, PushRaisesKeeps, CommitBatchKeeps DEF Next, Push

(* What the delivery of notifications keeps true at every moment. *)
LEMMA DeliverySound == Spec => []DeliveryInv
  BY OutboxInit, OutboxNext, PTL DEF Spec

(* Rows, batches and counters are always well typed, and a batch points at     *)
(* stored rows and is never empty (_send_batch returns on an empty result).    *)
THEOREM OutboxTypeCorrect == Spec => []TypeOK
<1>1. DeliveryInv => TypeOK
  BY DEF DeliveryInv
<1>2. QED
  BY <1>1, DeliverySound, PTL

(* However many background tasks overlap with retry_failed, with readers,      *)
(* withdrawals and crashes, retry_count never passes _MAX_RETRY.               *)
THEOREM RetriesCorrect == Spec => []RetriesBounded
<1>1. DeliveryInv => RetriesBounded
  BY DEF DeliveryInv
<1>2. QED
  BY <1>1, DeliverySound, PTL

(* However they overlap, a row is stored as SENT only if FCM has taken a push  *)
(* of it.                                                                      *)
THEOREM SentCorrect == Spec => []SentWasPushed
<1>1. DeliveryInv => SentWasPushed
  BY DEF DeliveryInv
<1>2. QED
  BY <1>1, DeliverySound, PTL

--------------------------------------------------------------------------------
(* Rows that no two batches have held at once.                                 *)

(* A step that starts no batch, and after which the rows of a batch are as     *)
(* they were, or read or deleted by their user.                                *)
LEMMA ApartKept ==
  ASSUME BatchesApart, UNCHANGED shared,
         \A j \in Jobs : batch'[j] # NoBatch =>
            /\ batch[j] # NoBatch
            /\ batch'[j].rows = batch[j].rows /\ batch'[j].was = batch[j].was
            /\ \A n \in batch[j].rows \ shared : status'[n] \in {status[n], "READ", "ABSENT"}
  PROVE  BatchesApart'
  BY DEF BatchesApart

(* What StartBatch makes of the batches, and of the rows they share.           *)
LEMMA StartEffect ==
  ASSUME TypeOK, NEW j \in Jobs, NEW was, NEW found \in SUBSET Rows, batch[j] = NoBatch,
         StartBatch(j, was, Oldest(found))
  PROVE  /\ shared \subseteq shared'
         /\ \A n \in shared' \ shared :
                n \in found /\ \E k \in Jobs : batch[k] # NoBatch /\ n \in batch[k].rows
         /\ \A k \in Jobs \ {j} : batch'[k] = batch[k]
         /\ batch'[j] # NoBatch =>
                /\ batch'[j].rows \subseteq found /\ batch'[j].was = was
                /\ batch'[j].tries = retryCount
                /\ \A k \in Jobs : batch[k] # NoBatch => batch'[j].rows \cap batch[k].rows \subseteq shared'
<1> DEFINE todo == Oldest(found)
           started == [rows |-> {created[i] : i \in todo}, todo |-> todo, was |-> was,
                       tries |-> retryCount, tokens |-> {u \in Users : token[u]}, sent |-> {}]
<1>1. /\ started.rows = {created[i] : i \in todo} /\ started.rows \subseteq found
      /\ started.was = was /\ started.tries = retryCount
  BY DEF Oldest
<1>2. shared' = shared \cup (Held \cap started.rows)
  BY <1>1 DEF StartBatch
<1>3. batch' = batch \/ batch' = [batch EXCEPT ![j] = started]
  BY DEF StartBatch
<1> HIDE DEF started, todo
<1>4. \A n \in Held : \E k \in Jobs : batch[k] # NoBatch /\ n \in batch[k].rows
  BY DEF Held
<1>5. \A k \in Jobs : batch[k] # NoBatch => batch[k].rows \subseteq Held
  BY DEF Held
<1>6. \A k \in Jobs \ {j} : batch'[k] = batch[k]
  BY <1>3 DEF TypeOK
<1>7. batch'[j] # NoBatch => batch'[j] = started
  BY <1>3 DEF TypeOK
<1>8. QED
  BY <1>1, <1>2, <1>4, <1>5, <1>6, <1>7

LEMMA StartApart ==
  ASSUME TypeOK, BatchesApart, NEW j \in Jobs, NEW was, NEW found \in SUBSET Rows,
         batch[j] = NoBatch, StartBatch(j, was, Oldest(found)), UNCHANGED status,
         \A n \in found : status[n] = was
  PROVE  BatchesApart'
<1> USE StartEffect
<1> SUFFICES ASSUME NEW k \in Jobs, batch'[k] # NoBatch, NEW n \in batch'[k].rows \ shared'
             PROVE  /\ status'[n] \in {batch'[k].was, "READ", "ABSENT"}
                    /\ \A l \in Jobs \ {k} : batch'[l] # NoBatch => n \notin batch'[l].rows
  BY DEF BatchesApart
<1>1. CASE k = j
  <2>1. n \in found /\ batch'[k].was = was
    BY <1>1
  <2>2. \A l \in Jobs \ {k} : batch'[l] # NoBatch => n \notin batch'[l].rows
    BY <1>1
  <2>3. QED
    BY <2>1, <2>2
<1>2. CASE k # j
  <2>1. batch'[k] = batch[k] /\ n \notin shared
    BY <1>2
  <2>2. status'[n] \in {batch'[k].was, "READ", "ABSENT"}
    BY <2>1 DEF BatchesApart
  <2>3. \A l \in Jobs \ {k, j} : batch'[l] # NoBatch => n \notin batch'[l].rows
    BY <2>1 DEF BatchesApart
  <2>4. batch'[j] # NoBatch => n \notin batch'[j].rows
    BY <2>1
  <2>5. QED
    BY <2>2, <2>3, <2>4
<1>3. QED
  BY <1>1, <1>2

LEMMA OutboxApartNext ==
  ASSUME DeliveryInv, BatchesApart, [Next]_vars
  PROVE  BatchesApart'
<1>1. TypeOK /\ BatchesSound
  BY DEF DeliveryInv
<1>2. ASSUME NEW n \in Rows, Store(n) \/ SendToUser(n) PROVE BatchesApart'
  <2>1. IsNew(n) /\ UNCHANGED <<batch, shared>>
    BY <1>2 DEF Store, SendToUser
  <2>2. \A m \in Rows : m # n => status'[m] = status[m]
    BY <1>1, <1>2 DEF Store, SendToUser, TypeOK
  <2>3. \A j \in Jobs : batch[j] # NoBatch => batch[j].rows \subseteq Rows /\ n \notin batch[j].rows
    BY <1>1, <2>1 DEF BatchesSound, BatchSound, TypeOK, Batches
  <2>4. QED
    BY <2>1, <2>2, <2>3, ApartKept
<1>3. ASSUME NEW j \in Flushers, StartFlush(j) PROVE BatchesApart'
  <2> DEFINE found == {n \in Rows : Pending(n)}
  <2>1. /\ found \in SUBSET Rows /\ \A n \in found : status[n] = "PENDING"
        /\ batch[j] = NoBatch /\ UNCHANGED status /\ j \in Jobs
        /\ StartBatch(j, "PENDING", Oldest(found))
    BY <1>3 DEF StartFlush, Pending, Jobs
  <2> HIDE DEF found
  <2>2. QED
    BY <1>1, <2>1, StartApart
<1>4. CASE StartRetry
  <2> DEFINE found == {n \in Rows : Retryable(n)}
  <2>1. /\ found \in SUBSET Rows /\ \A n \in found : status[n] = "FAILED"
        /\ batch[Retrier] = NoBatch /\ UNCHANGED status /\ Retrier \in Jobs
        /\ StartBatch(Retrier, "FAILED", Oldest(found))
    BY <1>4 DEF StartRetry, Retryable, Jobs
  <2> HIDE DEF found
  <2>2. QED
    BY <1>1, <2>1, StartApart
<1>5. ASSUME NEW j \in Jobs, Push(j) PROVE BatchesApart'
  <2>1. UNCHANGED <<status, shared>>
    BY <1>5 DEF Push, PushAnswered, PushRaises
  <2>2. QED
    BY <1>1, <1>5, <2>1, PushKeepsBatches, ApartKept
<1>6. ASSUME NEW j \in Jobs, CommitBatch(j) PROVE BatchesApart'
  <2>1. /\ batch[j] # NoBatch /\ batch[j].sent \subseteq batch[j].rows /\ UNCHANGED shared
        /\ batch'[j] = NoBatch /\ \A k \in Jobs : k # j => batch'[k] = batch[k]
    BY <1>1, <1>6 DEF CommitBatch, BatchesSound, BatchSound, TypeOK
  <2>2. \A n \in Rows : n \notin batch[j].rows => status'[n] = status[n]
    BY <1>6, <2>1 DEF CommitBatch, StoreOutcomes
  <2>3. \A k \in Jobs : k # j /\ batch[k] # NoBatch =>
            /\ batch[k].rows \subseteq Rows
            /\ \A n \in batch[k].rows \ shared : n \notin batch[j].rows
    BY <1>1, <2>1 DEF BatchesApart, TypeOK, Batches
  <2>4. QED
    BY <2>1, <2>2, <2>3, ApartKept
<1>7. ASSUME NEW n \in Rows, MarkRead(n) PROVE BatchesApart'
  BY <1>1, <1>7, ApartKept DEF MarkRead, TypeOK
<1>8. ASSUME NEW u \in Users, UpdateAlarm(u) \/ UpdateFcmToken(u) PROVE BatchesApart'
  BY <1>8, ApartKept DEF UpdateAlarm, UpdateFcmToken
<1>9. ASSUME NEW u \in Users, Withdraw(u) PROVE BatchesApart'
  <2>1. UNCHANGED <<batch, shared>> /\ \A n \in Rows : status'[n] \in {status[n], "ABSENT"}
    BY <1>9 DEF Withdraw
  <2>2. \A j \in Jobs : batch[j] # NoBatch => batch[j].rows \subseteq Rows
    BY <1>1 DEF TypeOK, Batches
  <2>3. QED
    BY <2>1, <2>2, ApartKept
<1>10. CASE Crash
  BY <1>10, ApartKept DEF Crash
<1>11. CASE UNCHANGED vars
  BY <1>11, ApartKept DEF vars
<1>12. QED
  BY <1>2, <1>3, <1>4, <1>5, <1>6, <1>7, <1>8, <1>9, <1>10, <1>11 DEF Next

LEMMA NoSecondPush ==
  ASSUME DeliveryInv, BatchesApart, [Next]_vars, NEW n \in Rows, pushes'[n] > pushes[n]
  PROVE  status[n] # "SENT" \/ n \in shared
<1>1. TypeOK /\ NewRowsUntouched /\ BatchesSound
  BY DEF DeliveryInv
<1>2. pushes[n] \in Nat /\ pushes' # pushes
  BY <1>1 DEF TypeOK
<1>3. CASE \E m \in Rows : SendToUser(m)
  <2>1. PICK m \in Rows, accepted \in BOOLEAN : IsNew(m) /\ pushes' = AfterPush(m, accepted)
    BY <1>3 DEF SendToUser
  <2>2. n = m
    BY <1>1, <2>1, AfterPushCounts
  <2>3. QED
    BY <1>1, <2>1, <2>2 DEF NewRowsUntouched
<1>4. CASE \E j \in Jobs : Push(j)
  <2>1. PICK j \in Jobs : Push(j)
    BY <1>4
  <2>2. PICK i \in DOMAIN created, accepted \in BOOLEAN :
            /\ batch[j] # NoBatch /\ i \in batch[j].todo /\ created[i] \in Rows
            /\ pushes' = AfterPush(created[i], accepted)
    BY <1>1, <2>1, PushOfOne
  <2>3. n = created[i]
    BY <1>1, <2>2, AfterPushCounts
  <2>4. n \in batch[j].rows /\ batch[j].was \in {"PENDING", "FAILED"}
    BY <1>1, <2>2, <2>3 DEF BatchesSound, BatchSound, TypeOK, Batches
  <2>5. QED
    BY <2>2, <2>4 DEF BatchesApart
<1>5. QED
  BY <1>2, <1>3, <1>4 DEF Next, vars, Store, MarkRead, StartFlush, StartRetry, CommitBatch,
     UpdateAlarm, UpdateFcmToken, Withdraw, Crash

(* However many background tasks overlap, a row that is stored as SENT is      *)
(* pushed again only if two batches have held it at once: _send_batch takes    *)
(* PENDING rows in a flush and FAILED ones in a retry, and only a batch that   *)
(* had read the row before it was stored as SENT still pushes it.              *)
THEOREM NoRepeatedDelivery == Spec => SentIsNotPushedAgain
<1>1. Init => BatchesApart
  BY DEF Init, BatchesApart, Jobs
<1>2. DeliveryInv /\ BatchesApart /\ [Next]_vars => BatchesApart'
  BY OutboxApartNext
<1>3. DeliveryInv /\ BatchesApart /\ [Next]_vars =>
        [\A n \in Rows : pushes'[n] > pushes[n] => status[n] # "SENT" \/ n \in shared]_vars
  BY NoSecondPush
<1>4. QED
  BY <1>1, <1>2, <1>3, DeliverySound, PTL DEF Spec, SentIsNotPushedAgain

--------------------------------------------------------------------------------
(* Refinement: the delivery implements the life of the notifications.          *)

(* What a batch counts is counted on top of what its row counts by then.       *)
TriesCurrent ==
    \A j \in Jobs : batch[j] # NoBatch =>
        \A n \in batch[j].rows \ shared : batch[j].tries[n] = retryCount[n]

(* Only a stored row is ever in a batch.                                       *)
SharedStored == \A n \in shared : ~IsNew(n)

(* A step that starts no batch, and does not count for the rows of one.        *)
LEMMA TriesKept ==
  ASSUME TriesCurrent, UNCHANGED shared,
         \A j \in Jobs : batch'[j] # NoBatch =>
            /\ batch[j] # NoBatch
            /\ batch'[j].rows = batch[j].rows /\ batch'[j].tries = batch[j].tries
            /\ \A n \in batch[j].rows \ shared : retryCount'[n] = retryCount[n]
  PROVE  TriesCurrent'
  BY DEF TriesCurrent

LEMMA StartTries ==
  ASSUME TypeOK, TriesCurrent, NEW j \in Jobs, NEW was, NEW found \in SUBSET Rows,
         batch[j] = NoBatch, StartBatch(j, was, Oldest(found)), UNCHANGED retryCount
  PROVE  TriesCurrent'
<1> SUFFICES ASSUME NEW k \in Jobs, batch'[k] # NoBatch, NEW n \in batch'[k].rows \ shared'
             PROVE  batch'[k].tries[n] = retryCount'[n]
  BY DEF TriesCurrent
<1>1. CASE k = j
  BY <1>1, StartEffect
<1>2. CASE k # j
  BY <1>2, StartEffect DEF TriesCurrent
<1> QED BY <1>1, <1>2

LEMMA TriesNext ==
  ASSUME DeliveryInv, BatchesApart, TriesCurrent, [Next]_vars
  PROVE  TriesCurrent'
<1>1. TypeOK /\ BatchesSound
  BY DEF DeliveryInv
<1>2. ASSUME UNCHANGED <<batch, retryCount, shared>> PROVE TriesCurrent'
  BY <1>2, TriesKept
<1>3. ASSUME NEW j \in Flushers, StartFlush(j) PROVE TriesCurrent'
  <2> DEFINE found == {n \in Rows : Pending(n)}
  <2>1. /\ found \in SUBSET Rows /\ j \in Jobs /\ batch[j] = NoBatch
        /\ StartBatch(j, "PENDING", Oldest(found)) /\ UNCHANGED retryCount
    BY <1>3 DEF StartFlush, Jobs
  <2> HIDE DEF found
  <2> QED BY <1>1, <2>1, StartTries
<1>4. CASE StartRetry
  <2> DEFINE found == {n \in Rows : Retryable(n)}
  <2>1. /\ found \in SUBSET Rows /\ Retrier \in Jobs /\ batch[Retrier] = NoBatch
        /\ StartBatch(Retrier, "FAILED", Oldest(found)) /\ UNCHANGED retryCount
    BY <1>4 DEF StartRetry, Jobs
  <2> HIDE DEF found
  <2> QED BY <1>1, <2>1, StartTries
<1>5. ASSUME NEW j \in Jobs, Push(j) PROVE TriesCurrent'
  <2>1. UNCHANGED <<retryCount, shared>>
    BY <1>5 DEF Push, PushAnswered, PushRaises
  <2> QED BY <1>1, <1>5, <2>1, PushKeepsBatches, TriesKept
<1>6. ASSUME NEW j \in Jobs, CommitBatch(j) PROVE TriesCurrent'
  <2>1. /\ batch[j] # NoBatch /\ batch[j].sent \subseteq batch[j].rows /\ UNCHANGED shared
        /\ batch'[j] = NoBatch /\ \A k \in Jobs : k # j => batch'[k] = batch[k]
    BY <1>1, <1>6 DEF CommitBatch, BatchesSound, BatchSound, TypeOK
  <2>2. \A n \in Rows : n \notin batch[j].rows => retryCount'[n] = retryCount[n]
    BY <1>6, <2>1 DEF CommitBatch, StoreOutcomes
  <2>3. \A k \in Jobs : k # j /\ batch[k] # NoBatch =>
            /\ batch[k].rows \subseteq Rows
            /\ \A n \in batch[k].rows \ shared : n \notin batch[j].rows
    BY <1>1, <2>1 DEF BatchesApart, TypeOK, Batches
  <2> QED BY <2>1, <2>2, <2>3, TriesKept
<1>7. CASE Crash
  BY <1>7 DEF Crash, TriesCurrent
<1> QED
  BY <1>2, <1>3, <1>4, <1>5, <1>6, <1>7 DEF Next, vars, Store, SendToUser, MarkRead,
     UpdateAlarm, UpdateFcmToken, Withdraw

LEMMA SharedNext ==
  ASSUME DeliveryInv, SharedStored, [Next]_vars
  PROVE  SharedStored'
<1>1. TypeOK /\ BatchesSound
  BY DEF DeliveryInv
<1>2. \A j \in Jobs : batch[j] # NoBatch => \A n \in batch[j].rows : ~IsNew(n)
  BY <1>1 DEF BatchesSound, BatchSound
<1>3. ASSUME NEW j \in Jobs, NEW was, NEW found \in SUBSET Rows, batch[j] = NoBatch,
             StartBatch(j, was, Oldest(found)), UNCHANGED created
      PROVE  SharedStored'
  BY <1>1, <1>2, <1>3, StartEffect, SameCreated DEF SharedStored, IsNew
<1>4. ASSUME NEW j \in Flushers, StartFlush(j) PROVE SharedStored'
  BY <1>3, <1>4 DEF StartFlush, Jobs
<1>5. CASE StartRetry
  BY <1>3, <1>5 DEF StartRetry, Jobs
<1>6. ASSUME NEW n \in Rows, Store(n) \/ SendToUser(n) PROVE SharedStored'
  <2>1. created' = Append(created, n) /\ UNCHANGED shared /\ shared \subseteq Rows
    BY <1>1, <1>6 DEF Store, SendToUser, TypeOK
  <2> QED BY <1>1, <2>1, AppendCreated DEF SharedStored
<1>7. ASSUME UNCHANGED <<created, shared>> PROVE SharedStored'
  BY <1>7 DEF SharedStored, IsNew
<1> QED
  BY <1>4, <1>5, <1>6, <1>7 DEF Next, vars, Push, PushAnswered, PushRaises, CommitBatch, MarkRead,
     UpdateAlarm, UpdateFcmToken, Withdraw, Crash

(* The stage of a row, before and after a step.                                *)
LEMMA StageOfRow ==
  ASSUME NEW n
  PROVE  /\ n \in shared => StageOf(n) = "contested"
         /\ n \notin shared =>
            /\ status[n] = "ABSENT" => StageOf(n) = IF IsNew(n) THEN "none" ELSE "deleted"
            /\ status[n] = "PENDING" => StageOf(n) = "due"
            /\ status[n] = "FAILED" => StageOf(n) = "failed"
            /\ status[n] = "SENT" => StageOf(n) = "delivered"
            /\ status[n] = "READ" => StageOf(n) = "seen"
  BY DEF StageOf, ShownStage

LEMMA StageOfRowNext ==
  ASSUME NEW n
  PROVE  /\ n \in shared' => StageOf(n)' = "contested"
         /\ n \notin shared' =>
            /\ status'[n] = "ABSENT" => StageOf(n)' = IF IsNew(n)' THEN "none" ELSE "deleted"
            /\ status'[n] = "PENDING" => StageOf(n)' = "due"
            /\ status'[n] = "FAILED" => StageOf(n)' = "failed"
            /\ status'[n] = "SENT" => StageOf(n)' = "delivered"
            /\ status'[n] = "READ" => StageOf(n)' = "seen"
  BY DEF StageOf, ShownStage

LEMMA SameStage ==
  ASSUME NEW n, n \in shared' <=> n \in shared,
         n \in shared \/ (status'[n] = status[n] /\ (IsNew(n)' <=> IsNew(n)))
  PROVE  StageOf(n)' = StageOf(n)
<1>1. CASE n \in shared
  BY <1>1 DEF StageOf
<1>2. CASE n \notin shared
  <2>1. ShownStage(n)' = ShownStage(n)
    BY <1>2 DEF ShownStage
  <2> QED BY <1>2, <2>1 DEF StageOf
<1> QED BY <1>1, <1>2

LEMMA SameStages ==
  ASSUME UNCHANGED <<created, status, shared>>
  PROVE  UNCHANGED [n \in Rows |-> StageOf(n)]
<1>1. \A n \in Rows : IsNew(n)' <=> IsNew(n)
  BY DEF IsNew
<1> QED BY <1>1, SameStage

LEMMA SameCounters ==
  ASSUME UNCHANGED shared
  PROVE  /\ UNCHANGED pushes => UNCHANGED Unshared(pushes)
         /\ UNCHANGED retryCount => UNCHANGED Unshared(retryCount)
  BY DEF Unshared

(* A push that FCM has accepted counts, unless its row is shared.              *)
LEMMA CountedPush ==
  ASSUME TypeOK, NEW n \in Rows, NEW accepted \in BOOLEAN, pushes' = AfterPush(n, accepted),
         UNCHANGED shared
  PROVE  /\ accepted /\ n \notin shared => Life!OnePush(n)
         /\ ~accepted \/ n \in shared => UNCHANGED Unshared(pushes)
<1>1. CASE accepted
  <2>1. pushes' = [pushes EXCEPT ![n] = @ + 1] /\ pushes \in [Rows -> Nat]
    BY <1>1 DEF AfterPush, TypeOK
  <2> QED BY <1>1, <2>1 DEF Unshared, Life!OnePush
<1>2. CASE ~accepted
  BY <1>2 DEF AfterPush, Unshared
<1> QED BY <1>1, <1>2

(* A step that writes the status of one row moves one notification.            *)
LEMMA OneLifeMoves ==
  ASSUME NEW n \in Rows, NEW from, NEW to, StageOf(n) \in from, StageOf(n)' = to,
         UNCHANGED shared,
         \A m \in Rows \ {n} : status'[m] = status[m] /\ (IsNew(m)' <=> IsNew(m))
  PROVE  Life!Moves(n, from, to)
<1>1. \A m \in Rows \ {n} : StageOf(m)' = StageOf(m)
  BY SameStage
<1> QED BY <1>1 DEF Life!Moves

LEMMA StoreImplements ==
  ASSUME DeliveryInv, SharedStored, NEW n \in Rows, Store(n)
  PROVE  Life!Announce(n)
<1>1. /\ TypeOK /\ IsNew(n) /\ status[n] = "ABSENT" /\ n \notin shared
      /\ UNCHANGED <<pushes, retryCount, shared>>
  BY DEF DeliveryInv, NewRowsUntouched, SharedStored, Store
<1>2. \A m \in Rows : IsNew(m)' <=> IsNew(m) /\ m # n
  BY <1>1, AppendCreated DEF Store
<1>3. status'[n] = "PENDING" /\ \A m \in Rows \ {n} : status'[m] = status[m]
  BY <1>1 DEF Store, TypeOK
<1>4. StageOf(n) = "none" /\ StageOf(n)' = "due"
  BY <1>1, <1>3, StageOfRow, StageOfRowNext
<1>5. Life!Moves(n, {"none"}, "due")
  BY <1>1, <1>2, <1>3, <1>4, OneLifeMoves
<1> QED BY <1>1, <1>5, SameCounters DEF Life!Announce

LEMMA SendToUserImplements ==
  ASSUME DeliveryInv, SharedStored, NEW n \in Rows, SendToUser(n)
  PROVE  Life!SendAtOnce(n)
<1>1. /\ TypeOK /\ IsNew(n) /\ status[n] = "ABSENT" /\ n \notin shared
      /\ UNCHANGED <<retryCount, shared>>
  BY DEF DeliveryInv, NewRowsUntouched, SharedStored, SendToUser
<1>2. \A m \in Rows : IsNew(m)' <=> IsNew(m) /\ m # n
  BY <1>1, AppendCreated DEF SendToUser
<1>3. PICK accepted \in BOOLEAN :
        /\ status' = [status EXCEPT ![n] = IF accepted THEN "SENT" ELSE "FAILED"]
        /\ pushes' = AfterPush(n, accepted)
  BY DEF SendToUser
<1>4. /\ status'[n] = IF accepted THEN "SENT" ELSE "FAILED"
      /\ \A m \in Rows \ {n} : status'[m] = status[m]
  BY <1>1, <1>3 DEF TypeOK
<1>5. StageOf(n) = "none" /\ StageOf(n)' = IF accepted THEN "delivered" ELSE "failed"
  BY <1>1, <1>4, StageOfRow, StageOfRowNext
<1>6. Life!Moves(n, {"none"}, IF accepted THEN "delivered" ELSE "failed")
  BY <1>1, <1>2, <1>4, <1>5, OneLifeMoves
<1>7. IF accepted THEN Life!OnePush(n) ELSE UNCHANGED Unshared(pushes)
  BY <1>1, <1>3, CountedPush
<1> QED BY <1>1, <1>6, <1>7, SameCounters DEF Life!SendAtOnce

LEMMA PushImplements ==
  ASSUME DeliveryInv, BatchesApart, NEW j \in Jobs, Push(j)
  PROVE  Life!Next \/ UNCHANGED Life!vars
<1>1. TypeOK /\ BatchesSound /\ UNCHANGED <<created, status, retryCount, shared>>
  BY DEF DeliveryInv, Push, PushAnswered, PushRaises
<1>2. PICK i \in DOMAIN created, accepted \in BOOLEAN :
        /\ batch[j] # NoBatch /\ i \in batch[j].todo /\ created[i] \in Rows
        /\ pushes' = AfterPush(created[i], accepted)
  BY <1>1, PushOfOne
<1>3. PICK n \in Rows : n = created[i]
  BY <1>2
<1>4. n \in batch[j].rows /\ ~IsNew(n) /\ batch[j].was \in {"PENDING", "FAILED"}
  BY <1>1, <1>2, <1>3 DEF BatchesSound, BatchSound, TypeOK, Batches
<1>5. UNCHANGED [m \in Rows |-> StageOf(m)] /\ UNCHANGED Unshared(retryCount)
  BY <1>1, SameStages, SameCounters
<1>6. CASE accepted /\ n \notin shared
  <2>1. status[n] \in {"PENDING", "FAILED", "READ", "ABSENT"}
    BY <1>2, <1>4, <1>6 DEF BatchesApart
  <2>2. StageOf(n) \in {"due", "failed", "seen", "deleted"}
    BY <1>4, <1>6, <2>1, StageOfRow
  <2>3. Life!OnePush(n)
    BY <1>1, <1>2, <1>3, <1>6, CountedPush
  <2>4. Life!Push(n)
    BY <1>5, <2>2, <2>3 DEF Life!Push
  <2> QED BY <2>4 DEF Life!Next
<1>7. CASE ~accepted \/ n \in shared
  <2>1. UNCHANGED Unshared(pushes)
    BY <1>1, <1>2, <1>3, <1>7, CountedPush
  <2> QED BY <1>5, <2>1 DEF Life!vars
<1> QED BY <1>6, <1>7

LEMMA CommitImplements ==
  ASSUME DeliveryInv, BatchesApart, TriesCurrent, NEW j \in Jobs, CommitBatch(j)
  PROVE  Life!Next \/ UNCHANGED Life!vars
<1>1. /\ TypeOK /\ BatchesSound /\ UNCHANGED <<created, pushes, shared>>
      /\ UNCHANGED Unshared(pushes)
  BY SameCounters DEF DeliveryInv, CommitBatch
<1>2. CASE \E n \in batch[j].rows : status[n] = "ABSENT"
  <2>1. UNCHANGED <<status, retryCount>>
    BY <1>2 DEF CommitBatch
  <2> QED BY <1>1, <2>1, SameStages, SameCounters DEF Life!vars
<1>3. CASE ~\E n \in batch[j].rows : status[n] = "ABSENT"
  <2>1. PICK b : b = batch[j]
    OBVIOUS
  <2>2. /\ b # NoBatch /\ b \in Batches /\ BatchSound(b) /\ StoreOutcomes(b)
        /\ b.rows \subseteq Rows /\ b.sent \subseteq b.rows /\ b.was \in {"PENDING", "FAILED"}
    BY <1>1, <1>3, <2>1 DEF CommitBatch, BatchesSound, BatchSound, TypeOK, Batches
  <2>3. \A n \in b.rows \ shared : status[n] \in {b.was, "READ"} /\ b.tries[n] = retryCount[n]
    BY <1>3, <2>1, <2>2 DEF BatchesApart, TriesCurrent
  <2> DEFINE
        delivered == b.sent \ shared
        failed == {n \in b.rows \ (b.sent \cup shared) : b.was = "PENDING" \/ status[n] = "FAILED"}
        seen == {n \in b.rows \ (b.sent \cup shared) : b.was = "FAILED" /\ status[n] = "READ"}
  <2>4. /\ (b.rows \ b.sent) \ shared = failed \cup seen
        /\ delivered \cap failed = {} /\ seen \cap (delivered \cup failed) = {}
        /\ delivered \in SUBSET Rows /\ failed \in SUBSET Rows /\ seen \in SUBSET Rows
    BY <2>2, <2>3
  <2>5. /\ \A n \in b.rows \ shared : StageOf(n) \in {"due", "failed", "seen"}
        /\ \A n \in seen : StageOf(n) = "seen"
    BY <2>2, <2>3, StageOfRow
  <2>6. \A n \in delivered : Unshared(pushes)[n] > 0
    BY <2>2, <2>4 DEF BatchSound, Unshared
  <2>7. \A n \in failed \cup seen : Unshared(retryCount)[n] < MaxRetry
    BY <2>2, <2>3, <2>4 DEF BatchSound, Unshared
  <2>8. \A n \in Rows \ shared : retryCount'[n] =
            IF n \in failed \cup seen THEN retryCount[n] + 1 ELSE retryCount[n]
    BY <2>2, <2>3, <2>4 DEF StoreOutcomes
  <2>9. \A n \in Rows : IsNew(n)' <=> IsNew(n)
    BY <1>1 DEF IsNew
  <2>10. \A n \in Rows : StageOf(n)' =
            IF n \in delivered THEN "delivered" ELSE IF n \in failed THEN "failed" ELSE StageOf(n)
    <3> SUFFICES ASSUME NEW n \in Rows
                 PROVE  StageOf(n)' = IF n \in delivered THEN "delivered"
                                      ELSE IF n \in failed THEN "failed" ELSE StageOf(n)
      OBVIOUS
    <3>1. CASE n \in delivered
      BY <1>1, <2>2, <3>1, StageOfRowNext DEF StoreOutcomes
    <3>2. CASE n \in failed
      <4>1. status'[n] = "FAILED"
        BY <2>2, <3>2 DEF StoreOutcomes
      <4> QED BY <1>1, <2>4, <3>2, <4>1, StageOfRowNext
    <3>3. CASE n \notin delivered /\ n \notin failed
      <4>1. n \in shared \/ status'[n] = status[n]
        BY <2>2, <2>4, <3>3 DEF StoreOutcomes
      <4> QED BY <1>1, <2>9, <3>3, <4>1, SameStage
    <3> QED BY <3>1, <3>2, <3>3
  <2>11. Unshared(retryCount)' =
            [n \in Rows |-> IF n \in failed \cup seen THEN Unshared(retryCount)[n] + 1
                            ELSE Unshared(retryCount)[n]]
    BY <1>1, <2>4, <2>8 DEF Unshared
  <2>12. \A n \in delivered \cup failed : StageOf(n) \in {"due", "failed", "seen"}
    BY <2>2, <2>5
  <2> HIDE DEF delivered, failed, seen
  <2>13. Life!Settle(delivered, failed, seen)
    BY <1>1, <2>4, <2>5, <2>6, <2>7, <2>10, <2>11, <2>12 DEF Life!Settle
  <2> QED BY <2>4, <2>13 DEF Life!Next
<1> QED BY <1>2, <1>3

LEMMA MarkReadImplements ==
  ASSUME DeliveryInv, NEW n \in Rows, MarkRead(n)
  PROVE  Life!Read(n) \/ UNCHANGED Life!vars
<1>1. /\ TypeOK /\ UNCHANGED <<created, retryCount, pushes, shared>>
      /\ UNCHANGED Unshared(pushes) /\ UNCHANGED Unshared(retryCount)
  BY SameCounters DEF DeliveryInv, MarkRead
<1>2. /\ status[n] \in Status
      /\ status'[n] = "READ" /\ \A m \in Rows \ {n} : status'[m] = status[m]
  BY <1>1 DEF MarkRead, TypeOK
<1>3. \A m \in Rows : IsNew(m)' <=> IsNew(m)
  BY <1>1 DEF IsNew
<1>4. CASE status[n] = "READ" \/ n \in shared
  <2>1. \A m \in Rows : StageOf(m)' = StageOf(m)
    BY <1>1, <1>2, <1>3, <1>4, SameStage
  <2> QED BY <1>1, <2>1 DEF Life!vars
<1>5. CASE status[n] # "READ" /\ n \notin shared
  <2>1. StageOf(n) \in {"due", "failed", "delivered"} /\ StageOf(n)' = "seen"
    BY <1>1, <1>2, <1>5, StageOfRow, StageOfRowNext DEF Status
  <2>2. Life!Moves(n, {"due", "failed", "delivered"}, "seen")
    BY <1>1, <1>2, <1>3, <2>1, OneLifeMoves
  <2> QED BY <1>1, <2>2 DEF Life!Read
<1> QED BY <1>4, <1>5

LEMMA WithdrawImplements ==
  ASSUME DeliveryInv, NEW u \in Users, Withdraw(u)
  PROVE  \E ns \in SUBSET Rows : Life!Discard(ns)
<1>1. /\ TypeOK /\ NewRowsUntouched /\ UNCHANGED <<created, retryCount, pushes, shared>>
      /\ UNCHANGED Unshared(pushes) /\ UNCHANGED Unshared(retryCount)
  BY SameCounters DEF DeliveryInv, Withdraw
<1>2. \A n \in Rows : IsNew(n)' <=> IsNew(n)
  BY <1>1 DEF IsNew
<1> DEFINE ns == {n \in Rows \ shared : Recipient[n] = u /\ ~IsNew(n)}
<1>3. \A n \in ns : StageOf(n) \notin {"none", "contested"}
  BY <1>1, StageOfRow DEF TypeOK, Status
<1>4. \A n \in Rows : StageOf(n)' = IF n \in ns THEN "deleted" ELSE StageOf(n)
  <2> SUFFICES ASSUME NEW n \in Rows
               PROVE  StageOf(n)' = IF n \in ns THEN "deleted" ELSE StageOf(n)
    OBVIOUS
  <2>1. CASE n \in ns
    BY <1>1, <1>2, <2>1, StageOfRowNext DEF Withdraw
  <2>2. CASE n \notin ns
    <3>1. n \in shared \/ status'[n] = status[n]
      BY <1>1, <2>2 DEF Withdraw, NewRowsUntouched
    <3> QED BY <1>1, <1>2, <2>2, <3>1, SameStage
  <2> QED BY <2>1, <2>2
<1>5. ns \in SUBSET Rows
  OBVIOUS
<1> HIDE DEF ns
<1>6. Life!Discard(ns)
  BY <1>1, <1>3, <1>4, <1>5 DEF Life!Discard
<1> QED BY <1>5, <1>6

(* A batch that reads rows of another one contests them.                       *)
LEMMA StartImplements ==
  ASSUME TypeOK, NEW j \in Jobs, NEW was \in {"PENDING", "FAILED"}, NEW found \in SUBSET Rows,
         batch[j] = NoBatch, StartBatch(j, was, Oldest(found)),
         UNCHANGED <<created, status, retryCount, pushes>>,
         \A n \in found : status[n] = was
  PROVE  \E ns \in SUBSET Rows : Life!Contest(ns)
<1> DEFINE ns == shared' \ shared
<1>1. ns \in SUBSET Rows /\ shared \subseteq shared' /\ \A n \in ns : status[n] = was
  BY StartEffect
<1>2. \A n \in ns : StageOf(n) \in {"due", "failed"}
  BY <1>1, StageOfRow
<1>3. \A n \in Rows : IsNew(n)' <=> IsNew(n)
  BY DEF IsNew
<1>4. \A n \in Rows : StageOf(n)' = IF n \in ns THEN "contested" ELSE StageOf(n)
  <2> SUFFICES ASSUME NEW n \in Rows
               PROVE  StageOf(n)' = IF n \in ns THEN "contested" ELSE StageOf(n)
    OBVIOUS
  <2>1. CASE n \in ns
    BY <2>1, StageOfRowNext
  <2>2. CASE n \notin ns
    BY <1>1, <1>3, <2>2, SameStage
  <2> QED BY <2>1, <2>2
<1>5. /\ Unshared(pushes)' = [n \in Rows |-> IF n \in ns THEN 0 ELSE Unshared(pushes)[n]]
      /\ Unshared(retryCount)' = [n \in Rows |-> IF n \in ns THEN 0 ELSE Unshared(retryCount)[n]]
  BY <1>1 DEF Unshared
<1> HIDE DEF ns
<1>6. Life!Contest(ns)
  BY <1>1, <1>2, <1>4, <1>5 DEF Life!Contest
<1> QED BY <1>1, <1>6

LEMMA OutboxImplementsNext ==
  ASSUME DeliveryInv, BatchesApart, TriesCurrent, SharedStored, [Next]_vars
  PROVE  [Life!Next]_(Life!vars)
<1>1. ASSUME UNCHANGED <<created, status, retryCount, pushes, shared>> PROVE UNCHANGED Life!vars
  BY <1>1, SameStages, SameCounters DEF Life!vars
<1>2. ASSUME NEW n \in Rows, Store(n) \/ SendToUser(n) PROVE Life!Next
  BY <1>2, StoreImplements, SendToUserImplements DEF Life!Next
<1>3. ASSUME NEW n \in Rows, MarkRead(n) PROVE Life!Next \/ UNCHANGED Life!vars
  BY <1>3, MarkReadImplements DEF Life!Next
<1>4. ASSUME NEW j \in Jobs, Push(j) \/ CommitBatch(j) PROVE Life!Next \/ UNCHANGED Life!vars
  BY <1>4, PushImplements, CommitImplements
<1>5. ASSUME NEW u \in Users, Withdraw(u) PROVE Life!Next
  BY <1>5, WithdrawImplements DEF Life!Next
<1>6. ASSUME \/ \E u \in Users : UpdateAlarm(u) \/ UpdateFcmToken(u)
             \/ Crash
             \/ UNCHANGED vars
      PROVE  UNCHANGED Life!vars
  BY <1>1, <1>6 DEF UpdateAlarm, UpdateFcmToken, Crash, vars
<1>7. ASSUME NEW j \in Flushers, StartFlush(j) PROVE Life!Next
  <2> DEFINE found == {n \in Rows : Pending(n)}
  <2>1. /\ found \in SUBSET Rows /\ \A n \in found : status[n] = "PENDING"
        /\ j \in Jobs /\ batch[j] = NoBatch /\ StartBatch(j, "PENDING", Oldest(found))
        /\ UNCHANGED <<created, status, retryCount, pushes>>
    BY <1>7 DEF StartFlush, Pending, Jobs
  <2> HIDE DEF found
  <2>2. \E ns \in SUBSET Rows : Life!Contest(ns)
    BY <2>1, StartImplements DEF DeliveryInv
  <2> QED BY <2>2 DEF Life!Next
<1>8. CASE StartRetry
  <2> DEFINE found == {n \in Rows : Retryable(n)}
  <2>1. /\ found \in SUBSET Rows /\ \A n \in found : status[n] = "FAILED"
        /\ Retrier \in Jobs /\ batch[Retrier] = NoBatch
        /\ StartBatch(Retrier, "FAILED", Oldest(found))
        /\ UNCHANGED <<created, status, retryCount, pushes>>
    BY <1>8 DEF StartRetry, Retryable, Jobs
  <2> HIDE DEF found
  <2>2. \E ns \in SUBSET Rows : Life!Contest(ns)
    BY <2>1, StartImplements DEF DeliveryInv
  <2> QED BY <2>2 DEF Life!Next
<1> QED BY <1>2, <1>3, <1>4, <1>5, <1>6, <1>7, <1>8 DEF Next

LEMMA OutboxImplementsInit == Init => Life!Init
<1> SUFFICES ASSUME Init PROVE Life!Init
  OBVIOUS
<1>1. \A n \in Rows : IsNew(n) /\ status[n] = "ABSENT" /\ n \notin shared
  BY DEF Init, IsNew
<1>2. \A n \in Rows : StageOf(n) = "none"
  BY <1>1, StageOfRow
<1> QED BY <1>2 DEF Init, Life!Init, Unshared

(* The delivery of notifications implements their life, whatever overlapping   *)
(* batches, calls that raise, crashes, readers and withdrawals there are: the  *)
(* outcomes a batch commits are outcomes of its rows as they are by then       *)
(* (notification_worker.py, _send_batch), except those another batch has held  *)
(* meanwhile.                                                                  *)
THEOREM DeliveryImplementsLife == Spec => ImplementsNotificationLife
<1>1. Init => BatchesApart /\ TriesCurrent /\ SharedStored
  BY DEF Init, BatchesApart, TriesCurrent, SharedStored, Jobs
<1>2. DeliveryInv /\ BatchesApart /\ TriesCurrent /\ SharedStored /\ [Next]_vars =>
        BatchesApart' /\ TriesCurrent' /\ SharedStored'
  BY OutboxApartNext, TriesNext, SharedNext
<1>3. DeliveryInv /\ BatchesApart /\ TriesCurrent /\ SharedStored /\ [Next]_vars =>
        [Life!Next]_(Life!vars)
  BY OutboxImplementsNext
<1> QED
  BY <1>1, <1>2, <1>3, OutboxImplementsInit, DeliverySound, PTL
     DEF Spec, ImplementsNotificationLife, Life!Spec

================================================================================
