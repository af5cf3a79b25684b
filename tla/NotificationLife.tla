----------------------------- MODULE NotificationLife -----------------------------
(* What the delivery promises about one notification, without tasks, batches   *)
(* or tables: it is tried a bounded number of times, counts every failure that *)
(* is stored, shows as delivered only what was pushed, is never pushed again   *)
(* once it shows so, and never comes back once it is deleted.  Reading it does *)
(* not stop a delivery that is under way.  Of a notification that two batches  *)
(* hold at once nothing is promised any more: it is contested for good.        *)
EXTENDS Naturals

CONSTANTS
    Rows,   \* the notifications
    Limit   \* how many failures a notification may count

VARIABLES
    stage,     \* by notification: how far it is
    accepted,  \* by notification: the pushes that were taken
    failures   \* by notification: the failures that were counted

vars == <<stage, accepted, failures>>

Stages == {"none", "due", "failed", "delivered", "seen", "deleted", "contested"}

Init ==
    /\ stage = [n \in Rows |-> "none"]
    /\ accepted = [n \in Rows |-> 0]
    /\ failures = [n \in Rows |-> 0]

Moves(n, from, to) == stage[n] \in from /\ stage' = [stage EXCEPT ![n] = to]

OnePush(n) == accepted' = [accepted EXCEPT ![n] = @ + 1]

Announce(n) == Moves(n, {"none"}, "due") /\ UNCHANGED <<accepted, failures>>

(* It is pushed before it is stored; a failure is not counted. *)
SendAtOnce(n) ==
    /\ \/ Moves(n, {"none"}, "delivered") /\ OnePush(n)
       \/ Moves(n, {"none"}, "failed") /\ UNCHANGED accepted
    /\ UNCHANGED failures

(* A push that is under way overtakes its user, who reads or deletes the row.  *)
Push(n) ==
    /\ stage[n] \in {"due", "failed", "seen", "deleted"}
    /\ OnePush(n)
    /\ UNCHANGED <<stage, failures>>

(* The outcomes of a batch, together: those that were delivered, those that    *)
(* show their failure, and those read meanwhile, which only count it.          *)
Settle(delivered, failed, seen) ==
    /\ delivered \cap failed = {} /\ seen \cap (delivered \cup failed) = {}
    /\ \A n \in delivered : stage[n] \in {"due", "failed", "seen"} /\ accepted[n] > 0
    /\ \A n \in failed : stage[n] \in {"due", "failed", "seen"} /\ failures[n] < Limit
    /\ \A n \in seen : stage[n] = "seen" /\ failures[n] < Limit
    /\ stage' = [n \in Rows |-> IF n \in delivered THEN "delivered"
                                ELSE IF n \in failed THEN "failed" ELSE stage[n]]
    /\ failures' = [n \in Rows |-> IF n \in failed \cup seen THEN failures[n] + 1
                                   ELSE failures[n]]
    /\ UNCHANGED accepted

Read(n) ==
    Moves(n, {"due", "failed", "delivered"}, "seen") /\ UNCHANGED <<accepted, failures>>

(* A withdrawal deletes everything its user has received, in one step.         *)
Discard(ns) ==
    /\ \A n \in ns : stage[n] \notin {"none", "contested"}
    /\ stage' = [n \in Rows |-> IF n \in ns THEN "deleted" ELSE stage[n]]
    /\ UNCHANGED <<accepted, failures>>

(* A second batch takes what another one still has: its counts are forgotten.  *)
Contest(ns) ==
    /\ \A n \in ns : stage[n] \in {"due", "failed"}
    /\ stage' = [n \in Rows |-> IF n \in ns THEN "contested" ELSE stage[n]]
    /\ accepted' = [n \in Rows |-> IF n \in ns THEN 0 ELSE accepted[n]]
    /\ failures' = [n \in Rows |-> IF n \in ns THEN 0 ELSE failures[n]]

Next ==
    \/ \E n \in Rows : Announce(n) \/ SendAtOnce(n) \/ Push(n) \/ Read(n)
    \/ \E delivered, failed, seen \in SUBSET Rows : Settle(delivered, failed, seen)
    \/ \E ns \in SUBSET Rows : Discard(ns) \/ Contest(ns)

Spec == Init /\ [][Next]_vars

===================================================================================
