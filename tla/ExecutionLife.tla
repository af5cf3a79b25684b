------------------------------ MODULE ExecutionLife ------------------------------
(* What the marketplace promises about one errand, without its tables: who     *)
(* carries it out, who has confirmed it, and how far it is.  Two confirmations *)
(* complete it, at that moment and by themselves; the runner earns a level     *)
(* then and at no other moment; a dispute ends the confirming for good.        *)
EXTENDS Naturals

CONSTANTS Users, Proposals, NoUser

VARIABLES
    stage,      \* by proposal: how far the errand is
    runner,     \* by proposal: the user who carries it out, or NoUser
    confirmed,  \* by proposal: the sides that have confirmed
    earned      \* by user: the errands that were completed for others

vars == <<stage, runner, confirmed, earned>>

Stages == {"none", "unpaid", "open", "running", "completed", "disputed", "settled", "closed"}
Parties == {"runner", "orderer"}

Init ==
    /\ stage = [p \in Proposals |-> "none"]
    /\ runner = [p \in Proposals |-> NoUser]
    /\ confirmed = [p \in Proposals |-> {}]
    /\ earned = [u \in Users |-> 0]

Moves(p, from, to) ==
    stage[p] \in from /\ stage' = [stage EXCEPT ![p] = to]

Ask(p) == Moves(p, {"none"}, "unpaid") /\ UNCHANGED <<runner, confirmed, earned>>

Pay(p) == Moves(p, {"unpaid"}, "open") /\ UNCHANGED <<runner, confirmed, earned>>

ChangeTerms(p) == Moves(p, {"open"}, "unpaid") /\ UNCHANGED <<runner, confirmed, earned>>

(* A withdrawal closes everything its user had open, in one step.              *)
Close(ps) ==
    /\ \A p \in ps : stage[p] \in {"unpaid", "open"}
    /\ stage' = [p \in Proposals |-> IF p \in ps THEN "closed" ELSE stage[p]]
    /\ UNCHANGED <<runner, confirmed, earned>>

Match(p, u) ==
    /\ Moves(p, {"open"}, "running")
    /\ runner' = [runner EXCEPT ![p] = u]
    /\ UNCHANGED <<confirmed, earned>>

ConfirmFirst(p, party) ==
    /\ stage[p] = "running"
    /\ confirmed[p] = {}
    /\ confirmed' = [confirmed EXCEPT ![p] = {party}]
    /\ UNCHANGED <<stage, runner, earned>>

ConfirmSecond(p, party) ==
    /\ confirmed[p] = Parties \ {party}
    /\ Moves(p, {"running"}, "completed")
    /\ confirmed' = [confirmed EXCEPT ![p] = Parties]
    /\ earned' = [earned EXCEPT ![runner[p]] = @ + 1]
    /\ UNCHANGED runner

Dispute(p) == Moves(p, {"running"}, "disputed") /\ UNCHANGED <<runner, confirmed, earned>>

Settle(p) == Moves(p, {"disputed"}, "settled") /\ UNCHANGED <<runner, confirmed, earned>>

Next ==
    \/ \E p \in Proposals : Ask(p) \/ Pay(p) \/ ChangeTerms(p) \/ Dispute(p) \/ Settle(p)
    \/ \E ps \in SUBSET Proposals : Close(ps)
    \/ \E p \in Proposals, u \in Users : Match(p, u)
    \/ \E p \in Proposals, party \in Parties : ConfirmFirst(p, party) \/ ConfirmSecond(p, party)

Spec == Init /\ [][Next]_vars

==================================================================================
