-------------------------- MODULE MarketplaceRefinement --------------------------
(* The tables of Marketplace as a record of the errands of ExecutionLife: the  *)
(* stage is read from proposals, the runner from offers, the confirmations     *)
(* from the timestamps of the proposal, and what was earned from users.level.  *)
EXTENDS MarketplaceProperties

StageOf(status) ==
    CASE status = "ABSENT" -> "none"
      [] status = "HOLDING" -> "unpaid"
      [] status \in OpenProposalStatuses -> "open"
      [] status \in {"MATCHED", "ORDER_COMPLETED"} -> "running"
      [] status = "ALL_COMPLETED" -> "completed"
      [] status = "DISPUTED" -> "disputed"
      [] status = "RESOLVED" -> "settled"
      [] status \in {"REPORTED", "CANCELLED"} -> "closed"

RunnerOf(p) ==
    IF \E u \in Users : Engaged(p, u) THEN CHOOSE u \in Users : Engaged(p, u) ELSE NoUser

Life == INSTANCE ExecutionLife WITH
    stage <- [p \in Proposals |-> StageOf(proposalStatus[p])],
    runner <- [p \in Proposals |-> RunnerOf(p)],
    confirmed <- [p \in Proposals |-> {side \in Sides : proposalStamps[p][side] # "null"}],
    earned <- level

(* The requests on the tables implement the life of the errands: each request  *)
(* makes one step of it, or none.  complete_delivery and confirm_received,     *)
(* whichever comes second, complete the errand and raise the level together,   *)
(* and no request confirms, completes or reopens anything besides              *)
(* (offer_service.py:292-327, proposal_service.py:300-330).                    *)
ImplementsExecutionLife == Life!Spec

==================================================================================
