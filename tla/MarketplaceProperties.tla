------------------------- MODULE MarketplaceProperties -------------------------
(* What the requests of Marketplace must keep true of its tables.              *)
EXTENDS Marketplace

(* An offer that was accepted, at whatever stage its execution is. *)
EngagedOfferStatuses == ActiveOfferStatuses \cup {"RESOLVED"}
Engaged(p, u) == offerStatus[p][u] \in EngagedOfferStatuses

(* The proposal statuses from the acceptance on, and the stages an execution   *)
(* can be at: the status of the proposal with the status of its engaged offer. *)
MatchedProposalStatuses ==
    {"MATCHED", "ORDER_COMPLETED", "ALL_COMPLETED", "DISPUTED", "RESOLVED"}
ExecutionStages ==
    {<<"MATCHED", "ACCEPTED">>, <<"MATCHED", "RUNNER_COMPLETED">>,
     <<"ORDER_COMPLETED", "ACCEPTED">>, <<"ALL_COMPLETED", "ALL_COMPLETED">>,
     <<"DISPUTED", "DISPUTED">>, <<"RESOLVED", "RESOLVED">>}

(* A proposal never has two accepted offers: accept refuses a second one and   *)
(* rejects the waiting ones, and no other request produces an engaged offer.   *)
SingleExecution ==
    \A p \in Proposals : \A u, v \in Users : Engaged(p, u) /\ Engaged(p, v) => u = v

(* The two records of one execution, the proposal for the orderer and the      *)
(* offer for the runner, are always at matching stages, and a matched proposal *)
(* always has its offer: the pairs of updates in accept, complete_delivery,    *)
(* confirm_received, raise_dispute and resolve never drift apart.              *)
StatusesAgree ==
    \A p \in Proposals :
        /\ \A u \in Users : Engaged(p, u) =>
                <<proposalStatus[p], offerStatus[p][u]>> \in ExecutionStages
        /\ proposalStatus[p] \in MatchedProposalStatuses =>
                \E u \in Users : Engaged(p, u)

(* Offers wait only under a proposal that is OFFERED, so every request that    *)
(* closes the recruitment settles them all; a proposal that can still be       *)
(* edited has never had an offer; nobody offers on a proposal of his own.      *)
OffersWaitOnlyWhenOffered ==
    \A p \in Proposals, u \in Users :
        /\ offerStatus[p][u] = "WAITING" => proposalStatus[p] = "OFFERED"
        /\ offerStatus[p][u] # "ABSENT" =>
                /\ proposalStatus[p] \notin {"ABSENT", "HOLDING", "POSTED"}
                /\ orderer[p] # u

(* The level of a user is the number of executions he completed as a runner    *)
(* (_sync_all_completed raises it in the two services, once per execution).    *)
LevelCountsCompletions ==
    \A u \in Users :
        level[u] = Cardinality({p \in Proposals : offerStatus[p][u] = "ALL_COMPLETED"})

(* Withdrawal leaves nothing that still needs the user: no open or running     *)
(* proposal, no waiting or running offer, no notification left to deliver.     *)
WithdrawnIsInert ==
    \A u \in Users : deleted[u] =>
        /\ ~alarmEnabled[u]
        /\ \A n \in notifications : n.user # u
        /\ \A p \in Proposals :
            /\ orderer[p] = u => proposalStatus[p] \notin
                 CancellableStatuses \cup WithdrawalBlockingProposalStatuses
            /\ offerStatus[p][u] \notin {"WAITING"} \cup WithdrawalBlockingOfferStatuses

(* While a proposal is public or in execution, its fee is the one whose        *)
(* payment was confirmed: an edit sends it back to HOLDING for a new payment.  *)
PaidAsPosted ==
    \A p \in Proposals :
        proposalStatus[p] \in OpenProposalStatuses \cup MatchedProposalStatuses
            => paidFee[p] = errandFee[p]

(* A dispute is filed with exactly one evidence row, by one of the two parties *)
(* of the execution, and evidence exists only for executions in dispute.       *)
EvidencePerDispute ==
    /\ \A p \in Proposals, u \in Users :
        (offerStatus[p][u] \in {"DISPUTED", "RESOLVED"}) <=>
            \E e \in evidences : e.proposal = p /\ e.runner = u
    /\ \A e \in evidences : e.actor \in {e.runner, orderer[e.proposal]}
    /\ \A e, f \in evidences : e.proposal = f.proposal => e = f

(* A proposal is REPORTED exactly when an administrator accepted a report on   *)
(* it: neither its owner nor a withdrawal takes a reported proposal away.      *)
ReportedIffAccepted ==
    \A p \in Proposals :
        (proposalStatus[p] = "REPORTED") <=> \E u \in Users : reports[p][u] = "ACCEPTED"

(* The proposal and its engaged offer show the same parties as confirmed, and  *)
(* both parties have confirmed exactly when the execution is ALL_COMPLETED.    *)
ConfirmationsAgree ==
    \A p \in Proposals, u \in Users : Engaged(p, u) =>
        /\ \A side \in Sides :
             (proposalStamps[p][side] = "null") <=> (offerStamps[p][u][side] = "null")
        /\ (offerStatus[p][u] = "ALL_COMPLETED") <=>
             \A side \in Sides : offerStamps[p][u][side] # "null"

(* An execution is never stranded: while it runs, one of its two parties can   *)
(* still confirm, and while it is in dispute the administrator can resolve it. *)
ExecutionCanFinish ==
    \A p \in Proposals :
        /\ proposalStatus[p] \in {"MATCHED", "ORDER_COMPLETED"} =>
             \E u \in Users : CanCompleteDelivery(p, u) \/ CanConfirmReceived(p, u)
        /\ proposalStatus[p] = "DISPUTED" => \E u \in Users : CanResolve(p, u)

(* What a notification that announces progress or a dispute says.             *)
Truthful(n) ==
    LET offer == offerStatus[n.proposal][n.runner]
        stamps == offerStamps[n.proposal][n.runner]
    IN  /\ n.type = "OFFER_NEW" => n.user = orderer[n.proposal] /\ offer # "ABSENT"
        /\ n.type = "OFFER_SUBMITTED" => n.user = n.runner /\ offer # "ABSENT"
        /\ n.type = "OFFER_ACCEPTED" => n.user = n.runner /\ offer \in EngagedOfferStatuses
        /\ n.type = "OFFER_REJECTED" =>
              offerStatus[n.proposal][n.user] = "REJECTED" /\ offer \in EngagedOfferStatuses
        /\ n.type = "MEETING_CONFIRMED" =>
              \/ n.user = orderer[n.proposal] /\ stamps["runner"] # "null"
              \/ n.user = n.runner /\ stamps["orderer"] # "null"
        /\ n.type = "DISPUTE_RAISED" => offer \in {"DISPUTED", "RESOLVED"}

(* A stored notification of an offer, of its acceptance or rejection, of one   *)
(* side's confirmation or of a dispute says something true of the tables it    *)
(* was committed with, and that stays true afterwards.  The completion notice  *)
(* is left out: it is stored too early (CompletionNoticeMeansBothConfirmed).   *)
ProgressNoticesTruthful == \A n \in notifications : Truthful(n)

(* No step takes the execution away from the runner who was accepted, and a    *)
(* runner becomes engaged only by the acceptance of his waiting offer.         *)
MatchIsFinal ==
    [][\A p \in Proposals, u \in Users :
          /\ Engaged(p, u) => Engaged(p, u)'
          /\ ~Engaged(p, u) /\ Engaged(p, u)' =>
                /\ offerStatus[p][u] = "WAITING" /\ offerStatus'[p][u] = "ACCEPTED"
                /\ \A v \in Users \ {u} : ~Engaged(p, v)']_vars

(* The tables of transitions in docs/domain.md, completed by the two things    *)
(* they leave out: an edit asks for a new payment, and confirm_received passes *)
(* through ORDER_COMPLETED within one request.                                 *)
ProposalTransitions ==
    {<<"ABSENT", "HOLDING">>, <<"HOLDING", "POSTED">>, <<"POSTED", "OFFERED">>,
     <<"OFFERED", "MATCHED">>, <<"MATCHED", "ORDER_COMPLETED">>,
     <<"ORDER_COMPLETED", "ALL_COMPLETED">>, <<"DISPUTED", "RESOLVED">>,
     <<"POSTED", "HOLDING">>, <<"MATCHED", "ALL_COMPLETED">>}
        \cup ({"MATCHED", "ORDER_COMPLETED"} \X {"DISPUTED"})
        \cup (OpenProposalStatuses \X {"REPORTED"})
        \cup ({"HOLDING", "POSTED", "OFFERED"} \X {"CANCELLED"})

OfferTransitions ==
    {<<"ABSENT", "WAITING">>, <<"ACCEPTED", "RUNNER_COMPLETED">>,
     <<"RUNNER_COMPLETED", "ALL_COMPLETED">>, <<"ACCEPTED", "ALL_COMPLETED">>,
     <<"DISPUTED", "RESOLVED">>}
        \cup ({"WAITING"} \X {"ACCEPTED", "REJECTED", "CANCELLED"})
        \cup ({"ACCEPTED", "RUNNER_COMPLETED"} \X {"DISPUTED"})

(* No request takes a proposal or an offer, its own or another one, along a    *)
(* way that the tables do not have: what is closed or settled stays so.        *)
OnlyDocumentedTransitions ==
    [][\A p \in Proposals :
          /\ proposalStatus'[p] # proposalStatus[p] =>
                <<proposalStatus[p], proposalStatus'[p]>> \in ProposalTransitions
          /\ \A u \in Users : offerStatus'[p][u] # offerStatus[p][u] =>
                <<offerStatus[p][u], offerStatus'[p][u]>> \in OfferTransitions]_vars

--------------------------------------------------------------------------------
(* What the documents say and the code does not do.                            *)

(* docs/product-specs/notification-policy.md: the completion notice is for the *)
(* moment when both sides have confirmed the meeting.                          *)
CompletionNoticeMeansBothConfirmed ==
    \A n \in notifications : n.type = "EXECUTION_COMPLETED" =>
        offerStatus[n.proposal][n.runner] = "ALL_COMPLETED"

================================================================================
