---------------------------- MODULE TransitionProofs ----------------------------
(* How far a request may move a proposal, an offer and a match: the action     *)
(* properties of Marketplace, for any users, proposals and fees.               *)
EXTENDS MarketplaceProofs

USE DEF userVars, proposalVars, offerVars

(* A proposal, and an offer, stays where it is or goes along its table.        *)
ProposalMoves(p) ==
    proposalStatus'[p] # proposalStatus[p] =>
        <<proposalStatus[p], proposalStatus'[p]>> \in ProposalTransitions
OfferMoves(p, u) ==
    offerStatus'[p][u] # offerStatus[p][u] =>
        <<offerStatus[p][u], offerStatus'[p][u]>> \in OfferTransitions

(* A request that writes the status of one proposal.                           *)
LEMMA OneProposalMoves ==
  ASSUME TypeOK, NEW p \in Proposals, NEW to,
         proposalStatus' = [proposalStatus EXCEPT ![p] = to],
         to = proposalStatus[p] \/ <<proposalStatus[p], to>> \in ProposalTransitions
  PROVE  \A r \in Proposals : ProposalMoves(r)
  BY DEF TypeOK, ProposalMoves

(* A request that writes the status of one offer.                              *)
LEMMA OneOfferMoves ==
  ASSUME TypeOK, NEW p \in Proposals, NEW u \in Users, NEW to,
         offerStatus' = [offerStatus EXCEPT ![p][u] = to],
         to = offerStatus[p][u] \/ <<offerStatus[p][u], to>> \in OfferTransitions
  PROVE  \A r \in Proposals, v \in Users : OfferMoves(r, v)
  BY DEF TypeOK, OfferMoves

(* The bulk update that settles the waiting offers of a proposal.              *)
LEMMA RejectedOffersMove ==
  ASSUME TypeOK, NEW p \in Proposals, offerStatus' = WaitingOffersBecome(p, "REJECTED", {})
  PROVE  \A r \in Proposals, v \in Users : OfferMoves(r, v)
  BY RejectWaiting DEF OfferMoves, Settled, OfferTransitions

LEMMA NextMoves ==
  ASSUME TypeOK, [Next]_vars
  PROVE  \A r \in Proposals : ProposalMoves(r) /\ \A v \in Users : OfferMoves(r, v)
<1> DEFINE Moves == \A r \in Proposals : ProposalMoves(r) /\ \A v \in Users : OfferMoves(r, v)
<1>0. ASSUME UNCHANGED <<proposalStatus, offerStatus>> PROVE Moves
  BY <1>0 DEF ProposalMoves, OfferMoves
<1>1. ASSUME NEW p \in Proposals, NEW u \in Users, NEW fee \in Fees, CreateProposal(p, u, fee)
      PROVE  Moves
  BY <1>1, OneProposalMoves
     DEF CreateProposal, CreateProposalWrites, CanCreateProposal, ProposalTransitions, OfferMoves
<1>2. ASSUME NEW p \in Proposals, NEW fee \in Fees, UpdateProposal(p, fee) PROVE Moves
  <2>1. /\ proposalStatus' = [proposalStatus EXCEPT ![p] = "HOLDING"]
        /\ UNCHANGED offerStatus
        /\ proposalStatus[p] \in {"HOLDING", "POSTED"}
    BY <1>2 DEF UpdateProposal, UpdateProposalWrites, CanUpdateProposal, EditableStatuses, TypeOK
  <2>2. QED
    BY <2>1, OneProposalMoves DEF ProposalTransitions, OfferMoves
<1>3. ASSUME NEW p \in Proposals, CancelProposal(p) PROVE Moves
  <2>1. \A r \in Proposals : ProposalMoves(r)
    BY <1>3, OneProposalMoves
       DEF CancelProposal, CancelProposalWrites, CanCancelProposal, CancellableStatuses,
           ProposalTransitions
  <2>2. \A r \in Proposals, v \in Users : OfferMoves(r, v)
    BY <1>3, RejectedOffersMove DEF CancelProposal, CancelProposalWrites, OfferMoves
  <2>3. QED
    BY <2>1, <2>2
<1>4. ASSUME NEW p \in Proposals, ConfirmPayment(p) PROVE Moves
  BY <1>4, OneProposalMoves
     DEF ConfirmPayment, CanConfirmPayment, ConfirmPaymentWrites, ProposalTransitions, OfferMoves
<1>5. ASSUME NEW p \in Proposals, NEW u \in Users, CreateReport(p, u) \/ RejectReport(p, u)
      PROVE  Moves
  BY <1>0, <1>5 DEF CreateReport, CreateReportWrites, RejectReport, RejectReportWrites
<1>6. ASSUME NEW p \in Proposals, NEW u \in Users, AcceptReport(p, u) PROVE Moves
  <2>1. CASE proposalStatus[p] \in OpenProposalStatuses
    <3>1. /\ proposalStatus' = [proposalStatus EXCEPT ![p] = "REPORTED"]
          /\ offerStatus' = WaitingOffersBecome(p, "REJECTED", {})
      BY <1>6, <2>1 DEF AcceptReport, AcceptReportWrites
    <3>2. <<proposalStatus[p], "REPORTED">> \in ProposalTransitions
      BY <2>1 DEF ProposalTransitions
    <3>3. QED
      BY <3>1, <3>2, OneProposalMoves, RejectedOffersMove
  <2>2. CASE proposalStatus[p] \notin OpenProposalStatuses
    BY <1>0, <1>6, <2>2 DEF AcceptReport, AcceptReportWrites
  <2>3. QED
    BY <2>1, <2>2
<1>7. ASSUME NEW p \in Proposals, NEW u \in Users, CreateOffer(p, u) PROVE Moves
  <2>1. /\ offerStatus' = [offerStatus EXCEPT ![p][u] = "WAITING"]
        /\ offerStatus[p][u] = "ABSENT"
        /\ proposalStatus' = [proposalStatus EXCEPT ![p] = "OFFERED"]
        /\ proposalStatus[p] \in {"POSTED", "OFFERED"}
    BY <1>7 DEF CreateOffer, CanCreateOffer, CreateOfferWrites, OpenProposalStatuses, TypeOK
  <2>2. QED
    BY <2>1, OneProposalMoves, OneOfferMoves DEF ProposalTransitions, OfferTransitions
<1>8. ASSUME NEW p \in Proposals, NEW u \in Users, CancelOffer(p, u) PROVE Moves
  BY <1>8, OneOfferMoves
     DEF CancelOffer, CanCancelOffer, CancelOfferWrites, OfferTransitions, ProposalMoves
<1>9. ASSUME NEW p \in Proposals, NEW u \in Users, AcceptOffer(p, u) PROVE Moves
  <2>1. /\ proposalStatus' = [proposalStatus EXCEPT ![p] = "MATCHED"]
        /\ proposalStatus[p] = "OFFERED" /\ offerStatus[p][u] = "WAITING"
    BY <1>9 DEF AcceptOffer, CanAcceptOffer, AcceptOfferWrites
  <2>2. \A r \in Proposals, v \in Users : OfferMoves(r, v)
    BY <1>9, <2>1, AcceptOfferRow DEF OfferMoves, OfferTransitions
  <2>3. QED
    BY <2>1, <2>2, OneProposalMoves DEF ProposalTransitions
<1>10. ASSUME NEW p \in Proposals, NEW u \in Users, CompleteDelivery(p, u) PROVE Moves
  <2>1. offerStatus[p][u] = "ACCEPTED" /\ proposalStatus[p] \in {"MATCHED", "ORDER_COMPLETED"}
    BY <1>10 DEF CompleteDelivery, CanCompleteDelivery
  <2>2. CASE proposalStatus[p] = "ORDER_COMPLETED"
    <3>1. /\ proposalStatus' = [proposalStatus EXCEPT ![p] = "ALL_COMPLETED"]
          /\ offerStatus' = [offerStatus EXCEPT ![p][u] = "ALL_COMPLETED"]
      BY <1>10, <2>2, CompleteDeliveryLast
    <3>2. QED
      BY <2>1, <2>2, <3>1, OneProposalMoves, OneOfferMoves
         DEF ProposalTransitions, OfferTransitions
  <2>3. CASE proposalStatus[p] # "ORDER_COMPLETED"
    <3>1. /\ UNCHANGED proposalStatus
          /\ offerStatus' = [offerStatus EXCEPT ![p][u] = "RUNNER_COMPLETED"]
      BY <1>10, <2>3, CompleteDeliveryFirst
    <3>2. QED
      BY <2>1, <3>1, OneOfferMoves DEF OfferTransitions, ProposalMoves
  <2>4. QED
    BY <2>2, <2>3
<1>11. ASSUME NEW p \in Proposals, NEW u \in Users, ConfirmReceived(p, u) PROVE Moves
  <2>1. proposalStatus[p] = "MATCHED"
    BY <1>11 DEF ConfirmReceived, CanConfirmReceived
  <2>2. CASE offerStatus[p][u] = "RUNNER_COMPLETED"
    <3>1. /\ proposalStatus' = [proposalStatus EXCEPT ![p] = "ALL_COMPLETED"]
          /\ offerStatus' = [offerStatus EXCEPT ![p][u] = "ALL_COMPLETED"]
      BY <1>11, <2>2, ConfirmReceivedLast
    <3>2. QED
      BY <2>1, <2>2, <3>1, OneProposalMoves, OneOfferMoves
         DEF ProposalTransitions, OfferTransitions
  <2>3. CASE offerStatus[p][u] # "RUNNER_COMPLETED"
    <3>1. /\ proposalStatus' = [proposalStatus EXCEPT ![p] = "ORDER_COMPLETED"]
          /\ UNCHANGED offerStatus
      BY <1>11, <2>3, ConfirmReceivedFirst
    <3>2. QED
      BY <2>1, <3>1, OneProposalMoves DEF ProposalTransitions, OfferMoves
  <2>4. QED
    BY <2>2, <2>3
<1>12. ASSUME NEW p \in Proposals, NEW u \in Users,
              RaiseDisputeByRunner(p, u) \/ RaiseDisputeByOrderer(p, u)
       PROVE  Moves
  <2>1. /\ offerStatus[p][u] \in {"ACCEPTED", "RUNNER_COMPLETED"}
        /\ proposalStatus[p] \in {"MATCHED", "ORDER_COMPLETED"}
        /\ proposalStatus' = [proposalStatus EXCEPT ![p] = "DISPUTED"]
        /\ offerStatus' = [offerStatus EXCEPT ![p][u] = "DISPUTED"]
    BY <1>12 DEF RaiseDisputeByRunner, RaiseDisputeByOrderer, CanRaiseDispute, RaiseDisputeWrites
  <2>2. QED
    BY <2>1, OneProposalMoves, OneOfferMoves DEF ProposalTransitions, OfferTransitions
<1>13. ASSUME NEW p \in Proposals, NEW u \in Users, Resolve(p, u) PROVE Moves
  BY <1>13, OneProposalMoves, OneOfferMoves
     DEF Resolve, CanResolve, ResolveWrites, ProposalTransitions, OfferTransitions
<1>14. ASSUME NEW u \in AlarmUsers, NEW enabled \in BOOLEAN, UpdateAlarm(u, enabled) PROVE Moves
  BY <1>0, <1>14 DEF UpdateAlarm, UpdateAlarmWrites
<1>15. ASSUME NEW u \in Users, WithdrawUser(u) PROVE Moves
  <2>1. \A r \in Proposals : ProposalMoves(r)
    BY <1>15 DEF WithdrawUser, WithdrawUserWrites, PreMatchProposals, CancellableStatuses,
                 ProposalMoves, ProposalTransitions
  <2>2. \A r \in Proposals, v \in Users : OfferMoves(r, v)
    BY <1>15 DEF WithdrawUser, WithdrawUserWrites, WaitingOffersTouched, OfferMoves,
                 OfferTransitions
  <2>3. QED
    BY <2>1, <2>2
<1>16. CASE UNCHANGED vars
  BY <1>0, <1>16 DEF vars
<1>17. QED
  BY <1>1, <1>2, <1>3, <1>4, <1>5, <1>6, <1>7, <1>8, <1>9, <1>10, <1>11, <1>12, <1>13, <1>14,
     <1>15, <1>16 DEF Next

(* Proposals and offers move along the documented tables, whatever their       *)
(* number: no request reopens what is closed, its own record or another one.   *)
THEOREM TransitionsDocumented == Spec => OnlyDocumentedTransitions
<1>1. TypeOK /\ [Next]_vars =>
        [\A p \in Proposals :
          /\ proposalStatus'[p] # proposalStatus[p] =>
                <<proposalStatus[p], proposalStatus'[p]>> \in ProposalTransitions
          /\ \A u \in Users : offerStatus'[p][u] # offerStatus[p][u] =>
                <<offerStatus[p][u], offerStatus'[p][u]>> \in OfferTransitions]_vars
  BY NextMoves DEF ProposalMoves, OfferMoves
<1>2. QED
  BY <1>1, TypeCorrect, PTL DEF Spec, OnlyDocumentedTransitions

(* No request takes an execution away from its runner, and only acceptance     *)
(* engages one: the runner's offer was waiting and nobody else is engaged.     *)
THEOREM MatchFinal == Spec => MatchIsFinal
<1> DEFINE Final ==
        \A p \in Proposals, u \in Users :
          /\ Engaged(p, u) => Engaged(p, u)'
          /\ ~Engaged(p, u) /\ Engaged(p, u)' =>
                /\ offerStatus[p][u] = "WAITING" /\ offerStatus'[p][u] = "ACCEPTED"
                /\ \A v \in Users \ {u} : ~Engaged(p, v)'
<1>1. TypeOK /\ [Next]_vars /\ SingleExecution' => [Final]_vars
  <2> SUFFICES ASSUME TypeOK, [Next]_vars, SingleExecution', NEW p \in Proposals, NEW u \in Users
               PROVE  /\ Engaged(p, u) => Engaged(p, u)'
                      /\ ~Engaged(p, u) /\ Engaged(p, u)' =>
                            /\ offerStatus[p][u] = "WAITING" /\ offerStatus'[p][u] = "ACCEPTED"
                            /\ \A v \in Users \ {u} : ~Engaged(p, v)'
    OBVIOUS
  <2>1. OfferMoves(p, u)
    BY NextMoves
  <2>2. Engaged(p, u)' => \A v \in Users \ {u} : ~Engaged(p, v)'
    BY DEF SingleExecution
  <2>3. QED
    BY <2>1, <2>2 DEF OfferMoves, OfferTransitions, Engaged, EngagedOfferStatuses,
                      ActiveOfferStatuses
<1>2. QED
  BY <1>1, TypeCorrect, CoreCorrect, PTL DEF Spec, MatchIsFinal

================================================================================
