----------------------------- MODULE ExecutionProofs ----------------------------
(* The execution of a matched proposal, for any users, proposals and fees: its *)
(* confirmations, its level, its notifications, and the life of an errand that *)
(* the tables of Marketplace implement.                                        *)
EXTENDS TableProofs, MarketplaceRefinement

USE DEF userVars, proposalVars, offerVars

--------------------------------------------------------------------------------
(* Who writes the timestamps and the levels.                                   *)

(* A request that confirms nothing, and completes nothing. *)
ConfirmsNothing ==
    /\ UNCHANGED <<level, proposalStamps, offerStamps>>
    /\ \A p \in Proposals :
         /\ proposalStatus'[p] \in {"ORDER_COMPLETED", "ALL_COMPLETED"} =>
                proposalStatus'[p] = proposalStatus[p]
         /\ \A u \in Users :
                offerStatus'[p][u] \in {"RUNNER_COMPLETED", "ALL_COMPLETED"} =>
                    offerStatus'[p][u] = offerStatus[p][u]

LEMMA NextConfirmations ==
  ASSUME TypeOK, [Next]_vars
  PROVE  \/ \E p \in Proposals, u \in Users : CompleteDelivery(p, u) \/ ConfirmReceived(p, u)
         \/ ConfirmsNothing
<1> DEFINE
      Same == UNCHANGED <<level, proposalStamps, offerStamps>>
      ProposalsStay == \A p \in Proposals :
            proposalStatus'[p] \in {"ORDER_COMPLETED", "ALL_COMPLETED"} =>
                proposalStatus'[p] = proposalStatus[p]
      OffersStay == \A p \in Proposals, u \in Users :
            offerStatus'[p][u] \in {"RUNNER_COMPLETED", "ALL_COMPLETED"} =>
                offerStatus'[p][u] = offerStatus[p][u]
<1>0. Same /\ ProposalsStay /\ OffersStay => ConfirmsNothing
  BY DEF ConfirmsNothing
<1>1. ASSUME NEW p \in Proposals, NEW y, y \notin {"ORDER_COMPLETED", "ALL_COMPLETED"},
             proposalStatus' = [proposalStatus EXCEPT ![p] = y]
      PROVE  ProposalsStay
  BY <1>1 DEF TypeOK
<1>2. ASSUME NEW p \in Proposals, NEW u \in Users,
             NEW x \in {"WAITING", "CANCELLED", "DISPUTED", "RESOLVED"},
             offerStatus' = [offerStatus EXCEPT ![p][u] = x]
      PROVE  OffersStay
  BY <1>2 DEF TypeOK
<1>3. ASSUME NEW p \in Proposals, offerStatus' = WaitingOffersBecome(p, "REJECTED", {})
      PROVE  OffersStay
  <2>1. /\ \A q \in Proposals : q # p => offerStatus'[q] = offerStatus[q]
        /\ \A v \in Users : Settled(p, v)
    BY <1>3, RejectWaiting
  <2>2. QED
    BY <2>1 DEF Settled
<1>4. UNCHANGED proposalStatus => ProposalsStay
  OBVIOUS
<1>5. UNCHANGED offerStatus => OffersStay
  OBVIOUS
<1> HIDE DEF ProposalsStay, OffersStay
<1>6. ASSUME NEW p \in Proposals, NEW u \in Users, NEW fee \in Fees, CreateProposal(p, u, fee)
      PROVE  ConfirmsNothing
  BY <1>0, <1>1, <1>5, <1>6 DEF CreateProposal, CreateProposalWrites
<1>7. ASSUME NEW p \in Proposals, NEW fee \in Fees, UpdateProposal(p, fee) PROVE ConfirmsNothing
  <2>1. proposalStatus' = [proposalStatus EXCEPT ![p] = "HOLDING"]
    BY <1>7 DEF UpdateProposal, UpdateProposalWrites, TypeOK
  <2>2. QED
    BY <1>0, <1>1, <1>5, <1>7, <2>1 DEF UpdateProposal, UpdateProposalWrites
<1>8. ASSUME NEW p \in Proposals, CancelProposal(p) PROVE ConfirmsNothing
  BY <1>0, <1>1, <1>3, <1>5, <1>8 DEF CancelProposal, CancelProposalWrites
<1>9. ASSUME NEW p \in Proposals, ConfirmPayment(p) PROVE ConfirmsNothing
  BY <1>0, <1>1, <1>5, <1>9 DEF ConfirmPayment, ConfirmPaymentWrites
<1>10. ASSUME NEW p \in Proposals, NEW u \in Users, CreateReport(p, u) \/ RejectReport(p, u)
       PROVE  ConfirmsNothing
  BY <1>0, <1>4, <1>5, <1>10 DEF CreateReport, CreateReportWrites, RejectReport, RejectReportWrites
<1>11. ASSUME NEW p \in Proposals, NEW u \in Users, AcceptReport(p, u) PROVE ConfirmsNothing
  BY <1>0, <1>1, <1>3, <1>4, <1>5, <1>11 DEF AcceptReport, AcceptReportWrites
<1>12. ASSUME NEW p \in Proposals, NEW u \in Users, CreateOffer(p, u) PROVE ConfirmsNothing
  <2>1. proposalStatus' = [proposalStatus EXCEPT ![p] = "OFFERED"]
    BY <1>12 DEF CreateOffer, CanCreateOffer, CreateOfferWrites, OpenProposalStatuses, TypeOK
  <2>2. Same /\ offerStatus' = [offerStatus EXCEPT ![p][u] = "WAITING"]
    BY <1>12 DEF CreateOffer, CreateOfferWrites
  <2>3. OffersStay
    BY <1>2, <2>2
  <2>4. QED
    BY <1>0, <1>1, <2>1, <2>2, <2>3
<1>13. ASSUME NEW p \in Proposals, NEW u \in Users, CancelOffer(p, u) PROVE ConfirmsNothing
  <2>1. /\ Same /\ UNCHANGED proposalStatus
        /\ offerStatus' = [offerStatus EXCEPT ![p][u] = "CANCELLED"]
    BY <1>13 DEF CancelOffer, CancelOfferWrites
  <2>2. OffersStay
    BY <1>2, <2>1
  <2>3. QED
    BY <1>0, <1>4, <2>1, <2>2
<1>14. ASSUME NEW p \in Proposals, NEW u \in Users, AcceptOffer(p, u) PROVE ConfirmsNothing
  <2>1. OffersStay
    BY <1>14, AcceptOfferRow DEF OffersStay
  <2>2. QED
    BY <1>0, <1>1, <1>14, <2>1 DEF AcceptOffer, AcceptOfferWrites
<1>15. ASSUME NEW p \in Proposals, NEW u \in Users,
              RaiseDisputeByRunner(p, u) \/ RaiseDisputeByOrderer(p, u) \/ Resolve(p, u)
       PROVE  ConfirmsNothing
  BY <1>0, <1>1, <1>2, <1>15
     DEF RaiseDisputeByRunner, RaiseDisputeByOrderer, RaiseDisputeWrites, Resolve, ResolveWrites
<1>16. ASSUME NEW u \in AlarmUsers, NEW enabled \in BOOLEAN, UpdateAlarm(u, enabled)
       PROVE  ConfirmsNothing
  BY <1>0, <1>4, <1>5, <1>16 DEF UpdateAlarm, UpdateAlarmWrites
<1>17. ASSUME NEW u \in Users, WithdrawUser(u) PROVE ConfirmsNothing
  BY <1>17 DEF WithdrawUser, WithdrawUserWrites, ConfirmsNothing
<1>18. CASE UNCHANGED vars
  BY <1>0, <1>4, <1>5, <1>18 DEF vars
<1>19. QED
  BY <1>6, <1>7, <1>8, <1>9, <1>10, <1>11, <1>12, <1>13, <1>14, <1>15, <1>16, <1>17, <1>18 DEF Next

--------------------------------------------------------------------------------
(* Confirmations.                                                              *)

(* The inductive invariant: who has confirmed can be read from the statuses.   *)
(* Nothing is stamped before the match, and an offer that was never accepted   *)
(* is never stamped.                                                           *)
StampsRow(p) ==
    /\ proposalStatus[p] \notin MatchedProposalStatuses =>
          \A side \in Sides : proposalStamps[p][side] = "null"
    /\ \A u \in Users :
        /\ ~Engaged(p, u) => \A side \in Sides : offerStamps[p][u][side] = "null"
        /\ Engaged(p, u) =>
              /\ \A side \in Sides :
                   (proposalStamps[p][side] = "null") <=> (offerStamps[p][u][side] = "null")
              /\ (offerStatus[p][u] = "ALL_COMPLETED") <=>
                   \A side \in Sides : offerStamps[p][u][side] # "null"
              /\ offerStatus[p][u] = "ACCEPTED" => offerStamps[p][u]["runner"] = "null"
              /\ offerStatus[p][u] = "RUNNER_COMPLETED" => offerStamps[p][u]["runner"] # "null"
              /\ proposalStatus[p] = "MATCHED" => offerStamps[p][u]["orderer"] = "null"
              /\ proposalStatus[p] = "ORDER_COMPLETED" => offerStamps[p][u]["orderer"] # "null"

StampsInv == \A p \in Proposals : StampsRow(p)

LEMMA InitStamps == Init => StampsInv
  BY DEF Init, StampsInv, StampsRow, Engaged, EngagedOfferStatuses, ActiveOfferStatuses, NoStamps

(* A row whose timestamps stay, under a request that confirms nothing.         *)
LEMMA StampsKept ==
  ASSUME TypeOK, CoreInv, CoreInv', [Next]_vars, ConfirmsNothing, NEW p \in Proposals, StampsRow(p)
  PROVE  StampsRow(p)'
<1>1. ProposalMoves(p) /\ \A u \in Users : OfferMoves(p, u)
  BY NextMoves
<1>2. /\ proposalStamps'[p] = proposalStamps[p]
      /\ \A u \in Users : offerStamps'[p][u] = offerStamps[p][u]
      /\ proposalStatus'[p] \in {"ORDER_COMPLETED", "ALL_COMPLETED"} =>
            proposalStatus'[p] = proposalStatus[p]
      /\ \A u \in Users : offerStatus'[p][u] \in {"RUNNER_COMPLETED", "ALL_COMPLETED"} =>
            offerStatus'[p][u] = offerStatus[p][u]
  BY DEF ConfirmsNothing
<1>3. proposalStatus'[p] \notin MatchedProposalStatuses =>
        proposalStatus[p] \notin MatchedProposalStatuses
  BY <1>1 DEF ProposalMoves, ProposalTransitions, MatchedProposalStatuses, OpenProposalStatuses
<1>4. ASSUME NEW u \in Users, ~Engaged(p, u)'
      PROVE  \A side \in Sides : offerStamps'[p][u][side] = "null"
  <2>1. ~Engaged(p, u)
    BY <1>1, <1>4 DEF OfferMoves, OfferTransitions, Engaged, EngagedOfferStatuses,
                      ActiveOfferStatuses
  <2>2. QED
    BY <1>2, <2>1 DEF StampsRow
<1>5. ASSUME NEW u \in Users, Engaged(p, u)', ~Engaged(p, u)
      PROVE  /\ proposalStatus'[p] = "MATCHED" /\ offerStatus'[p][u] = "ACCEPTED"
             /\ \A side \in Sides : /\ proposalStamps'[p][side] = "null"
                                    /\ offerStamps'[p][u][side] = "null"
  <2>1. offerStatus[p][u] = "WAITING" /\ offerStatus'[p][u] = "ACCEPTED"
    BY <1>1, <1>5 DEF OfferMoves, OfferTransitions, Engaged, EngagedOfferStatuses,
                      ActiveOfferStatuses
  <2>2. proposalStatus[p] = "OFFERED"
    BY <2>1 DEF CoreInv, OffersWaitOnlyWhenOffered
  <2>3. <<proposalStatus'[p], offerStatus'[p][u]>> \in ExecutionStages
    BY <1>5 DEF CoreInv, StatusesAgree
  <2>4. proposalStatus'[p] = "MATCHED"
    BY <1>2, <2>1, <2>2, <2>3 DEF ExecutionStages
  <2>5. QED
    BY <1>2, <1>5, <2>1, <2>2, <2>4 DEF StampsRow, MatchedProposalStatuses
<1>6. ASSUME NEW u \in Users, Engaged(p, u)', Engaged(p, u)
      PROVE  /\ offerStatus'[p][u] = "ALL_COMPLETED" <=> offerStatus[p][u] = "ALL_COMPLETED"
             /\ offerStatus'[p][u] = "ACCEPTED" => offerStatus[p][u] = "ACCEPTED"
             /\ offerStatus'[p][u] = "RUNNER_COMPLETED" => offerStatus[p][u] = "RUNNER_COMPLETED"
             /\ proposalStatus'[p] = "MATCHED" => proposalStatus[p] = "MATCHED"
             /\ proposalStatus'[p] = "ORDER_COMPLETED" => proposalStatus[p] = "ORDER_COMPLETED"
  <2>1. proposalStatus[p] # "OFFERED"
    BY <1>6 DEF CoreInv, StatusesAgree, ExecutionStages
  <2>2. offerStatus[p][u] \notin {"WAITING", "ABSENT"}
    BY <1>6 DEF Engaged, EngagedOfferStatuses, ActiveOfferStatuses
  <2>3. QED
    BY <1>1, <1>2, <2>1, <2>2
       DEF ProposalMoves, OfferMoves, ProposalTransitions, OfferTransitions, OpenProposalStatuses
<1>7. QED
  BY <1>2, <1>3, <1>4, <1>5, <1>6 DEF StampsRow, Sides

(* A confirmation, row by row: the party who confirms is stamped on the two    *)
(* records, the other party as before (or again, when he was there already).   *)
LEMMA CompleteDeliveryStamps ==
  ASSUME TypeOK, NEW p \in Proposals, NEW u \in Users, CompleteDelivery(p, u)
  PROVE  /\ proposalStamps'[p]["runner"] # "null"
         /\ proposalStamps'[p]["orderer"] = proposalStamps[p]["orderer"]
         /\ offerStamps'[p][u]["runner"] # "null"
         /\ offerStamps'[p][u]["orderer"] =
                IF proposalStatus[p] = "ORDER_COMPLETED" THEN "complete_delivery"
                ELSE offerStamps[p][u]["orderer"]
         /\ \A v \in Users \ {u} : offerStamps'[p][v] = offerStamps[p][v]
         /\ \A q \in Proposals \ {p} : /\ proposalStamps'[q] = proposalStamps[q]
                                      /\ offerStamps'[q] = offerStamps[q]
<1>1. proposalStamps' = [proposalStamps EXCEPT ![p]["runner"] = "complete_delivery"]
  BY DEF CompleteDelivery, CompleteDeliveryWrites
<1>2. /\ proposalStamps'[p]["runner"] # "null"
      /\ proposalStamps'[p]["orderer"] = proposalStamps[p]["orderer"]
      /\ \A q \in Proposals \ {p} : proposalStamps'[q] = proposalStamps[q]
  BY <1>1 DEF TypeOK, Sides
<1>3. CASE proposalStatus[p] = "ORDER_COMPLETED"
  <2>1. offerStamps' = [offerStamps EXCEPT ![p][u] = [side \in Sides |-> "complete_delivery"]]
    BY <1>3, CompleteDeliveryLast
  <2>2. QED
    BY <1>2, <1>3, <2>1 DEF TypeOK, Sides
<1>4. CASE proposalStatus[p] # "ORDER_COMPLETED"
  <2>1. offerStamps' = [offerStamps EXCEPT ![p][u]["runner"] = "complete_delivery"]
    BY <1>4, CompleteDeliveryFirst
  <2>2. QED
    BY <1>2, <1>4, <2>1 DEF TypeOK, Sides
<1>5. QED
  BY <1>3, <1>4

LEMMA ConfirmReceivedStamps ==
  ASSUME TypeOK, NEW p \in Proposals, NEW u \in Users, ConfirmReceived(p, u)
  PROVE  /\ proposalStamps'[p]["orderer"] # "null"
         /\ proposalStamps'[p]["runner"] = proposalStamps[p]["runner"]
         /\ offerStamps'[p][u]["orderer"] # "null"
         /\ offerStamps'[p][u]["runner"] = offerStamps[p][u]["runner"]
         /\ \A v \in Users \ {u} : offerStamps'[p][v] = offerStamps[p][v]
         /\ \A q \in Proposals \ {p} : /\ proposalStamps'[q] = proposalStamps[q]
                                      /\ offerStamps'[q] = offerStamps[q]
<1>1. /\ proposalStamps' = [proposalStamps EXCEPT ![p]["orderer"] = "confirm_received"]
      /\ offerStamps' = [offerStamps EXCEPT ![p][u]["orderer"] = "confirm_received"]
  BY DEF ConfirmReceived, ConfirmReceivedWrites
<1>2. QED
  BY <1>1 DEF TypeOK, Sides

(* The statuses after a confirmation.                                          *)
LEMMA CompleteDeliveryStatuses ==
  ASSUME TypeOK, NEW p \in Proposals, NEW u \in Users, CompleteDelivery(p, u)
  PROVE  /\ offerStatus[p][u] = "ACCEPTED" /\ proposalStatus[p] \in {"MATCHED", "ORDER_COMPLETED"}
         /\ IF proposalStatus[p] = "ORDER_COMPLETED"
            THEN /\ proposalStatus'[p] = "ALL_COMPLETED" /\ offerStatus'[p][u] = "ALL_COMPLETED"
                 /\ level' = [level EXCEPT ![u] = level[u] + 1]
            ELSE /\ proposalStatus'[p] = "MATCHED" /\ offerStatus'[p][u] = "RUNNER_COMPLETED"
                 /\ UNCHANGED level
         /\ \A v \in Users \ {u} : offerStatus'[p][v] = offerStatus[p][v]
         /\ \A q \in Proposals \ {p} : /\ proposalStatus'[q] = proposalStatus[q]
                                      /\ offerStatus'[q] = offerStatus[q]
<1>1. offerStatus[p][u] = "ACCEPTED" /\ proposalStatus[p] \in {"MATCHED", "ORDER_COMPLETED"}
  BY DEF CompleteDelivery, CanCompleteDelivery
<1>2. CASE proposalStatus[p] = "ORDER_COMPLETED"
  BY <1>1, <1>2, CompleteDeliveryLast DEF TypeOK
<1>3. CASE proposalStatus[p] # "ORDER_COMPLETED"
  BY <1>1, <1>3, CompleteDeliveryFirst DEF TypeOK
<1>4. QED
  BY <1>2, <1>3

LEMMA ConfirmReceivedStatuses ==
  ASSUME TypeOK, NEW p \in Proposals, NEW u \in Users, ConfirmReceived(p, u)
  PROVE  /\ offerStatus[p][u] \in {"ACCEPTED", "RUNNER_COMPLETED"} /\ proposalStatus[p] = "MATCHED"
         /\ IF offerStatus[p][u] = "RUNNER_COMPLETED"
            THEN /\ proposalStatus'[p] = "ALL_COMPLETED" /\ offerStatus'[p][u] = "ALL_COMPLETED"
                 /\ level' = [level EXCEPT ![u] = level[u] + 1]
            ELSE /\ proposalStatus'[p] = "ORDER_COMPLETED" /\ offerStatus'[p][u] = "ACCEPTED"
                 /\ UNCHANGED level
         /\ \A v \in Users \ {u} : offerStatus'[p][v] = offerStatus[p][v]
         /\ \A q \in Proposals \ {p} : /\ proposalStatus'[q] = proposalStatus[q]
                                      /\ offerStatus'[q] = offerStatus[q]
<1>1. offerStatus[p][u] \in {"ACCEPTED", "RUNNER_COMPLETED"} /\ proposalStatus[p] = "MATCHED"
  BY DEF ConfirmReceived, CanConfirmReceived
<1>2. CASE offerStatus[p][u] = "RUNNER_COMPLETED"
  BY <1>1, <1>2, ConfirmReceivedLast DEF TypeOK
<1>3. CASE offerStatus[p][u] # "RUNNER_COMPLETED"
  BY <1>1, <1>3, ConfirmReceivedFirst DEF TypeOK
<1>4. QED
  BY <1>2, <1>3

(* A row that no column of the execution changes keeps its part.               *)
LEMMA SameStamps ==
  ASSUME NEW p \in Proposals, StampsRow(p),
         proposalStatus'[p] = proposalStatus[p], proposalStamps'[p] = proposalStamps[p],
         offerStatus'[p] = offerStatus[p], offerStamps'[p] = offerStamps[p]
  PROVE  StampsRow(p)'
  BY DEF StampsRow, Engaged

LEMMA NextStamps ==
  TypeOK /\ CoreInv /\ CoreInv' /\ StampsInv /\ [Next]_vars => StampsInv'
<1> SUFFICES ASSUME TypeOK, CoreInv, CoreInv', StampsInv, [Next]_vars PROVE StampsInv'
  OBVIOUS
<1>1. ASSUME NEW p \in Proposals, NEW u \in Users, CompleteDelivery(p, u) PROVE StampsInv'
  <2>1. ASSUME NEW q \in Proposals, q # p PROVE StampsRow(q)'
    BY <1>1, <2>1, SameStamps, CompleteDeliveryStamps, CompleteDeliveryStatuses DEF StampsInv
  <2>2. Engaged(p, u) /\ Engaged(p, u)'
    BY <1>1, CompleteDeliveryStatuses DEF Engaged, EngagedOfferStatuses, ActiveOfferStatuses
  <2>3. \A v \in Users \ {u} : ~Engaged(p, v) /\ ~Engaged(p, v)'
    BY <2>2 DEF CoreInv, SingleExecution
  <2>4. StampsRow(p)
    BY DEF StampsInv
  <2>5. \A v \in Users \ {u} : \A side \in Sides : offerStamps'[p][v][side] = "null"
    BY <1>1, <2>3, <2>4, CompleteDeliveryStamps DEF StampsRow
  <2>6. StampsRow(p)'
    BY <1>1, <2>2, <2>3, <2>4, <2>5, CompleteDeliveryStamps, CompleteDeliveryStatuses
       DEF StampsRow, Sides, MatchedProposalStatuses
  <2>7. QED
    BY <2>1, <2>6 DEF StampsInv
<1>2. ASSUME NEW p \in Proposals, NEW u \in Users, ConfirmReceived(p, u) PROVE StampsInv'
  <2>1. ASSUME NEW q \in Proposals, q # p PROVE StampsRow(q)'
    BY <1>2, <2>1, SameStamps, ConfirmReceivedStamps, ConfirmReceivedStatuses DEF StampsInv
  <2>2. Engaged(p, u) /\ Engaged(p, u)'
    BY <1>2, ConfirmReceivedStatuses DEF Engaged, EngagedOfferStatuses, ActiveOfferStatuses
  <2>3. \A v \in Users \ {u} : ~Engaged(p, v) /\ ~Engaged(p, v)'
    BY <2>2 DEF CoreInv, SingleExecution
  <2>4. StampsRow(p)
    BY DEF StampsInv
  <2>5. \A v \in Users \ {u} : \A side \in Sides : offerStamps'[p][v][side] = "null"
    BY <1>2, <2>3, <2>4, ConfirmReceivedStamps DEF StampsRow
  <2>6. StampsRow(p)'
    BY <1>2, <2>2, <2>3, <2>4, <2>5, ConfirmReceivedStamps, ConfirmReceivedStatuses
       DEF StampsRow, Sides, MatchedProposalStatuses
  <2>7. QED
    BY <2>1, <2>6 DEF StampsInv
<1>3. CASE ConfirmsNothing
  BY <1>3, StampsKept DEF StampsInv
<1>4. QED
  BY <1>1, <1>2, <1>3, NextConfirmations

LEMMA StampsMeanAgreement == StampsInv => ConfirmationsAgree
  BY DEF StampsInv, StampsRow, ConfirmationsAgree

(* The tables and the timestamps of an execution, in every reachable state.    *)
LEMMA StampsCorrect == Spec => [](TypeOK /\ CoreInv /\ StampsInv)
<1>1. TypeOK /\ CoreInv /\ StampsInv /\ [Next]_vars => TypeOK' /\ CoreInv' /\ StampsInv'
  BY NextType, NextCore, NextStamps
<1>2. QED
  BY <1>1, InitType, InitCore, InitStamps, PTL DEF Spec

(* The two records show the same parties as confirmed, and both parties have   *)
(* confirmed exactly when the execution is completed.                          *)
THEOREM ConfirmationsCorrect == Spec => []ConfirmationsAgree
  BY StampsCorrect, StampsMeanAgreement, PTL

--------------------------------------------------------------------------------
(* Nobody is stranded.                                                         *)

LEMMA SomebodyCanFinish == TypeOK /\ CoreInv /\ WithdrawnIsInert => ExecutionCanFinish
<1> SUFFICES ASSUME TypeOK, CoreInv, WithdrawnIsInert, NEW p \in Proposals
             PROVE  /\ proposalStatus[p] \in {"MATCHED", "ORDER_COMPLETED"} =>
                         \E u \in Users : CanCompleteDelivery(p, u) \/ CanConfirmReceived(p, u)
                    /\ proposalStatus[p] = "DISPUTED" => \E u \in Users : CanResolve(p, u)
  BY DEF ExecutionCanFinish
<1>1. ASSUME proposalStatus[p] \in {"MATCHED", "ORDER_COMPLETED"}
      PROVE  \E u \in Users : CanCompleteDelivery(p, u) \/ CanConfirmReceived(p, u)
  <2>1. PICK u \in Users : Engaged(p, u)
    BY <1>1 DEF CoreInv, StatusesAgree, MatchedProposalStatuses
  <2>2. <<proposalStatus[p], offerStatus[p][u]>> \in ExecutionStages
    BY <2>1 DEF CoreInv, StatusesAgree
  <2>3. CASE offerStatus[p][u] = "ACCEPTED"
    <3>1. ~deleted[u]
      BY <2>3 DEF WithdrawnIsInert, WithdrawalBlockingOfferStatuses
    <3>2. QED
      BY <1>1, <2>3, <3>1 DEF CanCompleteDelivery
  <2>4. CASE offerStatus[p][u] = "RUNNER_COMPLETED"
    <3>1. proposalStatus[p] = "MATCHED"
      BY <2>2, <2>4 DEF ExecutionStages
    <3>2. orderer[p] \in Users
      BY <3>1 DEF TypeOK
    <3>3. ~deleted[orderer[p]]
      BY <3>1, <3>2 DEF WithdrawnIsInert, WithdrawalBlockingProposalStatuses
    <3>4. QED
      BY <2>4, <3>1, <3>2, <3>3
         DEF CanConfirmReceived, OwnerCalls, IsExecutionOffer, ActiveOfferStatuses
  <2>5. QED
    BY <1>1, <2>2, <2>3, <2>4 DEF ExecutionStages
<1>2. ASSUME proposalStatus[p] = "DISPUTED" PROVE \E u \in Users : CanResolve(p, u)
  <2>1. PICK u \in Users : Engaged(p, u)
    BY <1>2 DEF CoreInv, StatusesAgree, MatchedProposalStatuses
  <2>2. <<proposalStatus[p], offerStatus[p][u]>> \in ExecutionStages
    BY <2>1 DEF CoreInv, StatusesAgree
  <2>3. QED
    BY <1>2, <2>2 DEF ExecutionStages, CanResolve
<1>3. QED
  BY <1>1, <1>2

(* While an execution runs a party of it can confirm, and a dispute can always *)
(* be resolved: no withdrawal takes the last one who could away.               *)
THEOREM ExecutionNeverStranded == Spec => []ExecutionCanFinish
  BY StampsCorrect, WithdrawalCorrect, SomebodyCanFinish, PTL

--------------------------------------------------------------------------------
(* Levels.                                                                     *)

Completed(u) == {p \in Proposals : offerStatus[p][u] = "ALL_COMPLETED"}

LEMMA InitLevel == Init => LevelCountsCompletions
<1> SUFFICES ASSUME Init, NEW u \in Users
             PROVE  level[u] = Cardinality({p \in Proposals : offerStatus[p][u] = "ALL_COMPLETED"})
  BY DEF LevelCountsCompletions
<1>1. {p \in Proposals : offerStatus[p][u] = "ALL_COMPLETED"} = {} /\ level[u] = 0
  BY DEF Init
<1>2. QED
  BY <1>1, FS_EmptySet

(* The step that completes an execution: one more proposal, one more level.    *)
LEMMA OneMoreCompleted ==
  ASSUME TypeOK, LevelCountsCompletions, NEW p \in Proposals, NEW u \in Users,
         offerStatus[p][u] # "ALL_COMPLETED", offerStatus'[p][u] = "ALL_COMPLETED",
         \A v \in Users \ {u} : offerStatus'[p][v] = offerStatus[p][v],
         \A q \in Proposals \ {p} : offerStatus'[q] = offerStatus[q],
         level' = [level EXCEPT ![u] = level[u] + 1]
  PROVE  LevelCountsCompletions'
<1> SUFFICES ASSUME NEW v \in Users PROVE level'[v] = Cardinality(Completed(v)')
  BY DEF LevelCountsCompletions, Completed
<1>1. level[v] = Cardinality(Completed(v))
  BY DEF LevelCountsCompletions, Completed
<1>2. CASE v = u
  <2>1. Completed(u)' = Completed(u) \cup {p} /\ p \notin Completed(u)
    BY DEF Completed
  <2>2. IsFiniteSet(Completed(u))
    BY FiniteAssumption, FS_Subset DEF Completed
  <2>3. Cardinality(Completed(u)') = Cardinality(Completed(u)) + 1
    BY <2>1, <2>2, FS_AddElement
  <2>4. level'[u] = level[u] + 1
    BY DEF TypeOK
  <2>5. QED
    BY <1>1, <1>2, <2>3, <2>4
<1>3. CASE v # u
  <2>1. Completed(v)' = Completed(v)
    BY <1>3 DEF Completed
  <2>2. level'[v] = level[v]
    BY <1>3 DEF TypeOK
  <2>3. QED
    BY <1>1, <2>1, <2>2
<1>4. QED
  BY <1>2, <1>3

LEMMA SameCompleted ==
  ASSUME LevelCountsCompletions, UNCHANGED level,
         \A p \in Proposals, u \in Users :
            (offerStatus'[p][u] = "ALL_COMPLETED") <=> (offerStatus[p][u] = "ALL_COMPLETED")
  PROVE  LevelCountsCompletions'
<1> SUFFICES ASSUME NEW v \in Users PROVE level'[v] = Cardinality(Completed(v)')
  BY DEF LevelCountsCompletions, Completed
<1>1. Completed(v)' = Completed(v)
  BY DEF Completed
<1>2. QED
  BY <1>1 DEF LevelCountsCompletions, Completed

LEMMA NextLevel == TypeOK /\ LevelCountsCompletions /\ [Next]_vars => LevelCountsCompletions'
<1> SUFFICES ASSUME TypeOK, LevelCountsCompletions, [Next]_vars PROVE LevelCountsCompletions'
  OBVIOUS
<1>1. ASSUME NEW p \in Proposals, NEW u \in Users, CompleteDelivery(p, u)
      PROVE  LevelCountsCompletions'
  <2>1. CASE proposalStatus[p] = "ORDER_COMPLETED"
    BY <1>1, <2>1, CompleteDeliveryStatuses, OneMoreCompleted
  <2>2. CASE proposalStatus[p] # "ORDER_COMPLETED"
    <3>1. \A q \in Proposals, v \in Users :
            (offerStatus'[q][v] = "ALL_COMPLETED") <=> (offerStatus[q][v] = "ALL_COMPLETED")
      BY <1>1, <2>2, CompleteDeliveryStatuses
    <3>2. QED
      BY <1>1, <2>2, <3>1, CompleteDeliveryStatuses, SameCompleted
  <2>3. QED
    BY <2>1, <2>2
<1>2. ASSUME NEW p \in Proposals, NEW u \in Users, ConfirmReceived(p, u)
      PROVE  LevelCountsCompletions'
  <2>1. CASE offerStatus[p][u] = "RUNNER_COMPLETED"
    BY <1>2, <2>1, ConfirmReceivedStatuses, OneMoreCompleted
  <2>2. CASE offerStatus[p][u] # "RUNNER_COMPLETED"
    <3>1. \A q \in Proposals, v \in Users :
            (offerStatus'[q][v] = "ALL_COMPLETED") <=> (offerStatus[q][v] = "ALL_COMPLETED")
      BY <1>2, <2>2, ConfirmReceivedStatuses
    <3>2. QED
      BY <1>2, <2>2, <3>1, ConfirmReceivedStatuses, SameCompleted
  <2>3. QED
    BY <2>1, <2>2
<1>3. CASE ConfirmsNothing
  <2>1. \A p \in Proposals, u \in Users :
            (offerStatus'[p][u] = "ALL_COMPLETED") <=> (offerStatus[p][u] = "ALL_COMPLETED")
    <3>1. ASSUME NEW p \in Proposals, NEW u \in Users
          PROVE  (offerStatus'[p][u] = "ALL_COMPLETED") <=> (offerStatus[p][u] = "ALL_COMPLETED")
      <4>1. OfferMoves(p, u)
        BY NextMoves
      <4>2. offerStatus'[p][u] = "ALL_COMPLETED" => offerStatus'[p][u] = offerStatus[p][u]
        BY <1>3 DEF ConfirmsNothing
      <4>3. QED
        BY <4>1, <4>2 DEF OfferMoves, OfferTransitions
    <3>2. QED
      BY <3>1
  <2>2. QED
    BY <1>3, <2>1, SameCompleted DEF ConfirmsNothing
<1>4. QED
  BY <1>1, <1>2, <1>3, NextConfirmations

(* A level is raised once for each execution its user completed, by whichever  *)
(* of the two services confirms last, and is never lowered.                    *)
THEOREM LevelCorrect == Spec => []LevelCountsCompletions
  BY InitLevel, NextLevel, TypeCorrect, PTL DEF Spec

--------------------------------------------------------------------------------
(* Notifications.                                                              *)

Rows == [type : NotificationTypes, user : Users, proposal : Proposals, runner : Users]

(* A timestamp that is set stays set.                                          *)
LEMMA StampsStay ==
  ASSUME TypeOK, [Next]_vars, NEW p \in Proposals, NEW u \in Users, NEW side \in Sides,
         offerStamps[p][u][side] # "null"
  PROVE  offerStamps'[p][u][side] # "null"
<1>1. ASSUME NEW q \in Proposals, NEW v \in Users, CompleteDelivery(q, v)
      PROVE  offerStamps'[p][u][side] # "null"
  BY <1>1, CompleteDeliveryStamps DEF Sides
<1>2. ASSUME NEW q \in Proposals, NEW v \in Users, ConfirmReceived(q, v)
      PROVE  offerStamps'[p][u][side] # "null"
  BY <1>2, ConfirmReceivedStamps DEF Sides
<1>3. QED
  BY <1>1, <1>2, NextConfirmations DEF ConfirmsNothing

(* What a notification says stays true.                                        *)
LEMMA StaysTruthful ==
  ASSUME TypeOK, CoreInv, StampsInv, [Next]_vars, NEW n \in Rows, Truthful(n)
  PROVE  Truthful(n)'
<1> DEFINE p == n.proposal
           r == n.runner
<1>1. p \in Proposals /\ r \in Users /\ n.user \in Users /\ n.type \in NotificationTypes
  BY DEF Rows
<1> HIDE DEF p, r
<1>2. \A v \in Users :
        /\ offerStatus[p][v] # "ABSENT" => offerStatus'[p][v] # "ABSENT"
        /\ offerStatus[p][v] \in EngagedOfferStatuses => offerStatus'[p][v] \in EngagedOfferStatuses
        /\ offerStatus[p][v] = "REJECTED" => offerStatus'[p][v] = "REJECTED"
        /\ offerStatus[p][v] \in {"DISPUTED", "RESOLVED"} =>
                offerStatus'[p][v] \in {"DISPUTED", "RESOLVED"}
  BY <1>1, NextMoves DEF OfferMoves, OfferTransitions, EngagedOfferStatuses, ActiveOfferStatuses
<1>3. \A side \in Sides : offerStamps[p][r][side] # "null" => offerStamps'[p][r][side] # "null"
  BY <1>1, StampsStay
<1>4. offerStatus[p][r] # "ABSENT" => orderer'[p] = orderer[p]
  BY <1>1, OrdererKept DEF CoreInv, OffersWaitOnlyWhenOffered
<1>5. (\E side \in Sides : offerStamps[p][r][side] # "null") => offerStatus[p][r] # "ABSENT"
  BY <1>1 DEF StampsInv, StampsRow, Engaged, EngagedOfferStatuses, ActiveOfferStatuses
<1>6. "runner" \in Sides /\ "orderer" \in Sides
  BY DEF Sides
<1>7. QED
  BY <1>1, <1>2, <1>3, <1>4, <1>5, <1>6 DEF Truthful, p, r

LEMMA NoteFields ==
  ASSUME NEW type, NEW u, NEW p, NEW r
  PROVE  /\ Note(type, u, p, r).type = type /\ Note(type, u, p, r).user = u
         /\ Note(type, u, p, r).proposal = p /\ Note(type, u, p, r).runner = r
  BY DEF Note

(* A new notification is true of the tables it is committed with.              *)
LEMMA NewIsTruthful ==
  ASSUME TypeOK, [Next]_vars, NEW n \in notifications', n \notin notifications
  PROVE  Truthful(n)'
<1>1. ASSUME NEW p \in Proposals, NEW u \in Users, CreateOffer(p, u) PROVE Truthful(n)'
  <2>1. n \in {Note("OFFER_NEW", orderer[p], p, u), Note("OFFER_SUBMITTED", u, p, u)}
    BY <1>1 DEF CreateOffer, Publish, OnOfferCreated, IfAlarmEnabled
  <2>2. offerStatus'[p][u] = "WAITING" /\ UNCHANGED orderer
    BY <1>1 DEF CreateOffer, CreateOfferWrites, TypeOK
  <2>3. QED
    BY <2>1, <2>2, NoteFields DEF Truthful
<1>2. ASSUME NEW p \in Proposals, NEW u \in Users, AcceptOffer(p, u) PROVE Truthful(n)'
  <2>1. \/ n = Note("OFFER_ACCEPTED", u, p, u)
        \/ \E v \in RejectedRunners(p, u) : n = Note("OFFER_REJECTED", v, p, u)
    BY <1>2 DEF AcceptOffer, Publish, OnOfferAccepted, IfAlarmEnabled
  <2>2. /\ offerStatus'[p][u] \in EngagedOfferStatuses
        /\ \A v \in RejectedRunners(p, u) : offerStatus'[p][v] = "REJECTED"
    BY <1>2, AcceptOfferRow DEF RejectedRunners, EngagedOfferStatuses, ActiveOfferStatuses
  <2>3. QED
    BY <2>1, <2>2, NoteFields DEF Truthful
<1>3. ASSUME NEW p \in Proposals, NEW u \in Users, CompleteDelivery(p, u) PROVE Truthful(n)'
  <2>1. n = Note("MEETING_CONFIRMED", orderer[p], p, u)
    BY <1>3 DEF CompleteDelivery, Publish, OnMeetingConfirmedByRunner, IfAlarmEnabled
  <2>2. UNCHANGED orderer
    BY <1>3 DEF CompleteDelivery, CompleteDeliveryWrites
  <2>3. offerStamps'[p][u]["runner"] # "null"
    BY <1>3, CompleteDeliveryStamps
  <2>4. QED
    BY <2>1, <2>2, <2>3, NoteFields DEF Truthful
<1>4. ASSUME NEW p \in Proposals, NEW u \in Users, ConfirmReceived(p, u) PROVE Truthful(n)'
  <2>1. n \in {Note("MEETING_CONFIRMED", u, p, u), Note("EXECUTION_COMPLETED", orderer[p], p, u),
               Note("EXECUTION_COMPLETED", u, p, u)}
    BY <1>4 DEF ConfirmReceived, Publish, OnMeetingConfirmedByOrderer, IfAlarmEnabled
  <2>2. offerStamps'[p][u]["orderer"] # "null"
    BY <1>4, ConfirmReceivedStamps
  <2>3. QED
    BY <2>1, <2>2, NoteFields DEF Truthful
<1>5. ASSUME NEW p \in Proposals, NEW u \in Users,
             RaiseDisputeByRunner(p, u) \/ RaiseDisputeByOrderer(p, u)
      PROVE  Truthful(n)'
  <2>1. \E v : n = Note("DISPUTE_RAISED", v, p, u)
    BY <1>5 DEF RaiseDisputeByRunner, RaiseDisputeByOrderer, Publish, OnDisputeRaisedByRunner,
                OnDisputeRaisedByOrderer, IfAlarmEnabled
  <2>2. offerStatus'[p][u] = "DISPUTED"
    BY <1>5 DEF RaiseDisputeByRunner, RaiseDisputeByOrderer, RaiseDisputeWrites, TypeOK
  <2>3. QED
    BY <2>1, <2>2, NoteFields DEF Truthful
<1>6. ASSUME NEW u \in Users, WithdrawUser(u) PROVE FALSE
  BY <1>6 DEF WithdrawUser, DeleteNotifications
<1>7. ~UNCHANGED notifications
  OBVIOUS
<1>8. QED
  BY <1>1, <1>2, <1>3, <1>4, <1>5, <1>6, <1>7
     DEF Next, vars, CreateProposal, UpdateProposal, CancelProposal, ConfirmPayment, CreateReport,
         AcceptReport, RejectReport, CancelOffer, Resolve, UpdateAlarm

LEMMA InitTruthful == Init => ProgressNoticesTruthful
  BY DEF Init, ProgressNoticesTruthful

LEMMA NextTruthful ==
  TypeOK /\ CoreInv /\ StampsInv /\ ProgressNoticesTruthful /\ [Next]_vars
    => ProgressNoticesTruthful'
<1> SUFFICES ASSUME TypeOK, CoreInv, StampsInv, ProgressNoticesTruthful, [Next]_vars,
                    NEW n \in notifications'
             PROVE  Truthful(n)'
  BY DEF ProgressNoticesTruthful
<1>1. CASE n \in notifications
  BY <1>1, StaysTruthful DEF ProgressNoticesTruthful, TypeOK, Rows
<1>2. CASE n \notin notifications
  BY <1>2, NewIsTruthful
<1>3. QED
  BY <1>1, <1>2

(* Every notification but the completion notice says something true, and that  *)
(* stays true (app/listeners/notification_listener.py).                        *)
THEOREM ProgressNoticesCorrect == Spec => []ProgressNoticesTruthful
<1>1. TypeOK /\ CoreInv /\ StampsInv /\ [Next]_vars => TypeOK' /\ CoreInv' /\ StampsInv'
  BY NextType, NextCore, NextStamps
<1>2. QED
  BY <1>1, InitType, InitCore, InitStamps, InitTruthful, NextTruthful, PTL DEF Spec

--------------------------------------------------------------------------------
(* Refinement: the tables implement the life of an errand.                     *)

LEMMA StageOfStatus ==
    /\ StageOf("ABSENT") = "none" /\ StageOf("HOLDING") = "unpaid"
    /\ StageOf("POSTED") = "open" /\ StageOf("OFFERED") = "open"
    /\ StageOf("MATCHED") = "running" /\ StageOf("ORDER_COMPLETED") = "running"
    /\ StageOf("ALL_COMPLETED") = "completed" /\ StageOf("DISPUTED") = "disputed"
    /\ StageOf("RESOLVED") = "settled" /\ StageOf("REPORTED") = "closed"
    /\ StageOf("CANCELLED") = "closed"
  BY DEF StageOf, OpenProposalStatuses

(* The runner of an errand is the user of its one engaged offer.               *)
LEMMA RunnerIs ==
  ASSUME SingleExecution, NEW p \in Proposals
  PROVE  /\ \A u \in Users : Engaged(p, u) => RunnerOf(p) = u
         /\ (\A u \in Users : ~Engaged(p, u)) => RunnerOf(p) = NoUser
  BY DEF RunnerOf, SingleExecution

LEMMA RunnerIsNext ==
  ASSUME SingleExecution', NEW p \in Proposals
  PROVE  /\ \A u \in Users : Engaged(p, u)' => RunnerOf(p)' = u
         /\ (\A u \in Users : ~Engaged(p, u)') => RunnerOf(p)' = NoUser
  BY DEF RunnerOf, SingleExecution

LEMMA SameRunner ==
  ASSUME CoreInv, CoreInv', NEW p \in Proposals,
         \A u \in Users : Engaged(p, u)' <=> Engaged(p, u)
  PROVE  RunnerOf(p)' = RunnerOf(p)
  BY RunnerIs, RunnerIsNext DEF CoreInv

(* A request that writes the status of one proposal moves one errand.          *)
LEMMA OneErrandMoves ==
  ASSUME NEW p \in Proposals, NEW from, StageOf(proposalStatus[p]) \in from,
         \A r \in Proposals \ {p} : proposalStatus'[r] = proposalStatus[r]
  PROVE  Life!Moves(p, from, StageOf(proposalStatus'[p]))
  BY DEF Life!Moves

(* A request that confirms nothing and matches nobody leaves the rest of the   *)
(* errands as it is.                                                           *)
LEMMA OnlyTheStage ==
  ASSUME TypeOK, CoreInv, CoreInv', [Next]_vars, ConfirmsNothing,
         \A r \in Proposals : proposalStatus'[r] \in MatchedProposalStatuses =>
                proposalStatus[r] \in MatchedProposalStatuses
  PROVE  /\ UNCHANGED [p \in Proposals |-> RunnerOf(p)]
         /\ UNCHANGED [p \in Proposals |-> {side \in Sides : proposalStamps[p][side] # "null"}]
         /\ UNCHANGED level
<1>1. ASSUME NEW p \in Proposals, NEW u \in Users PROVE Engaged(p, u)' <=> Engaged(p, u)
  <2>1. OfferMoves(p, u)
    BY NextMoves
  <2>2. Engaged(p, u)' => proposalStatus'[p] \in MatchedProposalStatuses
    BY DEF CoreInv, StatusesAgree, ExecutionStages, MatchedProposalStatuses
  <2>3. proposalStatus[p] \in MatchedProposalStatuses => offerStatus[p][u] # "WAITING"
    BY DEF CoreInv, OffersWaitOnlyWhenOffered, MatchedProposalStatuses
  <2>4. QED
    BY <2>1, <2>2, <2>3 DEF OfferMoves, OfferTransitions, Engaged, EngagedOfferStatuses,
                            ActiveOfferStatuses
<1>2. \A p \in Proposals : RunnerOf(p)' = RunnerOf(p)
  BY <1>1, SameRunner
<1>3. QED
  BY <1>2 DEF ConfirmsNothing

LEMMA InitImplements == Init => Life!Init
<1> SUFFICES ASSUME Init PROVE Life!Init
  OBVIOUS
<1>1. \A p \in Proposals, u \in Users : ~Engaged(p, u)
  BY DEF Init, Engaged, EngagedOfferStatuses, ActiveOfferStatuses
<1>2. \A p \in Proposals : RunnerOf(p) = NoUser
  BY <1>1 DEF RunnerOf
<1>3. \A p \in Proposals : {side \in Sides : proposalStamps[p][side] # "null"} = {}
  BY DEF Init, NoStamps
<1>4. \A p \in Proposals : StageOf(proposalStatus[p]) = "none"
  BY StageOfStatus DEF Init
<1>5. level = [u \in Users |-> 0]
  BY DEF Init
<1>6. QED
  BY <1>2, <1>3, <1>4, <1>5 DEF Life!Init

(* The first, and the second, confirmation of an errand.                       *)
LEMMA FirstConfirmation ==
  ASSUME CoreInv, CoreInv', NEW p \in Proposals, NEW party \in Sides,
         proposalStatus[p] = "MATCHED", proposalStatus'[p] \in {"MATCHED", "ORDER_COMPLETED"},
         \A side \in Sides : /\ proposalStamps[p][side] = "null"
                             /\ proposalStamps'[p][side] # "null" <=> side = party,
         \A r \in Proposals \ {p} : /\ proposalStatus'[r] = proposalStatus[r]
                                   /\ proposalStamps'[r] = proposalStamps[r],
         \A r \in Proposals, u \in Users : Engaged(r, u)' <=> Engaged(r, u),
         UNCHANGED level
  PROVE  Life!ConfirmFirst(p, party)
<1>1. \A r \in Proposals : RunnerOf(r)' = RunnerOf(r)
  BY SameRunner
<1>2. \A r \in Proposals : StageOf(proposalStatus'[r]) = StageOf(proposalStatus[r])
  BY StageOfStatus
<1>3. /\ {side \in Sides : proposalStamps[p][side] # "null"} = {}
      /\ {side \in Sides : proposalStamps'[p][side] # "null"} = {party}
      /\ \A r \in Proposals \ {p} : {side \in Sides : proposalStamps'[r][side] # "null"}
                                  = {side \in Sides : proposalStamps[r][side] # "null"}
  OBVIOUS
<1>4. StageOf(proposalStatus[p]) = "running"
  BY StageOfStatus
<1>5. QED
  BY <1>1, <1>2, <1>3, <1>4 DEF Life!ConfirmFirst

LEMMA SecondConfirmation ==
  ASSUME CoreInv, CoreInv', NEW p \in Proposals, NEW u \in Users, NEW party \in Sides,
         Engaged(p, u),
         proposalStatus[p] \in {"MATCHED", "ORDER_COMPLETED"},
         proposalStatus'[p] = "ALL_COMPLETED",
         \A side \in Sides : /\ proposalStamps[p][side] # "null" <=> side # party
                             /\ proposalStamps'[p][side] # "null",
         \A r \in Proposals \ {p} : /\ proposalStatus'[r] = proposalStatus[r]
                                   /\ proposalStamps'[r] = proposalStamps[r],
         \A r \in Proposals, v \in Users : Engaged(r, v)' <=> Engaged(r, v),
         level' = [level EXCEPT ![u] = level[u] + 1]
  PROVE  Life!ConfirmSecond(p, party)
<1>1. \A r \in Proposals : RunnerOf(r)' = RunnerOf(r)
  BY SameRunner
<1>2. RunnerOf(p) = u
  BY RunnerIs DEF CoreInv
<1>3. Life!Moves(p, {"running"}, "completed")
  BY StageOfStatus, OneErrandMoves
<1>4. /\ {side \in Sides : proposalStamps[p][side] # "null"} = Life!Parties \ {party}
      /\ {side \in Sides : proposalStamps'[p][side] # "null"} = Life!Parties
      /\ \A r \in Proposals \ {p} : {side \in Sides : proposalStamps'[r][side] # "null"}
                                  = {side \in Sides : proposalStamps[r][side] # "null"}
  BY DEF Life!Parties, Sides
<1>5. QED
  BY <1>1, <1>2, <1>3, <1>4 DEF Life!ConfirmSecond

LEMMA CompleteDeliveryImplements ==
  ASSUME TypeOK, CoreInv, CoreInv', StampsInv,
         NEW p \in Proposals, NEW u \in Users, CompleteDelivery(p, u)
  PROVE  Life!Next
<1>1. Engaged(p, u) /\ \A r \in Proposals, v \in Users : Engaged(r, v)' <=> Engaged(r, v)
  BY CompleteDeliveryStatuses DEF Engaged, EngagedOfferStatuses, ActiveOfferStatuses
<1>2. StampsRow(p)
  BY DEF StampsInv
<1>3. "runner" \in Sides /\ "runner" \in Life!Parties
  BY DEF Sides, Life!Parties
<1>4. CASE proposalStatus[p] = "ORDER_COMPLETED"
  <2>1. \A side \in Sides : /\ proposalStamps[p][side] # "null" <=> side # "runner"
                            /\ proposalStamps'[p][side] # "null"
    BY <1>1, <1>2, <1>4, CompleteDeliveryStatuses, CompleteDeliveryStamps DEF StampsRow, Sides
  <2>2. Life!ConfirmSecond(p, "runner")
    BY <1>1, <1>3, <1>4, <2>1, CompleteDeliveryStatuses, CompleteDeliveryStamps, SecondConfirmation
  <2>3. QED
    BY <1>3, <2>2 DEF Life!Next
<1>5. CASE proposalStatus[p] # "ORDER_COMPLETED"
  <2>1. \A side \in Sides : /\ proposalStamps[p][side] = "null"
                            /\ proposalStamps'[p][side] # "null" <=> side = "runner"
    BY <1>1, <1>2, <1>5, CompleteDeliveryStatuses, CompleteDeliveryStamps DEF StampsRow, Sides
  <2>2. Life!ConfirmFirst(p, "runner")
    BY <1>1, <1>3, <1>5, <2>1, CompleteDeliveryStatuses, CompleteDeliveryStamps, FirstConfirmation
  <2>3. QED
    BY <1>3, <2>2 DEF Life!Next
<1>6. QED
  BY <1>4, <1>5

LEMMA ConfirmReceivedImplements ==
  ASSUME TypeOK, CoreInv, CoreInv', StampsInv,
         NEW p \in Proposals, NEW u \in Users, ConfirmReceived(p, u)
  PROVE  Life!Next
<1>1. Engaged(p, u) /\ \A r \in Proposals, v \in Users : Engaged(r, v)' <=> Engaged(r, v)
  BY ConfirmReceivedStatuses DEF Engaged, EngagedOfferStatuses, ActiveOfferStatuses
<1>2. StampsRow(p)
  BY DEF StampsInv
<1>3. "orderer" \in Sides /\ "orderer" \in Life!Parties
  BY DEF Sides, Life!Parties
<1>4. CASE offerStatus[p][u] = "RUNNER_COMPLETED"
  <2>1. \A side \in Sides : /\ proposalStamps[p][side] # "null" <=> side # "orderer"
                            /\ proposalStamps'[p][side] # "null"
    BY <1>1, <1>2, <1>4, ConfirmReceivedStatuses, ConfirmReceivedStamps DEF StampsRow, Sides
  <2>2. Life!ConfirmSecond(p, "orderer")
    BY <1>1, <1>3, <1>4, <2>1, ConfirmReceivedStatuses, ConfirmReceivedStamps, SecondConfirmation
  <2>3. QED
    BY <1>3, <2>2 DEF Life!Next
<1>5. CASE offerStatus[p][u] # "RUNNER_COMPLETED"
  <2>1. \A side \in Sides : /\ proposalStamps[p][side] = "null"
                            /\ proposalStamps'[p][side] # "null" <=> side = "orderer"
    BY <1>1, <1>2, <1>5, ConfirmReceivedStatuses, ConfirmReceivedStamps DEF StampsRow, Sides
  <2>2. Life!ConfirmFirst(p, "orderer")
    BY <1>1, <1>3, <1>5, <2>1, ConfirmReceivedStatuses, ConfirmReceivedStamps, FirstConfirmation
  <2>3. QED
    BY <1>3, <2>2 DEF Life!Next
<1>6. QED
  BY <1>4, <1>5

(* Acceptance is the match of the errand with its runner.                      *)
LEMMA AcceptOfferImplements ==
  ASSUME TypeOK, CoreInv, CoreInv', NEW p \in Proposals, NEW u \in Users, AcceptOffer(p, u)
  PROVE  Life!Match(p, u)
<1>1. /\ proposalStatus[p] = "OFFERED" /\ proposalStatus' = [proposalStatus EXCEPT ![p] = "MATCHED"]
      /\ UNCHANGED <<proposalStamps, level>>
  BY DEF AcceptOffer, CanAcceptOffer, AcceptOfferWrites
<1>2. Life!Moves(p, {"open"}, "running")
  <2>1. proposalStatus'[p] = "MATCHED"
        /\ \A r \in Proposals \ {p} : proposalStatus'[r] = proposalStatus[r]
    BY <1>1 DEF TypeOK
  <2>2. QED
    BY <1>1, <2>1, StageOfStatus, OneErrandMoves
<1>3. RunnerOf(p)' = u
  BY AcceptOfferRow, RunnerIsNext DEF CoreInv, Engaged, EngagedOfferStatuses, ActiveOfferStatuses
<1>4. ASSUME NEW r \in Proposals, r # p PROVE RunnerOf(r)' = RunnerOf(r)
  BY <1>4, AcceptOfferRow, SameRunner DEF Engaged
<1>5. QED
  BY <1>1, <1>2, <1>3, <1>4 DEF Life!Match

LEMMA NextImplements ==
  ASSUME TypeOK, CoreInv, CoreInv', StampsInv, [Next]_vars
  PROVE  [Life!Next]_(Life!vars)
<1> DEFINE Rest ==
      /\ UNCHANGED [p \in Proposals |-> RunnerOf(p)]
      /\ UNCHANGED [p \in Proposals |-> {side \in Sides : proposalStamps[p][side] # "null"}]
      /\ UNCHANGED level
<1>1. ASSUME NEW p \in Proposals, NEW u \in Users, CompleteDelivery(p, u) \/ ConfirmReceived(p, u)
      PROVE  Life!Next
  BY <1>1, CompleteDeliveryImplements, ConfirmReceivedImplements
<1>2. ASSUME ConfirmsNothing, NEW p \in Proposals, NEW y,
             proposalStatus' = [proposalStatus EXCEPT ![p] = y],
             y \in MatchedProposalStatuses => proposalStatus[p] \in MatchedProposalStatuses
      PROVE  /\ Rest
             /\ \A from : StageOf(proposalStatus[p]) \in from => Life!Moves(p, from, StageOf(y))
  <2>1. /\ proposalStatus'[p] = y
        /\ \A r \in Proposals \ {p} : proposalStatus'[r] = proposalStatus[r]
    BY <1>2 DEF TypeOK
  <2>2. Rest
    BY <1>2, <2>1, OnlyTheStage
  <2>3. QED
    BY <2>1, <2>2, OneErrandMoves
<1>3. ASSUME ConfirmsNothing,
             \A r \in Proposals : StageOf(proposalStatus'[r]) = StageOf(proposalStatus[r]),
             \A r \in Proposals : proposalStatus'[r] \in MatchedProposalStatuses =>
                    proposalStatus[r] \in MatchedProposalStatuses
      PROVE  UNCHANGED Life!vars
  <2>1. Rest
    BY <1>3, OnlyTheStage
  <2>2. QED
    BY <1>3, <2>1 DEF Life!vars
<1>4. ASSUME ConfirmsNothing, UNCHANGED proposalStatus PROVE UNCHANGED Life!vars
  BY <1>3, <1>4
<1>5. ASSUME ConfirmsNothing, NEW ps \in SUBSET Proposals,
             \A r \in Proposals :
                IF r \in ps
                THEN /\ proposalStatus[r] \in {"HOLDING", "POSTED", "OFFERED"}
                     /\ proposalStatus'[r] \in {"CANCELLED", "REPORTED"}
                ELSE proposalStatus'[r] = proposalStatus[r]
      PROVE  Life!Next
  <2>1. \A r \in Proposals : proposalStatus'[r] \in MatchedProposalStatuses =>
            proposalStatus[r] \in MatchedProposalStatuses
    BY <1>5 DEF MatchedProposalStatuses
  <2>2. Rest
    BY <1>5, <2>1, OnlyTheStage
  <2>3. /\ \A r \in ps : /\ StageOf(proposalStatus[r]) \in {"unpaid", "open"}
                         /\ StageOf(proposalStatus'[r]) = "closed"
        /\ \A r \in Proposals \ ps : StageOf(proposalStatus'[r]) = StageOf(proposalStatus[r])
    BY <1>5, StageOfStatus
  <2>4. Life!Close(ps)
    BY <2>2, <2>3 DEF Life!Close
  <2>5. QED
    BY <2>4 DEF Life!Next
<1> HIDE DEF Rest
<1>6. ASSUME ConfirmsNothing, NEW p \in Proposals, NEW u \in Users, NEW fee \in Fees,
             CreateProposal(p, u, fee)
      PROVE  Life!Next
  <2>1. /\ proposalStatus[p] = "ABSENT"
        /\ proposalStatus' = [proposalStatus EXCEPT ![p] = "HOLDING"]
    BY <1>6 DEF CreateProposal, CanCreateProposal, CreateProposalWrites
  <2>2. Rest /\ Life!Moves(p, {"none"}, "unpaid")
    BY <1>2, <1>6, <2>1, StageOfStatus DEF MatchedProposalStatuses
  <2>3. Life!Ask(p)
    BY <2>2 DEF Life!Ask, Rest
  <2>4. QED
    BY <2>3 DEF Life!Next
<1>7. ASSUME ConfirmsNothing, NEW p \in Proposals, NEW fee \in Fees, UpdateProposal(p, fee)
      PROVE  [Life!Next]_(Life!vars)
  <2>1. /\ proposalStatus' = [proposalStatus EXCEPT ![p] = "HOLDING"]
        /\ proposalStatus[p] \in {"HOLDING", "POSTED"}
    BY <1>7 DEF UpdateProposal, UpdateProposalWrites, CanUpdateProposal, EditableStatuses, TypeOK
  <2>2. CASE proposalStatus[p] = "HOLDING"
    <3>1. UNCHANGED proposalStatus
      BY <2>1, <2>2 DEF TypeOK
    <3>2. QED
      BY <1>4, <1>7, <3>1
  <2>3. CASE proposalStatus[p] = "POSTED"
    <3>1. Rest /\ Life!Moves(p, {"open"}, "unpaid")
      BY <1>2, <1>7, <2>1, <2>3, StageOfStatus DEF MatchedProposalStatuses
    <3>2. Life!ChangeTerms(p)
      BY <3>1 DEF Life!ChangeTerms, Rest
    <3>3. QED
      BY <3>2 DEF Life!Next
  <2>4. QED
    BY <2>1, <2>2, <2>3
<1>8. ASSUME ConfirmsNothing, NEW p \in Proposals, CancelProposal(p) PROVE Life!Next
  <2>1. /\ proposalStatus' = [proposalStatus EXCEPT ![p] = "CANCELLED"]
        /\ proposalStatus[p] \in {"HOLDING", "POSTED", "OFFERED"}
    BY <1>8 DEF CancelProposal, CanCancelProposal, CancelProposalWrites, CancellableStatuses
  <2>2. \A r \in Proposals :
                IF r \in {p}
                THEN /\ proposalStatus[r] \in {"HOLDING", "POSTED", "OFFERED"}
                     /\ proposalStatus'[r] \in {"CANCELLED", "REPORTED"}
                ELSE proposalStatus'[r] = proposalStatus[r]
    BY <2>1 DEF TypeOK
  <2>3. {p} \in SUBSET Proposals
    OBVIOUS
  <2>4. QED
    BY <1>5, <1>8, <2>2, <2>3
<1>9. ASSUME ConfirmsNothing, NEW p \in Proposals, ConfirmPayment(p) PROVE Life!Next
  <2>1. /\ proposalStatus[p] = "HOLDING"
        /\ proposalStatus' = [proposalStatus EXCEPT ![p] = "POSTED"]
    BY <1>9 DEF ConfirmPayment, CanConfirmPayment, ConfirmPaymentWrites
  <2>2. Rest /\ Life!Moves(p, {"unpaid"}, "open")
    BY <1>2, <1>9, <2>1, StageOfStatus DEF MatchedProposalStatuses
  <2>3. Life!Pay(p)
    BY <2>2 DEF Life!Pay, Rest
  <2>4. QED
    BY <2>3 DEF Life!Next
<1>10. ASSUME ConfirmsNothing, NEW p \in Proposals, NEW u \in Users,
              CreateReport(p, u) \/ RejectReport(p, u) \/ CancelOffer(p, u)
       PROVE  UNCHANGED Life!vars
  BY <1>4, <1>10 DEF CreateReport, CreateReportWrites, RejectReport, RejectReportWrites,
                     CancelOffer, CancelOfferWrites
<1>11. ASSUME ConfirmsNothing, NEW p \in Proposals, NEW u \in Users, AcceptReport(p, u)
       PROVE  [Life!Next]_(Life!vars)
  <2>1. CASE proposalStatus[p] \in OpenProposalStatuses
    <3>1. /\ proposalStatus' = [proposalStatus EXCEPT ![p] = "REPORTED"]
          /\ proposalStatus[p] \in {"HOLDING", "POSTED", "OFFERED"}
      BY <1>11, <2>1 DEF AcceptReport, AcceptReportWrites, OpenProposalStatuses
    <3>2. \A r \in Proposals :
                IF r \in {p}
                THEN /\ proposalStatus[r] \in {"HOLDING", "POSTED", "OFFERED"}
                     /\ proposalStatus'[r] \in {"CANCELLED", "REPORTED"}
                ELSE proposalStatus'[r] = proposalStatus[r]
      BY <3>1 DEF TypeOK
    <3>3. {p} \in SUBSET Proposals
      OBVIOUS
    <3>4. QED
      BY <1>5, <1>11, <3>2, <3>3
  <2>2. CASE proposalStatus[p] \notin OpenProposalStatuses
    BY <1>4, <1>11, <2>2 DEF AcceptReport, AcceptReportWrites
  <2>3. QED
    BY <2>1, <2>2
<1>12. ASSUME ConfirmsNothing, NEW p \in Proposals, NEW u \in Users, CreateOffer(p, u)
       PROVE  UNCHANGED Life!vars
  <2>1. /\ proposalStatus' = [proposalStatus EXCEPT ![p] = "OFFERED"]
        /\ proposalStatus[p] \in {"POSTED", "OFFERED"}
    BY <1>12 DEF CreateOffer, CanCreateOffer, CreateOfferWrites, OpenProposalStatuses, TypeOK
  <2>2. \A r \in Proposals : /\ StageOf(proposalStatus'[r]) = StageOf(proposalStatus[r])
                             /\ proposalStatus'[r] \in MatchedProposalStatuses =>
                                    proposalStatus[r] \in MatchedProposalStatuses
    BY <2>1, StageOfStatus DEF TypeOK, MatchedProposalStatuses
  <2>3. QED
    BY <1>3, <1>12, <2>2
<1>13. ASSUME NEW p \in Proposals, NEW u \in Users, AcceptOffer(p, u) PROVE Life!Next
  BY <1>13, AcceptOfferImplements DEF Life!Next
<1>14. ASSUME ConfirmsNothing, NEW p \in Proposals, NEW u \in Users,
              RaiseDisputeByRunner(p, u) \/ RaiseDisputeByOrderer(p, u)
       PROVE  Life!Next
  <2>1. /\ proposalStatus[p] \in {"MATCHED", "ORDER_COMPLETED"}
        /\ proposalStatus' = [proposalStatus EXCEPT ![p] = "DISPUTED"]
    BY <1>14 DEF RaiseDisputeByRunner, RaiseDisputeByOrderer, CanRaiseDispute, RaiseDisputeWrites
  <2>2. Rest /\ Life!Moves(p, {"running"}, "disputed")
    BY <1>2, <1>14, <2>1, StageOfStatus DEF MatchedProposalStatuses
  <2>3. Life!Dispute(p)
    BY <2>2 DEF Life!Dispute, Rest
  <2>4. QED
    BY <2>3 DEF Life!Next
<1>15. ASSUME ConfirmsNothing, NEW p \in Proposals, NEW u \in Users, Resolve(p, u)
       PROVE  Life!Next
  <2>1. /\ proposalStatus[p] = "DISPUTED"
        /\ proposalStatus' = [proposalStatus EXCEPT ![p] = "RESOLVED"]
    BY <1>15 DEF Resolve, CanResolve, ResolveWrites
  <2>2. Rest /\ Life!Moves(p, {"disputed"}, "settled")
    BY <1>2, <1>15, <2>1, StageOfStatus DEF MatchedProposalStatuses
  <2>3. Life!Settle(p)
    BY <2>2 DEF Life!Settle, Rest
  <2>4. QED
    BY <2>3 DEF Life!Next
<1>16. ASSUME ConfirmsNothing, NEW u \in AlarmUsers, NEW enabled \in BOOLEAN,
              UpdateAlarm(u, enabled)
       PROVE  UNCHANGED Life!vars
  BY <1>4, <1>16 DEF UpdateAlarm, UpdateAlarmWrites
<1>17. ASSUME ConfirmsNothing, NEW u \in Users, WithdrawUser(u) PROVE Life!Next
  BY <1>5, <1>17 DEF WithdrawUser, WithdrawUserWrites, PreMatchProposals, CancellableStatuses
<1>18. ASSUME ConfirmsNothing, UNCHANGED vars PROVE UNCHANGED Life!vars
  BY <1>4, <1>18 DEF vars
<1>19. QED
  BY <1>1, <1>6, <1>7, <1>8, <1>9, <1>10, <1>11, <1>12, <1>13, <1>14, <1>15, <1>16, <1>17, <1>18,
     NextConfirmations DEF Next

(* The requests on the tables implement the life of the errands: the two       *)
(* confirmations, in whichever order and by whichever services, complete one   *)
(* errand once, with its level, and nothing else does.                         *)
THEOREM LifeImplemented == Spec => ImplementsExecutionLife
<1>1. TypeOK /\ CoreInv /\ StampsInv /\ [Next]_vars => TypeOK' /\ CoreInv' /\ StampsInv'
  BY NextType, NextCore, NextStamps
<1>2. TypeOK /\ CoreInv /\ CoreInv' /\ StampsInv /\ [Next]_vars => [Life!Next]_(Life!vars)
  BY NextImplements
<1>3. QED
  BY <1>1, <1>2, InitType, InitCore, InitStamps, InitImplements, PTL
     DEF Spec, ImplementsExecutionLife, Life!Spec

================================================================================
