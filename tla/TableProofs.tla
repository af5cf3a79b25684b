------------------------------ MODULE TableProofs -------------------------------
(* The invariants that relate the tables of Marketplace to each other, for any *)
(* users, proposals and fees.                                                  *)
EXTENDS TransitionProofs, FiniteSetTheorems

USE DEF userVars, proposalVars, offerVars

--------------------------------------------------------------------------------
(* Reports.                                                                    *)

(* What a request does to the status of a proposal, seen from the reports: it  *)
(* accepts one, or leaves the table alone or changes a PENDING row, and makes  *)
(* no proposal REPORTED.                                                       *)
LEMMA NextReports ==
  ASSUME TypeOK, [Next]_vars
  PROVE  \/ \E p \in Proposals, u \in Users : AcceptReport(p, u)
         \/ /\ \A p \in Proposals, u \in Users :
                 (reports'[p][u] = "ACCEPTED") <=> (reports[p][u] = "ACCEPTED")
            /\ \A p \in Proposals :
                 proposalStatus'[p] = "REPORTED" => proposalStatus[p] = "REPORTED"
<1> DEFINE Same ==
        /\ \A p \in Proposals, u \in Users :
             (reports'[p][u] = "ACCEPTED") <=> (reports[p][u] = "ACCEPTED")
        /\ \A p \in Proposals :
             proposalStatus'[p] = "REPORTED" => proposalStatus[p] = "REPORTED"
<1>1. ASSUME NEW p \in Proposals, NEW y, y # "REPORTED", UNCHANGED reports,
             proposalStatus' = [proposalStatus EXCEPT ![p] = y]
      PROVE  Same
  BY <1>1 DEF TypeOK
<1>2. ASSUME NEW p \in Proposals, NEW u \in Users, NEW fee \in Fees, CreateProposal(p, u, fee)
      PROVE  Same
  BY <1>1, <1>2 DEF CreateProposal, CreateProposalWrites
<1>3. ASSUME NEW p \in Proposals, NEW fee \in Fees, UpdateProposal(p, fee) PROVE Same
  BY <1>3 DEF UpdateProposal, UpdateProposalWrites, TypeOK
<1>4. ASSUME NEW p \in Proposals, CancelProposal(p) \/ ConfirmPayment(p) PROVE Same
  BY <1>1, <1>4 DEF CancelProposal, CancelProposalWrites, ConfirmPayment, ConfirmPaymentWrites
<1>5. ASSUME NEW p \in Proposals, NEW u \in Users, CreateReport(p, u) \/ RejectReport(p, u)
      PROVE  Same
  <2>1. PICK to \in {"PENDING", "REJECTED"} : reports' = [reports EXCEPT ![p][u] = to]
    BY <1>5 DEF CreateReport, CreateReportWrites, RejectReport, RejectReportWrites
  <2>2. reports[p][u] # "ACCEPTED" /\ UNCHANGED proposalStatus
    BY <1>5 DEF CreateReport, CanCreateReport, CreateReportWrites,
                RejectReport, CanRejectReport, RejectReportWrites
  <2>3. QED
    BY <2>1, <2>2 DEF TypeOK
<1>6. ASSUME NEW p \in Proposals, NEW u \in Users, CreateOffer(p, u) PROVE Same
  BY <1>6 DEF CreateOffer, CreateOfferWrites, TypeOK
<1>7. ASSUME NEW p \in Proposals, NEW u \in Users, CancelOffer(p, u) \/ AcceptOffer(p, u)
      PROVE  Same
  BY <1>1, <1>7 DEF CancelOffer, CancelOfferWrites, AcceptOffer, AcceptOfferWrites
<1>8. ASSUME NEW p \in Proposals, NEW u \in Users, CompleteDelivery(p, u) \/ ConfirmReceived(p, u)
      PROVE  Same
  BY <1>1, <1>8 DEF CompleteDelivery, CompleteDeliveryWrites, ConfirmReceived,
                    ConfirmReceivedWrites, MarkAllCompleted
<1>9. ASSUME NEW p \in Proposals, NEW u \in Users,
             RaiseDisputeByRunner(p, u) \/ RaiseDisputeByOrderer(p, u) \/ Resolve(p, u)
      PROVE  Same
  BY <1>1, <1>9 DEF RaiseDisputeByRunner, RaiseDisputeByOrderer, RaiseDisputeWrites, Resolve,
                    ResolveWrites
<1>10. ASSUME NEW u \in AlarmUsers, NEW enabled \in BOOLEAN, UpdateAlarm(u, enabled) PROVE Same
  BY <1>10 DEF UpdateAlarm, UpdateAlarmWrites
<1>11. ASSUME NEW u \in Users, WithdrawUser(u) PROVE Same
  BY <1>11 DEF WithdrawUser, WithdrawUserWrites
<1>12. CASE UNCHANGED vars
  BY <1>12 DEF vars
<1>13. QED
  BY <1>2, <1>3, <1>4, <1>5, <1>6, <1>7, <1>8, <1>9, <1>10, <1>11, <1>12 DEF Next

LEMMA InitReported == Init => ReportedIffAccepted
  BY DEF Init, ReportedIffAccepted

LEMMA NextReported == TypeOK /\ ReportedIffAccepted /\ [Next]_vars => ReportedIffAccepted'
<1> SUFFICES ASSUME TypeOK, ReportedIffAccepted, [Next]_vars PROVE ReportedIffAccepted'
  OBVIOUS
<1>1. ASSUME NEW p \in Proposals, NEW u \in Users, AcceptReport(p, u)
      PROVE  ReportedIffAccepted'
  <2>1. /\ reports' = [reports EXCEPT ![p][u] = "ACCEPTED"]
        /\ proposalStatus' = [proposalStatus EXCEPT ![p] = "REPORTED"]
    BY <1>1 DEF AcceptReport, CanAcceptReport, AcceptReportWrites, TypeOK
  <2>2. QED
    BY <2>1 DEF ReportedIffAccepted, TypeOK
<1>2. CASE /\ \A p \in Proposals, u \in Users :
                (reports'[p][u] = "ACCEPTED") <=> (reports[p][u] = "ACCEPTED")
           /\ \A p \in Proposals :
                proposalStatus'[p] = "REPORTED" => proposalStatus[p] = "REPORTED"
  <2>1. \A p \in Proposals : proposalStatus[p] = "REPORTED" => proposalStatus'[p] = "REPORTED"
    BY NextMoves DEF ProposalMoves, ProposalTransitions, OpenProposalStatuses
  <2>2. QED
    BY <1>2, <2>1 DEF ReportedIffAccepted
<1>3. QED
  BY <1>1, <1>2, NextReports

(* A proposal is REPORTED exactly when a report on it was accepted.            *)
THEOREM ReportsCorrect == Spec => []ReportedIffAccepted
  BY InitReported, NextReported, TypeCorrect, PTL DEF Spec

--------------------------------------------------------------------------------
(* Payment.                                                                    *)

(* What a request does to the fees of a proposal: nothing, while it does not   *)
(* make the proposal public; or the proposal is to be paid again; or the fee   *)
(* that is shown is the one that is paid.                                      *)
LEMMA NextFees ==
  ASSUME TypeOK, [Next]_vars, NEW r \in Proposals
  PROVE  \/ /\ paidFee'[r] = paidFee[r] /\ errandFee'[r] = errandFee[r]
            /\ ~(proposalStatus[r] = "HOLDING" /\ proposalStatus'[r] = "POSTED")
         \/ proposalStatus'[r] = "HOLDING"
         \/ paidFee'[r] = errandFee'[r]
<1> DEFINE Kept == /\ paidFee'[r] = paidFee[r] /\ errandFee'[r] = errandFee[r]
                   /\ ~(proposalStatus[r] = "HOLDING" /\ proposalStatus'[r] = "POSTED")
           Goal == Kept \/ proposalStatus'[r] = "HOLDING" \/ paidFee'[r] = errandFee'[r]
<1>1. ASSUME NEW p \in Proposals, NEW y, y # "POSTED", UNCHANGED <<paidFee, errandFee>>,
             proposalStatus' = [proposalStatus EXCEPT ![p] = y]
      PROVE  Goal
  BY <1>1 DEF TypeOK
<1>2. ASSUME NEW p \in Proposals, NEW u \in Users, NEW fee \in Fees, CreateProposal(p, u, fee)
      PROVE  Goal
  BY <1>2 DEF CreateProposal, CanCreateProposal, CreateProposalWrites, TypeOK
<1>3. ASSUME NEW p \in Proposals, NEW fee \in Fees, UpdateProposal(p, fee) PROVE Goal
  BY <1>3 DEF UpdateProposal, UpdateProposalWrites, TypeOK
<1>4. ASSUME NEW p \in Proposals, CancelProposal(p) PROVE Goal
  BY <1>1, <1>4 DEF CancelProposal, CancelProposalWrites
<1>5. ASSUME NEW p \in Proposals, ConfirmPayment(p) PROVE Goal
  BY <1>5 DEF ConfirmPayment, ConfirmPaymentWrites, TypeOK
<1>6. ASSUME NEW p \in Proposals, NEW u \in Users, CreateReport(p, u) \/ RejectReport(p, u)
      PROVE  Goal
  BY <1>6 DEF CreateReport, CreateReportWrites, RejectReport, RejectReportWrites
<1>7. ASSUME NEW p \in Proposals, NEW u \in Users, AcceptReport(p, u) PROVE Goal
  BY <1>1, <1>7 DEF AcceptReport, AcceptReportWrites
<1>8. ASSUME NEW p \in Proposals, NEW u \in Users, CreateOffer(p, u) PROVE Goal
  BY <1>8 DEF CreateOffer, CanCreateOffer, CreateOfferWrites, OpenProposalStatuses, TypeOK
<1>9. ASSUME NEW p \in Proposals, NEW u \in Users, CancelOffer(p, u) \/ AcceptOffer(p, u)
      PROVE  Goal
  BY <1>1, <1>9 DEF CancelOffer, CancelOfferWrites, AcceptOffer, AcceptOfferWrites
<1>10. ASSUME NEW p \in Proposals, NEW u \in Users, CompleteDelivery(p, u) \/ ConfirmReceived(p, u)
      PROVE  Goal
  BY <1>1, <1>10 DEF CompleteDelivery, CompleteDeliveryWrites, ConfirmReceived,
                     ConfirmReceivedWrites, MarkAllCompleted
<1>11. ASSUME NEW p \in Proposals, NEW u \in Users,
              RaiseDisputeByRunner(p, u) \/ RaiseDisputeByOrderer(p, u) \/ Resolve(p, u)
       PROVE  Goal
  BY <1>1, <1>11 DEF RaiseDisputeByRunner, RaiseDisputeByOrderer, RaiseDisputeWrites, Resolve,
                     ResolveWrites
<1>12. ASSUME NEW u \in AlarmUsers, NEW enabled \in BOOLEAN, UpdateAlarm(u, enabled) PROVE Goal
  BY <1>12 DEF UpdateAlarm, UpdateAlarmWrites
<1>13. ASSUME NEW u \in Users, WithdrawUser(u) PROVE Goal
  BY <1>13 DEF WithdrawUser, WithdrawUserWrites
<1>14. CASE UNCHANGED vars
  BY <1>14 DEF vars
<1>15. QED
  BY <1>2, <1>3, <1>4, <1>5, <1>6, <1>7, <1>8, <1>9, <1>10, <1>11, <1>12, <1>13, <1>14 DEF Next

LEMMA InitPaid == Init => PaidAsPosted
  BY DEF Init, PaidAsPosted, OpenProposalStatuses, MatchedProposalStatuses

LEMMA NextPaid == TypeOK /\ PaidAsPosted /\ [Next]_vars => PaidAsPosted'
<1> SUFFICES ASSUME TypeOK, PaidAsPosted, [Next]_vars, NEW r \in Proposals,
                    proposalStatus'[r] \in OpenProposalStatuses \cup MatchedProposalStatuses
             PROVE  paidFee'[r] = errandFee'[r]
  BY DEF PaidAsPosted
<1>1. ProposalMoves(r)
  BY NextMoves
<1>2. CASE /\ paidFee'[r] = paidFee[r] /\ errandFee'[r] = errandFee[r]
           /\ ~(proposalStatus[r] = "HOLDING" /\ proposalStatus'[r] = "POSTED")
  <2>1. proposalStatus[r] \in OpenProposalStatuses \cup MatchedProposalStatuses
    BY <1>1, <1>2 DEF ProposalMoves, ProposalTransitions, OpenProposalStatuses,
                      MatchedProposalStatuses
  <2>2. QED
    BY <1>2, <2>1 DEF PaidAsPosted
<1>3. CASE proposalStatus'[r] = "HOLDING"
  BY <1>3 DEF OpenProposalStatuses, MatchedProposalStatuses
<1>4. QED
  BY <1>2, <1>3, NextFees

(* What is public or under way costs what was paid.                            *)
THEOREM PaymentCorrect == Spec => []PaidAsPosted
  BY InitPaid, NextPaid, TypeCorrect, PTL DEF Spec

--------------------------------------------------------------------------------
(* Disputes.                                                                   *)

(* The row of a proposal gets its orderer when it is created, and keeps it.    *)
LEMMA OrdererKept ==
  ASSUME TypeOK, [Next]_vars, NEW r \in Proposals, proposalStatus[r] # "ABSENT"
  PROVE  orderer'[r] = orderer[r]
<1>1. ASSUME NEW p \in Proposals, NEW u \in Users, NEW fee \in Fees, CreateProposal(p, u, fee)
      PROVE  orderer'[r] = orderer[r]
  BY <1>1 DEF CreateProposal, CanCreateProposal, CreateProposalWrites, TypeOK
<1>2. ASSUME UNCHANGED orderer PROVE orderer'[r] = orderer[r]
  BY <1>2
<1>3. ASSUME NEW p \in Proposals, NEW fee \in Fees, UpdateProposal(p, fee) PROVE UNCHANGED orderer
  BY <1>3 DEF UpdateProposal, UpdateProposalWrites
<1>4. ASSUME NEW p \in Proposals, CancelProposal(p) \/ ConfirmPayment(p) PROVE UNCHANGED orderer
  BY <1>4 DEF CancelProposal, CancelProposalWrites, ConfirmPayment, ConfirmPaymentWrites
<1>5. ASSUME NEW p \in Proposals, NEW u \in Users,
             CreateReport(p, u) \/ AcceptReport(p, u) \/ RejectReport(p, u)
      PROVE  UNCHANGED orderer
  BY <1>5 DEF CreateReport, CreateReportWrites, AcceptReport, AcceptReportWrites, RejectReport,
              RejectReportWrites
<1>6. ASSUME NEW p \in Proposals, NEW u \in Users,
             CreateOffer(p, u) \/ CancelOffer(p, u) \/ AcceptOffer(p, u)
      PROVE  UNCHANGED orderer
  BY <1>6 DEF CreateOffer, CreateOfferWrites, CancelOffer, CancelOfferWrites, AcceptOffer,
              AcceptOfferWrites
<1>7. ASSUME NEW p \in Proposals, NEW u \in Users, CompleteDelivery(p, u) \/ ConfirmReceived(p, u)
      PROVE  UNCHANGED orderer
  BY <1>7 DEF CompleteDelivery, CompleteDeliveryWrites, ConfirmReceived, ConfirmReceivedWrites
<1>8. ASSUME NEW p \in Proposals, NEW u \in Users,
             RaiseDisputeByRunner(p, u) \/ RaiseDisputeByOrderer(p, u) \/ Resolve(p, u)
      PROVE  UNCHANGED orderer
  BY <1>8 DEF RaiseDisputeByRunner, RaiseDisputeByOrderer, RaiseDisputeWrites, Resolve,
              ResolveWrites
<1>9. ASSUME NEW u \in AlarmUsers, NEW enabled \in BOOLEAN, UpdateAlarm(u, enabled)
      PROVE  UNCHANGED orderer
  BY <1>9 DEF UpdateAlarm, UpdateAlarmWrites
<1>10. ASSUME NEW u \in Users, WithdrawUser(u) PROVE UNCHANGED orderer
  BY <1>10 DEF WithdrawUser, WithdrawUserWrites
<1>11. CASE UNCHANGED vars
  BY <1>2, <1>11 DEF vars
<1>12. QED
  BY <1>1, <1>2, <1>3, <1>4, <1>5, <1>6, <1>7, <1>8, <1>9, <1>10, <1>11 DEF Next

(* Only a dispute writes evidence, and only a dispute makes an offer DISPUTED. *)
LEMMA NextEvidence ==
  ASSUME TypeOK, [Next]_vars
  PROVE  \/ \E p \in Proposals, u \in Users :
               RaiseDisputeByRunner(p, u) \/ RaiseDisputeByOrderer(p, u)
         \/ /\ UNCHANGED evidences
            /\ \A p \in Proposals, u \in Users :
                 offerStatus'[p][u] = "DISPUTED" => offerStatus[p][u] = "DISPUTED"
<1> DEFINE None == /\ UNCHANGED evidences
                   /\ \A p \in Proposals, u \in Users :
                        offerStatus'[p][u] = "DISPUTED" => offerStatus[p][u] = "DISPUTED"
<1>1. ASSUME NEW p \in Proposals, NEW u \in Users, NEW x, x # "DISPUTED",
             offerStatus' = [offerStatus EXCEPT ![p][u] = x], UNCHANGED evidences
      PROVE  None
  BY <1>1 DEF TypeOK
<1>2. ASSUME UNCHANGED <<offerStatus, evidences>> PROVE None
  BY <1>2
<1>3. ASSUME NEW p \in Proposals, offerStatus' = WaitingOffersBecome(p, "REJECTED", {}),
             UNCHANGED evidences
      PROVE  None
  BY <1>3, RejectWaiting DEF Settled
<1>4. ASSUME NEW p \in Proposals, NEW u \in Users, NEW fee \in Fees, CreateProposal(p, u, fee)
      PROVE  None
  BY <1>2, <1>4 DEF CreateProposal, CreateProposalWrites
<1>5. ASSUME NEW p \in Proposals, NEW fee \in Fees, UpdateProposal(p, fee) PROVE None
  BY <1>2, <1>5 DEF UpdateProposal, UpdateProposalWrites
<1>6. ASSUME NEW p \in Proposals, CancelProposal(p) PROVE None
  BY <1>2, <1>3, <1>6 DEF CancelProposal, CancelProposalWrites
<1>7. ASSUME NEW p \in Proposals, ConfirmPayment(p) PROVE None
  BY <1>2, <1>7 DEF ConfirmPayment, ConfirmPaymentWrites
<1>8. ASSUME NEW p \in Proposals, NEW u \in Users, CreateReport(p, u) \/ RejectReport(p, u)
      PROVE  None
  BY <1>2, <1>8 DEF CreateReport, CreateReportWrites, RejectReport, RejectReportWrites
<1>9. ASSUME NEW p \in Proposals, NEW u \in Users, AcceptReport(p, u) PROVE None
  BY <1>2, <1>3, <1>9 DEF AcceptReport, AcceptReportWrites
<1>10. ASSUME NEW p \in Proposals, NEW u \in Users, CreateOffer(p, u) \/ CancelOffer(p, u)
       PROVE  None
  BY <1>1, <1>10 DEF CreateOffer, CreateOfferWrites, CancelOffer, CancelOfferWrites
<1>11. ASSUME NEW p \in Proposals, NEW u \in Users, AcceptOffer(p, u) PROVE None
  <2>1. UNCHANGED evidences
    BY <1>11 DEF AcceptOffer, AcceptOfferWrites
  <2>2. QED
    BY <1>11, <2>1, AcceptOfferRow
<1>12. ASSUME NEW p \in Proposals, NEW u \in Users, CompleteDelivery(p, u) \/ ConfirmReceived(p, u)
       PROVE  None
  <2>1. UNCHANGED evidences
    BY <1>12 DEF CompleteDelivery, CompleteDeliveryWrites, ConfirmReceived, ConfirmReceivedWrites
  <2>2. \/ UNCHANGED offerStatus
        \/ offerStatus' = [offerStatus EXCEPT ![p][u] = "ALL_COMPLETED"]
        \/ offerStatus' = [offerStatus EXCEPT ![p][u] = "RUNNER_COMPLETED"]
    BY <1>12, CompleteDeliveryLast, CompleteDeliveryFirst, ConfirmReceivedLast,
       ConfirmReceivedFirst
  <2>3. QED
    BY <1>1, <1>2, <2>1, <2>2
<1>13. ASSUME NEW p \in Proposals, NEW u \in Users, Resolve(p, u) PROVE None
  BY <1>1, <1>13 DEF Resolve, ResolveWrites
<1>14. ASSUME NEW u \in AlarmUsers, NEW enabled \in BOOLEAN, UpdateAlarm(u, enabled) PROVE None
  BY <1>2, <1>14 DEF UpdateAlarm, UpdateAlarmWrites
<1>15. ASSUME NEW u \in Users, WithdrawUser(u) PROVE None
  BY <1>15 DEF WithdrawUser, WithdrawUserWrites, TypeOK
<1>16. CASE UNCHANGED vars
  BY <1>2, <1>16 DEF vars
<1>17. QED
  BY <1>4, <1>5, <1>6, <1>7, <1>8, <1>9, <1>10, <1>11, <1>12, <1>13, <1>14, <1>15, <1>16 DEF Next

LEMMA InitEvidence == Init => EvidencePerDispute
  BY DEF Init, EvidencePerDispute

LEMMA NextEvidencePerDispute ==
  TypeOK /\ CoreInv /\ EvidencePerDispute /\ [Next]_vars => EvidencePerDispute'
<1> SUFFICES ASSUME TypeOK, CoreInv, EvidencePerDispute, [Next]_vars PROVE EvidencePerDispute'
  OBVIOUS
<1>1. \A e \in evidences : /\ e.proposal \in Proposals /\ e.runner \in Users
                           /\ offerStatus[e.proposal][e.runner] \in {"DISPUTED", "RESOLVED"}
                           /\ orderer'[e.proposal] = orderer[e.proposal]
  <2> SUFFICES ASSUME NEW e \in evidences
               PROVE  /\ e.proposal \in Proposals /\ e.runner \in Users
                      /\ offerStatus[e.proposal][e.runner] \in {"DISPUTED", "RESOLVED"}
                      /\ orderer'[e.proposal] = orderer[e.proposal]
    OBVIOUS
  <2>1. e.proposal \in Proposals /\ e.runner \in Users
    BY DEF TypeOK
  <2>2. offerStatus[e.proposal][e.runner] \in {"DISPUTED", "RESOLVED"}
    BY <2>1 DEF EvidencePerDispute
  <2>3. proposalStatus[e.proposal] # "ABSENT"
    BY <2>1, <2>2 DEF CoreInv, OffersWaitOnlyWhenOffered
  <2>4. QED
    BY <2>1, <2>2, <2>3, OrdererKept
<1>2. \A p \in Proposals, u \in Users : OfferMoves(p, u)
  BY NextMoves
<1>3. ASSUME NEW p \in Proposals, NEW u \in Users,
             RaiseDisputeByRunner(p, u) \/ RaiseDisputeByOrderer(p, u)
      PROVE  EvidencePerDispute'
  <2>1. PICK actor \in {u, orderer[p]} :
            evidences' = evidences \cup {[proposal |-> p, runner |-> u, actor |-> actor]}
    BY <1>3 DEF RaiseDisputeByRunner, RaiseDisputeByOrderer, RaiseDisputeWrites
  <2>2. /\ offerStatus' = [offerStatus EXCEPT ![p][u] = "DISPUTED"]
        /\ UNCHANGED orderer
        /\ offerStatus[p][u] \in {"ACCEPTED", "RUNNER_COMPLETED"}
    BY <1>3 DEF RaiseDisputeByRunner, RaiseDisputeByOrderer, CanRaiseDispute, RaiseDisputeWrites
  <2>3. \A e \in evidences : e.proposal # p
    <3> SUFFICES ASSUME NEW e \in evidences, e.proposal = p PROVE FALSE
      OBVIOUS
    <3>1. Engaged(p, u) /\ Engaged(p, e.runner) /\ e.runner # u
      BY <1>1, <2>2 DEF Engaged, EngagedOfferStatuses, ActiveOfferStatuses
    <3>2. QED
      BY <1>1, <3>1 DEF CoreInv, SingleExecution
  <2>4. /\ offerStatus'[p][u] = "DISPUTED"
        /\ \A q \in Proposals, v \in Users :
              q # p \/ v # u => offerStatus'[q][v] = offerStatus[q][v]
    BY <2>2 DEF TypeOK
  <2>5. ASSUME NEW q \in Proposals, NEW v \in Users
        PROVE  (offerStatus'[q][v] \in {"DISPUTED", "RESOLVED"}) <=>
                    \E e \in evidences' : e.proposal = q /\ e.runner = v
    <3> DEFINE filed == [proposal |-> p, runner |-> u, actor |-> actor]
    <3>0. filed.proposal = p /\ filed.runner = u /\ evidences' = evidences \cup {filed}
      BY <2>1
    <3> HIDE DEF filed
    <3>1. CASE q = p /\ v = u
      BY <2>4, <3>0, <3>1
    <3>2. CASE q # p \/ v # u
      BY <2>4, <3>0, <3>2 DEF EvidencePerDispute
    <3>3. QED
      BY <3>1, <3>2
  <2>6. \A e \in evidences' : e.actor \in {e.runner, orderer'[e.proposal]}
    BY <2>1, <2>2 DEF EvidencePerDispute
  <2>7. \A e, f \in evidences' : e.proposal = f.proposal => e = f
    BY <2>1, <2>3 DEF EvidencePerDispute
  <2>8. QED
    BY <2>5, <2>6, <2>7 DEF EvidencePerDispute
<1>4. CASE /\ UNCHANGED evidences
           /\ \A p \in Proposals, u \in Users :
                offerStatus'[p][u] = "DISPUTED" => offerStatus[p][u] = "DISPUTED"
  <2>1. \A p \in Proposals, u \in Users :
            (offerStatus'[p][u] \in {"DISPUTED", "RESOLVED"}) <=>
                (offerStatus[p][u] \in {"DISPUTED", "RESOLVED"})
    BY <1>2, <1>4 DEF OfferMoves, OfferTransitions
  <2>2. QED
    BY <1>1, <1>4, <2>1 DEF EvidencePerDispute
<1>5. QED
  BY <1>3, <1>4, NextEvidence

(* Each dispute has one row of evidence, by a party, and nothing else has one. *)
THEOREM EvidenceCorrect == Spec => []EvidencePerDispute
<1>1. TypeOK /\ CoreInv /\ [Next]_vars => TypeOK' /\ CoreInv'
  BY NextType, NextCore
<1>2. QED
  BY <1>1, InitType, InitCore, InitEvidence, NextEvidencePerDispute, PTL DEF Spec

--------------------------------------------------------------------------------
(* The parts of the execution core.                                            *)

(* The two records of an execution are always at matching stages.              *)
THEOREM StagesCorrect == Spec => []StatusesAgree
  BY CoreCorrect, PTL

(* Offers wait only where they can still be accepted, under another's proposal. *)
THEOREM WaitingCorrect == Spec => []OffersWaitOnlyWhenOffered
  BY CoreCorrect, PTL

--------------------------------------------------------------------------------
(* Withdrawal.                                                                 *)

(* A deleted account makes no proposal and no offer, and hears of nothing.     *)
Inactive(u) ==
    /\ deleted'[u] /\ ~alarmEnabled'[u]
    /\ \A n \in notifications' : n.user = u => n \in notifications
    /\ \A p \in Proposals :
          /\ proposalStatus[p] = "ABSENT" => orderer'[p] # u
          /\ offerStatus[p][u] = "ABSENT" => offerStatus'[p][u] = "ABSENT"

LEMMA DeletedIsInactive ==
  ASSUME TypeOK, [Next]_vars, NEW w \in Users, deleted[w], ~alarmEnabled[w]
  PROVE  Inactive(w)
<1> USE NoUserAssumption DEF Inactive
<1>0. ASSUME UNCHANGED <<deleted, alarmEnabled, orderer>>,
             \E notes : notifications' = notifications \cup IfAlarmEnabled(notes),
             \A p \in Proposals : offerStatus[p][w] = "ABSENT" => offerStatus'[p][w] = "ABSENT"
      PROVE  Inactive(w)
  BY <1>0 DEF TypeOK, IfAlarmEnabled
<1>1. ASSUME UNCHANGED <<deleted, alarmEnabled, orderer, offerStatus, notifications>>
      PROVE  Inactive(w)
  BY <1>1 DEF TypeOK
<1>17. ASSUME NEW p \in Proposals, offerStatus' = WaitingOffersBecome(p, "REJECTED", {}),
              UNCHANGED <<deleted, alarmEnabled, orderer, notifications>>
       PROVE  Inactive(w)
  <2>1. /\ \A q \in Proposals : q # p => offerStatus'[q] = offerStatus[q]
        /\ Settled(p, w)
    BY <1>17, RejectWaiting
  <2>2. \A q \in Proposals : offerStatus[q][w] = "ABSENT" => offerStatus'[q][w] = "ABSENT"
    BY <2>1 DEF Settled
  <2>3. QED
    BY <1>17, <2>2 DEF TypeOK
<1>2. ASSUME NEW p \in Proposals, NEW u \in Users, NEW fee \in Fees, CreateProposal(p, u, fee)
      PROVE  Inactive(w)
  BY <1>2 DEF CreateProposal, CanCreateProposal, CreateProposalWrites, TypeOK
<1>3. ASSUME NEW p \in Proposals, NEW fee \in Fees, UpdateProposal(p, fee) PROVE Inactive(w)
  BY <1>1, <1>3 DEF UpdateProposal, UpdateProposalWrites
<1>4. ASSUME NEW p \in Proposals, CancelProposal(p) PROVE Inactive(w)
  <2>1. /\ UNCHANGED <<deleted, alarmEnabled, orderer, notifications>>
        /\ UNCHANGED offerStatus \/ offerStatus' = WaitingOffersBecome(p, "REJECTED", {})
    BY <1>4 DEF CancelProposal, CancelProposalWrites
  <2>2. QED
    BY <1>1, <1>17, <2>1
<1>5. ASSUME NEW p \in Proposals, ConfirmPayment(p) PROVE Inactive(w)
  BY <1>1, <1>5 DEF ConfirmPayment, ConfirmPaymentWrites
<1>6. ASSUME NEW p \in Proposals, NEW u \in Users, CreateReport(p, u) \/ RejectReport(p, u)
      PROVE  Inactive(w)
  BY <1>1, <1>6 DEF CreateReport, CreateReportWrites, RejectReport, RejectReportWrites
<1>7. ASSUME NEW p \in Proposals, NEW u \in Users, AcceptReport(p, u) PROVE Inactive(w)
  <2>1. /\ UNCHANGED <<deleted, alarmEnabled, orderer, notifications>>
        /\ UNCHANGED offerStatus \/ offerStatus' = WaitingOffersBecome(p, "REJECTED", {})
    BY <1>7 DEF AcceptReport, AcceptReportWrites
  <2>2. QED
    BY <1>1, <1>17, <2>1
<1>8. ASSUME NEW p \in Proposals, NEW u \in Users, CreateOffer(p, u) PROVE Inactive(w)
  BY <1>0, <1>8 DEF CreateOffer, CanCreateOffer, CreateOfferWrites, Publish, OnOfferCreated, TypeOK
<1>9. ASSUME NEW p \in Proposals, NEW u \in Users, CancelOffer(p, u) PROVE Inactive(w)
  BY <1>9 DEF CancelOffer, CanCancelOffer, CancelOfferWrites, TypeOK
<1>10. ASSUME NEW p \in Proposals, NEW u \in Users, AcceptOffer(p, u) PROVE Inactive(w)
  <2>1. /\ UNCHANGED <<deleted, alarmEnabled, orderer>> /\ offerStatus[p][u] = "WAITING"
        /\ \E notes : notifications' = notifications \cup IfAlarmEnabled(notes)
    BY <1>10 DEF AcceptOffer, CanAcceptOffer, AcceptOfferWrites, Publish, OnOfferAccepted
  <2>2. QED
    BY <1>0, <1>10, <2>1, AcceptOfferRow
<1>11. ASSUME NEW p \in Proposals, NEW u \in Users, CompleteDelivery(p, u) \/ ConfirmReceived(p, u)
       PROVE  Inactive(w)
  <2>1. /\ UNCHANGED <<deleted, alarmEnabled, orderer>>
        /\ \E notes : notifications' = notifications \cup IfAlarmEnabled(notes)
    BY <1>11 DEF CompleteDelivery, CompleteDeliveryWrites, ConfirmReceived, ConfirmReceivedWrites,
                 Publish, OnMeetingConfirmedByRunner, OnMeetingConfirmedByOrderer
  <2>2. offerStatus[p][u] # "ABSENT"
    BY <1>11 DEF CompleteDelivery, CanCompleteDelivery, ConfirmReceived, CanConfirmReceived
  <2>3. \/ UNCHANGED offerStatus
        \/ offerStatus' = [offerStatus EXCEPT ![p][u] = "ALL_COMPLETED"]
        \/ offerStatus' = [offerStatus EXCEPT ![p][u] = "RUNNER_COMPLETED"]
    BY <1>11, CompleteDeliveryLast, CompleteDeliveryFirst, ConfirmReceivedLast,
       ConfirmReceivedFirst
  <2>4. \A q \in Proposals : offerStatus[q][w] = "ABSENT" => offerStatus'[q][w] = "ABSENT"
    <3>1. ASSUME NEW to, offerStatus' = [offerStatus EXCEPT ![p][u] = to],
                 NEW q \in Proposals, offerStatus[q][w] = "ABSENT"
          PROVE  offerStatus'[q][w] = "ABSENT"
      BY <2>2, <3>1 DEF TypeOK
    <3>2. QED
      BY <2>3, <3>1
  <2>5. QED
    BY <1>0, <2>1, <2>4
<1>12. ASSUME NEW p \in Proposals, NEW u \in Users,
              RaiseDisputeByRunner(p, u) \/ RaiseDisputeByOrderer(p, u)
       PROVE  Inactive(w)
  <2>1. /\ UNCHANGED <<deleted, alarmEnabled, orderer>>
        /\ \E notes : notifications' = notifications \cup IfAlarmEnabled(notes)
        /\ offerStatus[p][u] # "ABSENT"
        /\ offerStatus' = [offerStatus EXCEPT ![p][u] = "DISPUTED"]
    BY <1>12 DEF RaiseDisputeByRunner, RaiseDisputeByOrderer, CanRaiseDispute, RaiseDisputeWrites,
                 Publish, OnDisputeRaisedByRunner, OnDisputeRaisedByOrderer
  <2>2. QED
    BY <1>0, <2>1 DEF TypeOK
<1>13. ASSUME NEW p \in Proposals, NEW u \in Users, Resolve(p, u) PROVE Inactive(w)
  BY <1>13 DEF Resolve, CanResolve, ResolveWrites, TypeOK
<1>14. ASSUME NEW u \in AlarmUsers, NEW enabled \in BOOLEAN, UpdateAlarm(u, enabled)
       PROVE  Inactive(w)
  BY <1>14 DEF UpdateAlarm, CanUpdateAlarm, UpdateAlarmWrites, TypeOK
<1>15. ASSUME NEW u \in Users, WithdrawUser(u) PROVE Inactive(w)
  BY <1>15 DEF WithdrawUser, CanWithdrawUser, WithdrawUserWrites, DeleteNotifications,
               WaitingOffersTouched, TypeOK
<1>16. CASE UNCHANGED vars
  BY <1>1, <1>16 DEF vars
<1>18. QED
  BY <1>2, <1>3, <1>4, <1>5, <1>6, <1>7, <1>8, <1>9, <1>10, <1>11, <1>12, <1>13, <1>14, <1>15,
     <1>16 DEF Next

(* Only a withdrawal deletes an account.                                       *)
LEMMA OnlyWithdrawalDeletes ==
  ASSUME TypeOK, [Next]_vars, NEW w \in Users, ~deleted[w], deleted'[w]
  PROVE  WithdrawUser(w)
<1>1. ASSUME NEW u \in Users, WithdrawUser(u) PROVE u = w
  BY <1>1 DEF WithdrawUser, WithdrawUserWrites, TypeOK
<1>2. CASE UNCHANGED vars
  BY <1>2 DEF vars
<1>3. ASSUME NEW p \in Proposals,
             \/ \E u \in Users, fee \in Fees : CreateProposal(p, u, fee)
             \/ \E fee \in Fees : UpdateProposal(p, fee)
             \/ CancelProposal(p) \/ ConfirmPayment(p)
      PROVE  UNCHANGED deleted
  BY <1>3 DEF CreateProposal, CreateProposalWrites, UpdateProposal, UpdateProposalWrites,
              CancelProposal, CancelProposalWrites, ConfirmPayment, ConfirmPaymentWrites
<1>4. ASSUME NEW p \in Proposals, NEW u \in Users,
             CreateReport(p, u) \/ AcceptReport(p, u) \/ RejectReport(p, u)
      PROVE  UNCHANGED deleted
  BY <1>4 DEF CreateReport, CreateReportWrites, AcceptReport, AcceptReportWrites, RejectReport,
              RejectReportWrites
<1>5. ASSUME NEW p \in Proposals, NEW u \in Users,
             CreateOffer(p, u) \/ CancelOffer(p, u) \/ AcceptOffer(p, u)
      PROVE  UNCHANGED deleted
  BY <1>5 DEF CreateOffer, CreateOfferWrites, CancelOffer, CancelOfferWrites, AcceptOffer,
              AcceptOfferWrites
<1>6. ASSUME NEW p \in Proposals, NEW u \in Users, CompleteDelivery(p, u) \/ ConfirmReceived(p, u)
      PROVE  UNCHANGED deleted
  BY <1>6 DEF CompleteDelivery, CompleteDeliveryWrites, ConfirmReceived, ConfirmReceivedWrites
<1>7. ASSUME NEW p \in Proposals, NEW u \in Users,
             RaiseDisputeByRunner(p, u) \/ RaiseDisputeByOrderer(p, u) \/ Resolve(p, u)
      PROVE  UNCHANGED deleted
  BY <1>7 DEF RaiseDisputeByRunner, RaiseDisputeByOrderer, RaiseDisputeWrites, Resolve,
              ResolveWrites
<1>8. ASSUME NEW u \in AlarmUsers, NEW enabled \in BOOLEAN, UpdateAlarm(u, enabled)
      PROVE  UNCHANGED deleted
  BY <1>8 DEF UpdateAlarm, UpdateAlarmWrites
<1>9. QED
  BY <1>1, <1>2, <1>3, <1>4, <1>5, <1>6, <1>7, <1>8 DEF Next

LEMMA InitInert == Init => WithdrawnIsInert
  BY DEF Init, WithdrawnIsInert

LEMMA NextInert == TypeOK /\ WithdrawnIsInert /\ [Next]_vars => WithdrawnIsInert'
<1> SUFFICES ASSUME TypeOK, WithdrawnIsInert, [Next]_vars, NEW u \in Users, deleted'[u]
             PROVE  /\ ~alarmEnabled'[u]
                    /\ \A n \in notifications' : n.user # u
                    /\ \A p \in Proposals :
                        /\ orderer'[p] = u => proposalStatus'[p] \notin
                             CancellableStatuses \cup WithdrawalBlockingProposalStatuses
                        /\ offerStatus'[p][u] \notin {"WAITING"} \cup WithdrawalBlockingOfferStatuses
  BY DEF WithdrawnIsInert
<1>1. CASE deleted[u]
  <2>1. /\ ~alarmEnabled[u]
        /\ \A n \in notifications : n.user # u
        /\ \A p \in Proposals :
            /\ orderer[p] = u => proposalStatus[p] \notin
                 CancellableStatuses \cup WithdrawalBlockingProposalStatuses
            /\ offerStatus[p][u] \notin {"WAITING"} \cup WithdrawalBlockingOfferStatuses
    BY <1>1 DEF WithdrawnIsInert
  <2>2. Inactive(u)
    BY <1>1, <2>1, DeletedIsInactive
  <2>3. ASSUME NEW p \in Proposals, orderer'[p] = u
        PROVE  proposalStatus'[p] \notin CancellableStatuses \cup WithdrawalBlockingProposalStatuses
    <3>1. proposalStatus[p] # "ABSENT"
      BY <2>2, <2>3 DEF Inactive
    <3>2. proposalStatus[p] \notin CancellableStatuses \cup WithdrawalBlockingProposalStatuses
      BY <2>1, <2>3, <3>1, OrdererKept
    <3>3. ProposalMoves(p)
      BY NextMoves
    <3>4. QED
      BY <3>1, <3>2, <3>3
         DEF ProposalMoves, ProposalTransitions, OpenProposalStatuses, CancellableStatuses,
             WithdrawalBlockingProposalStatuses, TypeOK
  <2>4. ASSUME NEW p \in Proposals
        PROVE  offerStatus'[p][u] \notin {"WAITING"} \cup WithdrawalBlockingOfferStatuses
    <3>1. OfferMoves(p, u)
      BY NextMoves
    <3>2. offerStatus[p][u] = "ABSENT" => offerStatus'[p][u] = "ABSENT"
      BY <2>2 DEF Inactive
    <3>3. QED
      BY <2>1, <3>1, <3>2 DEF OfferMoves, OfferTransitions, WithdrawalBlockingOfferStatuses, TypeOK
  <2>5. QED
    BY <2>1, <2>2, <2>3, <2>4 DEF Inactive
<1>2. CASE ~deleted[u]
  <2>1. WithdrawUser(u)
    BY <1>2, OnlyWithdrawalDeletes
  <2>2. ~HasBlockingActivity(u)
    BY <2>1 DEF WithdrawUser, CanWithdrawUser
  <2>3. ~alarmEnabled'[u] /\ \A n \in notifications' : n.user # u
    BY <2>1 DEF WithdrawUser, WithdrawUserWrites, DeleteNotifications, TypeOK
  <2>4. ASSUME NEW p \in Proposals
        PROVE  /\ orderer'[p] = u => proposalStatus'[p] \notin
                     CancellableStatuses \cup WithdrawalBlockingProposalStatuses
               /\ offerStatus'[p][u] \notin {"WAITING"} \cup WithdrawalBlockingOfferStatuses
    <3>1. orderer[p] = u => proposalStatus[p] \notin WithdrawalBlockingProposalStatuses
      BY <2>2 DEF HasBlockingActivity
    <3>2. offerStatus[p][u] \notin WithdrawalBlockingOfferStatuses
      BY <2>2 DEF HasBlockingActivity
    <3>3. /\ orderer'[p] = orderer[p]
          /\ proposalStatus'[p] = IF p \in PreMatchProposals(u) THEN "CANCELLED"
                                  ELSE proposalStatus[p]
          /\ offerStatus'[p][u] = IF <<p, u>> \in WaitingOffersTouched(u) THEN "CANCELLED"
                                  ELSE offerStatus[p][u]
      BY <2>1 DEF WithdrawUser, WithdrawUserWrites
    <3>4. orderer[p] = u => proposalStatus'[p] \notin
                     CancellableStatuses \cup WithdrawalBlockingProposalStatuses
      BY <3>1, <3>3 DEF PreMatchProposals, CancellableStatuses, WithdrawalBlockingProposalStatuses
    <3>5. offerStatus'[p][u] \notin {"WAITING"} \cup WithdrawalBlockingOfferStatuses
      BY <3>2, <3>3 DEF WaitingOffersTouched, WithdrawalBlockingOfferStatuses
    <3>6. QED
      BY <3>3, <3>4, <3>5
  <2>5. QED
    BY <2>3, <2>4
<1>3. QED
  BY <1>1, <1>2

(* Nothing open is left of a withdrawn account, and nothing opens again.       *)
THEOREM WithdrawalCorrect == Spec => []WithdrawnIsInert
  BY InitInert, NextInert, TypeCorrect, PTL DEF Spec

================================================================================
