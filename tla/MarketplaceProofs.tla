--------------------------- MODULE MarketplaceProofs ---------------------------
(* Theorems about Marketplace, for any users, proposals and fees.              *)
EXTENDS MarketplaceProperties, TLAPS

USE DEF userVars, proposalVars, offerVars

--------------------------------------------------------------------------------
(* Type correctness.                                                           *)

LEMMA InitType == Init => TypeOK
<1> SUFFICES ASSUME Init PROVE TypeOK
  OBVIOUS
<1>1. NoStamps \in [Sides -> Stamps]
  BY DEF NoStamps, Stamps, Sides
<1>2. alarmEnabled \in [Users -> BOOLEAN]
  <2>1. PICK on \in SUBSET AlarmUsers : alarmEnabled = [u \in Users |-> u \in on]
    BY DEF Init
  <2>2. \A u \in Users : (u \in on) \in BOOLEAN
    OBVIOUS
  <2>3. QED
    BY <2>1, <2>2
<1>3. QED
  BY <1>1, <1>2, NoUserAssumption DEF Init, TypeOK

(* The bulk update of the waiting offers of one proposal keeps the table typed. *)
LEMMA WaitingOffersBecomeType ==
  ASSUME TypeOK, NEW p \in Proposals, NEW to \in OfferStatus, NEW except
  PROVE  WaitingOffersBecome(p, to, except)
            \in [Proposals -> [Users -> OfferStatus \cup {"ABSENT"}]]
  BY DEF TypeOK, WaitingOffersBecome

(* What a handler publishes are well-formed rows. *)
LEMMA NoteType ==
  ASSUME NEW type \in NotificationTypes, NEW u \in Users, NEW p \in Proposals, NEW r \in Users
  PROVE  Note(type, u, p, r) \in [type : NotificationTypes, user : Users,
                                  proposal : Proposals, runner : Users]
  BY DEF Note

(* The two outcomes of a confirmation, column by column: the other side has    *)
(* confirmed before, or it has not.                                            *)
LEMMA CompleteDeliveryLast ==
  ASSUME NEW p \in Proposals, NEW u \in Users, CompleteDelivery(p, u),
         proposalStatus[p] = "ORDER_COMPLETED"
  PROVE  /\ proposalStatus' = [proposalStatus EXCEPT ![p] = "ALL_COMPLETED"]
         /\ offerStatus' = [offerStatus EXCEPT ![p][u] = "ALL_COMPLETED"]
         /\ level' = [level EXCEPT ![u] = level[u] + 1]
         /\ offerStamps' = [offerStamps EXCEPT ![p][u] = [side \in Sides |-> "complete_delivery"]]
  BY DEF CompleteDelivery, CompleteDeliveryWrites, MarkAllCompleted

LEMMA CompleteDeliveryFirst ==
  ASSUME NEW p \in Proposals, NEW u \in Users, CompleteDelivery(p, u),
         proposalStatus[p] # "ORDER_COMPLETED"
  PROVE  /\ UNCHANGED <<proposalStatus, level>>
         /\ offerStatus' = [offerStatus EXCEPT ![p][u] = "RUNNER_COMPLETED"]
         /\ offerStamps' = [offerStamps EXCEPT ![p][u]["runner"] = "complete_delivery"]
  BY DEF CompleteDelivery, CompleteDeliveryWrites

LEMMA ConfirmReceivedLast ==
  ASSUME NEW p \in Proposals, NEW u \in Users, ConfirmReceived(p, u),
         offerStatus[p][u] = "RUNNER_COMPLETED"
  PROVE  /\ proposalStatus' = [proposalStatus EXCEPT ![p] = "ALL_COMPLETED"]
         /\ offerStatus' = [offerStatus EXCEPT ![p][u] = "ALL_COMPLETED"]
         /\ level' = [level EXCEPT ![u] = level[u] + 1]
  BY DEF ConfirmReceived, ConfirmReceivedWrites, MarkAllCompleted

LEMMA ConfirmReceivedFirst ==
  ASSUME NEW p \in Proposals, NEW u \in Users, ConfirmReceived(p, u),
         offerStatus[p][u] # "RUNNER_COMPLETED"
  PROVE  /\ proposalStatus' = [proposalStatus EXCEPT ![p] = "ORDER_COMPLETED"]
         /\ UNCHANGED <<offerStatus, level>>
  BY DEF ConfirmReceived, ConfirmReceivedWrites

LEMMA NextType == TypeOK /\ [Next]_vars => TypeOK'
<1> SUFFICES ASSUME TypeOK, [Next]_vars PROVE TypeOK'
  OBVIOUS
<1> USE NoUserAssumption
<1>1. ASSUME NEW p \in Proposals, NEW u \in Users, NEW fee \in Fees, CreateProposal(p, u, fee)
      PROVE  TypeOK'
  BY <1>1 DEF TypeOK, CreateProposal, CreateProposalWrites, CanCreateProposal, ProposalStatus
<1>2. ASSUME NEW p \in Proposals, NEW fee \in Fees, UpdateProposal(p, fee)
      PROVE  TypeOK'
  BY <1>2 DEF TypeOK, UpdateProposal, CanUpdateProposal, UpdateProposalWrites, ProposalStatus,
              OwnerCalls
<1>3. ASSUME NEW p \in Proposals, CancelProposal(p)
      PROVE  TypeOK'
  <2>1. offerStatus' \in [Proposals -> [Users -> OfferStatus \cup {"ABSENT"}]]
    BY <1>3, WaitingOffersBecomeType DEF CancelProposal, CancelProposalWrites, OfferStatus, TypeOK
  <2>2. QED
    BY <1>3, <2>1 DEF TypeOK, CancelProposal, CancelProposalWrites, CanCancelProposal, OwnerCalls,
                      ProposalStatus
<1>4. ASSUME NEW p \in Proposals, ConfirmPayment(p)
      PROVE  TypeOK'
  BY <1>4 DEF TypeOK, ConfirmPayment, CanConfirmPayment, ConfirmPaymentWrites, ProposalStatus
<1>5. ASSUME NEW p \in Proposals, NEW u \in Users, CreateReport(p, u)
      PROVE  TypeOK'
  BY <1>5 DEF TypeOK, CreateReport, CanCreateReport, CreateReportWrites, ReportStatus
<1>6. ASSUME NEW p \in Proposals, NEW u \in Users, AcceptReport(p, u)
      PROVE  TypeOK'
  <2>1. offerStatus' \in [Proposals -> [Users -> OfferStatus \cup {"ABSENT"}]]
    BY <1>6, WaitingOffersBecomeType DEF AcceptReport, AcceptReportWrites, OfferStatus, TypeOK
  <2>2. QED
    BY <1>6, <2>1 DEF TypeOK, AcceptReport, AcceptReportWrites, CanAcceptReport, ReportStatus,
                      ProposalStatus, OpenProposalStatuses
<1>7. ASSUME NEW p \in Proposals, NEW u \in Users, RejectReport(p, u)
      PROVE  TypeOK'
  BY <1>7 DEF TypeOK, RejectReport, CanRejectReport, RejectReportWrites, ReportStatus
<1>8. ASSUME NEW p \in Proposals, NEW u \in Users, CreateOffer(p, u)
      PROVE  TypeOK'
  <2>1. orderer[p] \in Users
    BY <1>8 DEF TypeOK, CreateOffer, CanCreateOffer, OpenProposalStatuses
  <2>2. OnOfferCreated(p, u) \subseteq [type : NotificationTypes, user : Users,
                                        proposal : Proposals, runner : Users]
    BY <2>1, NoteType DEF OnOfferCreated, IfAlarmEnabled, NotificationTypes
  <2>3. QED
    BY <1>8, <2>2 DEF TypeOK, CreateOffer, CanCreateOffer, CreateOfferWrites, Publish,
                      OpenProposalStatuses, ProposalStatus, OfferStatus
<1>9. ASSUME NEW p \in Proposals, NEW u \in Users, CancelOffer(p, u)
      PROVE  TypeOK'
  BY <1>9 DEF TypeOK, CancelOffer, CanCancelOffer, CancelOfferWrites, OfferStatus
<1>10. ASSUME NEW p \in Proposals, NEW u \in Users, AcceptOffer(p, u)
       PROVE  TypeOK'
  <2>1. RejectedRunners(p, u) \subseteq Users
    BY DEF RejectedRunners
  <2>2. OnOfferAccepted(p, u, RejectedRunners(p, u)) \subseteq
            [type : NotificationTypes, user : Users, proposal : Proposals, runner : Users]
    BY <2>1, NoteType DEF OnOfferAccepted, IfAlarmEnabled, NotificationTypes
  <2>3. offerStatus' \in [Proposals -> [Users -> OfferStatus \cup {"ABSENT"}]]
    BY <1>10, WaitingOffersBecomeType DEF AcceptOffer, AcceptOfferWrites, OfferStatus
  <2>4. QED
    BY <1>10, <2>2, <2>3 DEF TypeOK, AcceptOffer, AcceptOfferWrites, CanAcceptOffer, OwnerCalls,
                             Publish, ProposalStatus
<1>11. ASSUME NEW p \in Proposals, NEW u \in Users, CompleteDelivery(p, u)
       PROVE  TypeOK'
  <2>1. orderer[p] \in Users
    BY <1>11 DEF TypeOK, CompleteDelivery, CanCompleteDelivery
  <2>2. OnMeetingConfirmedByRunner(p, u) \subseteq
            [type : NotificationTypes, user : Users, proposal : Proposals, runner : Users]
    BY <2>1, NoteType DEF OnMeetingConfirmedByRunner, IfAlarmEnabled, NotificationTypes
  <2>3. proposalStamps' \in [Proposals -> [Sides -> Stamps]]
    BY <1>11 DEF TypeOK, CompleteDelivery, CompleteDeliveryWrites, Stamps, Sides
  <2>4. offerStamps' \in [Proposals -> [Users -> [Sides -> Stamps]]]
    <3>1. offerStamps \in [Proposals -> [Users -> [Sides -> Stamps]]]
      BY DEF TypeOK
    <3>2. "runner" \in Sides /\ "complete_delivery" \in Stamps
      BY DEF Sides, Stamps
    <3>3. CASE proposalStatus[p] = "ORDER_COMPLETED"
      <4>1. offerStamps' = [offerStamps EXCEPT ![p][u] = [side \in Sides |-> "complete_delivery"]]
        BY <1>11, <3>3, CompleteDeliveryLast
      <4>2. QED
        BY <3>1, <3>2, <4>1
    <3>4. CASE ~(proposalStatus[p] = "ORDER_COMPLETED")
      <4>1. offerStamps' = [offerStamps EXCEPT ![p][u]["runner"] = "complete_delivery"]
        BY <1>11, <3>4, CompleteDeliveryFirst
      <4>2. QED
        BY <3>1, <3>2, <4>1
    <3>5. QED
      BY <3>3, <3>4
  <2>5. /\ proposalStatus' \in [Proposals -> ProposalStatus \cup {"ABSENT"}]
        /\ offerStatus' \in [Proposals -> [Users -> OfferStatus \cup {"ABSENT"}]]
        /\ level' \in [Users -> Nat]
        /\ \A q \in Proposals : (orderer[q] = NoUser) <=> (proposalStatus'[q] = "ABSENT")
    <3>1. CASE proposalStatus[p] = "ORDER_COMPLETED"
      <4>1. /\ proposalStatus' = [proposalStatus EXCEPT ![p] = "ALL_COMPLETED"]
            /\ offerStatus' = [offerStatus EXCEPT ![p][u] = "ALL_COMPLETED"]
            /\ level' = [level EXCEPT ![u] = level[u] + 1]
        BY <1>11, <3>1, CompleteDeliveryLast
      <4>2. QED
        BY <2>1, <4>1 DEF TypeOK, ProposalStatus, OfferStatus
    <3>2. CASE ~(proposalStatus[p] = "ORDER_COMPLETED")
      <4>1. /\ UNCHANGED <<proposalStatus, level>>
            /\ offerStatus' = [offerStatus EXCEPT ![p][u] = "RUNNER_COMPLETED"]
        BY <1>11, <3>2, CompleteDeliveryFirst
      <4>2. QED
        BY <2>1, <4>1 DEF TypeOK, ProposalStatus, OfferStatus
    <3>3. QED
      BY <3>1, <3>2
  <2>6. QED
    BY <1>11, <2>2, <2>3, <2>4, <2>5 DEF TypeOK, CompleteDelivery, CompleteDeliveryWrites, MarkAllCompleted, Publish
<1>12. ASSUME NEW p \in Proposals, NEW u \in Users, ConfirmReceived(p, u)
       PROVE  TypeOK'
  <2>1. orderer[p] \in Users
    BY <1>12 DEF ConfirmReceived, CanConfirmReceived, OwnerCalls
  <2>2. OnMeetingConfirmedByOrderer(p, u) \subseteq
            [type : NotificationTypes, user : Users, proposal : Proposals, runner : Users]
    BY <2>1, NoteType DEF OnMeetingConfirmedByOrderer, IfAlarmEnabled, NotificationTypes
  <2>3. proposalStamps' \in [Proposals -> [Sides -> Stamps]]
    BY <1>12 DEF TypeOK, ConfirmReceived, ConfirmReceivedWrites, Stamps, Sides
  <2>4. offerStamps' \in [Proposals -> [Users -> [Sides -> Stamps]]]
    BY <1>12 DEF TypeOK, ConfirmReceived, ConfirmReceivedWrites, Stamps, Sides
  <2>5. /\ proposalStatus' \in [Proposals -> ProposalStatus \cup {"ABSENT"}]
        /\ offerStatus' \in [Proposals -> [Users -> OfferStatus \cup {"ABSENT"}]]
        /\ level' \in [Users -> Nat]
        /\ \A q \in Proposals : (orderer[q] = NoUser) <=> (proposalStatus'[q] = "ABSENT")
    <3>1. CASE offerStatus[p][u] = "RUNNER_COMPLETED"
      <4>1. /\ proposalStatus' = [proposalStatus EXCEPT ![p] = "ALL_COMPLETED"]
            /\ offerStatus' = [offerStatus EXCEPT ![p][u] = "ALL_COMPLETED"]
            /\ level' = [level EXCEPT ![u] = level[u] + 1]
        BY <1>12, <3>1, ConfirmReceivedLast
      <4>2. QED
        BY <2>1, <4>1 DEF TypeOK, ProposalStatus, OfferStatus
    <3>2. CASE ~(offerStatus[p][u] = "RUNNER_COMPLETED")
      <4>1. /\ proposalStatus' = [proposalStatus EXCEPT ![p] = "ORDER_COMPLETED"]
            /\ UNCHANGED <<offerStatus, level>>
        BY <1>12, <3>2, ConfirmReceivedFirst
      <4>2. QED
        BY <2>1, <4>1 DEF TypeOK, ProposalStatus, OfferStatus
    <3>3. QED
      BY <3>1, <3>2
  <2>6. QED
    BY <1>12, <2>2, <2>3, <2>4, <2>5 DEF TypeOK, ConfirmReceived, ConfirmReceivedWrites, MarkAllCompleted, Publish
<1>13. ASSUME NEW p \in Proposals, NEW u \in Users, NEW actor \in Users, NEW notes,
              notes \subseteq [type : NotificationTypes, user : Users,
                               proposal : Proposals, runner : Users],
              CanRaiseDispute(p, u), RaiseDisputeWrites(p, u, actor), Publish(notes)
       PROVE  TypeOK'
  BY <1>13 DEF TypeOK, CanRaiseDispute, RaiseDisputeWrites, Publish, ProposalStatus, OfferStatus
<1>14. ASSUME NEW p \in Proposals, NEW u \in Users, RaiseDisputeByRunner(p, u)
       PROVE  TypeOK'
  <2>1. orderer[p] \in Users
    BY <1>14 DEF TypeOK, RaiseDisputeByRunner, CanRaiseDispute
  <2>2. OnDisputeRaisedByRunner(p, u) \subseteq
            [type : NotificationTypes, user : Users, proposal : Proposals, runner : Users]
    BY <2>1, NoteType DEF OnDisputeRaisedByRunner, IfAlarmEnabled, NotificationTypes
  <2>3. QED
    BY <1>13, <1>14, <2>2 DEF RaiseDisputeByRunner
<1>15. ASSUME NEW p \in Proposals, NEW u \in Users, RaiseDisputeByOrderer(p, u)
       PROVE  TypeOK'
  <2>1. orderer[p] \in Users
    BY <1>15 DEF RaiseDisputeByOrderer, OwnerCalls
  <2>2. OnDisputeRaisedByOrderer(p, u) \subseteq
            [type : NotificationTypes, user : Users, proposal : Proposals, runner : Users]
    BY NoteType DEF OnDisputeRaisedByOrderer, IfAlarmEnabled, NotificationTypes
  <2>3. QED
    BY <1>13, <1>15, <2>1, <2>2 DEF RaiseDisputeByOrderer
<1>16. ASSUME NEW p \in Proposals, NEW u \in Users, Resolve(p, u)
       PROVE  TypeOK'
  BY <1>16 DEF TypeOK, Resolve, CanResolve, ResolveWrites, ProposalStatus, OfferStatus
<1>17. ASSUME NEW u \in AlarmUsers, NEW enabled \in BOOLEAN, UpdateAlarm(u, enabled)
       PROVE  TypeOK'
  BY <1>17 DEF TypeOK, UpdateAlarm, UpdateAlarmWrites
<1>18. ASSUME NEW u \in Users, WithdrawUser(u)
       PROVE  TypeOK'
  BY <1>18 DEF TypeOK, WithdrawUser, DeleteNotifications, WithdrawUserWrites, PreMatchProposals, CancellableStatuses,
               ProposalStatus, OfferStatus
<1>19. CASE UNCHANGED vars
  BY <1>19 DEF TypeOK, vars
<1>20. QED
  BY <1>1, <1>2, <1>3, <1>4, <1>5, <1>6, <1>7, <1>8, <1>9, <1>10, <1>11, <1>12, <1>14, <1>15,
     <1>16, <1>17, <1>18, <1>19 DEF Next

(* Type correctness of the tables: every request leaves columns in their       *)
(* domains, and a proposal has an orderer exactly when its row exists.         *)
THEOREM TypeCorrect == Spec => []TypeOK
  BY InitType, NextType, PTL DEF Spec

--------------------------------------------------------------------------------
(* The execution core.  One row at a time: a request touches the offers and    *)
(* the status of one proposal, except a withdrawal, which touches many.        *)

RowCore(p) ==
    /\ \A u, v \in Users : Engaged(p, u) /\ Engaged(p, v) => u = v
    /\ \A u \in Users : Engaged(p, u) =>
            <<proposalStatus[p], offerStatus[p][u]>> \in ExecutionStages
    /\ proposalStatus[p] \in MatchedProposalStatuses => \E u \in Users : Engaged(p, u)
    /\ \A u \in Users :
            /\ offerStatus[p][u] = "WAITING" => proposalStatus[p] = "OFFERED"
            /\ offerStatus[p][u] # "ABSENT" =>
                    /\ proposalStatus[p] \notin {"ABSENT", "HOLDING", "POSTED"}
                    /\ orderer[p] # u

CoreInv == SingleExecution /\ StatusesAgree /\ OffersWaitOnlyWhenOffered

LEMMA CoreByRows == CoreInv <=> \A p \in Proposals : RowCore(p)
  BY DEF CoreInv, RowCore, SingleExecution, StatusesAgree, OffersWaitOnlyWhenOffered

LEMMA CoreByRowsNext == CoreInv' <=> \A p \in Proposals : RowCore(p)'
  BY DEF CoreInv, RowCore, SingleExecution, StatusesAgree, OffersWaitOnlyWhenOffered

(* A row no column of which changes keeps its part of the invariant. *)
LEMMA SameRow ==
  ASSUME NEW p \in Proposals, RowCore(p), proposalStatus'[p] = proposalStatus[p],
         offerStatus'[p] = offerStatus[p], orderer'[p] = orderer[p]
  PROVE  RowCore(p)'
  BY DEF RowCore, Engaged

(* The bulk update of the waiting offers, offer by offer. *)
LEMMA WaitingOffersBecomeRow ==
  ASSUME TypeOK, NEW p \in Proposals, NEW to \in OfferStatus, NEW except
  PROVE  /\ \A q \in Proposals : q # p => WaitingOffersBecome(p, to, except)[q] = offerStatus[q]
         /\ \A v \in Users : WaitingOffersBecome(p, to, except)[p][v] =
                IF offerStatus[p][v] = "WAITING" /\ v \notin except
                THEN to ELSE offerStatus[p][v]
  BY DEF TypeOK, WaitingOffersBecome

(* An offer that was not waiting is untouched, one that was is settled.        *)
Settled(p, v) ==
    \/ offerStatus[p][v] # "WAITING" /\ offerStatus'[p][v] = offerStatus[p][v]
    \/ offerStatus[p][v] = "WAITING" /\ offerStatus'[p][v] \in {"REJECTED", "CANCELLED"}

(* The bulk rejection when a recruitment closes: every waiting offer, no other. *)
LEMMA RejectWaiting ==
  ASSUME TypeOK, NEW p \in Proposals, offerStatus' = WaitingOffersBecome(p, "REJECTED", {})
  PROVE  /\ \A q \in Proposals : q # p => offerStatus'[q] = offerStatus[q]
         /\ \A v \in Users : Settled(p, v)
<1> DEFINE W == WaitingOffersBecome(p, "REJECTED", {})
<1>1. "REJECTED" \in OfferStatus
  BY DEF OfferStatus
<1>2. /\ \A q \in Proposals : q # p => W[q] = offerStatus[q]
      /\ \A v \in Users : W[p][v] = IF offerStatus[p][v] = "WAITING" /\ v \notin {}
                                   THEN "REJECTED" ELSE offerStatus[p][v]
  BY <1>1, WaitingOffersBecomeRow
<1> HIDE DEF W
<1>3. offerStatus' = W
  BY DEF W
<1>4. \A v \in Users : offerStatus'[p][v] = IF offerStatus[p][v] = "WAITING"
                                         THEN "REJECTED" ELSE offerStatus[p][v]
  BY <1>2, <1>3
<1>5. QED
  BY <1>2, <1>3, <1>4 DEF Settled

(* The offers after an acceptance, offer by offer. *)
LEMMA AcceptOfferRow ==
  ASSUME TypeOK, NEW p \in Proposals, NEW u \in Users, AcceptOffer(p, u)
  PROVE  /\ \A q \in Proposals : q # p => offerStatus'[q] = offerStatus[q]
         /\ offerStatus'[p][u] = "ACCEPTED"
         /\ \A v \in Users \ {u} : offerStatus'[p][v] =
                IF offerStatus[p][v] = "WAITING" THEN "REJECTED" ELSE offerStatus[p][v]
<1> DEFINE W == WaitingOffersBecome(p, "REJECTED", {u})
<1>1. offerStatus' = [W EXCEPT ![p][u] = "ACCEPTED"]
  BY DEF AcceptOffer, AcceptOfferWrites
<1>2. W \in [Proposals -> [Users -> OfferStatus \cup {"ABSENT"}]]
  BY WaitingOffersBecomeType DEF OfferStatus
<1>3. /\ \A q \in Proposals : q # p => W[q] = offerStatus[q]
      /\ \A v \in Users : W[p][v] = IF offerStatus[p][v] = "WAITING" /\ v \notin {u}
                                   THEN "REJECTED" ELSE offerStatus[p][v]
  BY WaitingOffersBecomeRow DEF OfferStatus
<1> HIDE DEF W
<1>4. QED
  BY <1>1, <1>2, <1>3

(* A step of an execution that moves the proposal and its engaged offer        *)
(* together to another stage.                                                  *)
LEMMA ExecutionStep ==
  ASSUME TypeOK, NEW p \in Proposals, NEW u \in Users, NEW x, NEW y,
         \A q \in Proposals : RowCore(q),
         Engaged(p, u), <<y, x>> \in ExecutionStages,
         proposalStatus' = [proposalStatus EXCEPT ![p] = y],
         offerStatus' = [offerStatus EXCEPT ![p][u] = x],
         UNCHANGED orderer
  PROVE  \A q \in Proposals : RowCore(q)'
<1> SUFFICES ASSUME NEW q \in Proposals PROVE RowCore(q)'
  OBVIOUS
<1>1. CASE q # p
  <2>1. proposalStatus'[q] = proposalStatus[q] /\ offerStatus'[q] = offerStatus[q]
    BY <1>1 DEF TypeOK
  <2>2. QED
    BY <2>1, SameRow
<1>2. CASE q = p
  <2>1. proposalStatus'[p] = y /\ offerStatus'[p][u] = x
    BY DEF TypeOK
  <2>2. \A v \in Users \ {u} : offerStatus'[p][v] = offerStatus[p][v]
    BY DEF TypeOK
  <2>3. /\ offerStatus[p][u] \in EngagedOfferStatuses
        /\ \A v \in Users \ {u} : offerStatus[p][v] \notin EngagedOfferStatuses
        /\ \A v \in Users : offerStatus[p][v] # "ABSENT" => orderer[p] # v
        /\ <<proposalStatus[p], offerStatus[p][u]>> \in ExecutionStages
        /\ \A v \in Users : offerStatus[p][v] = "WAITING" => proposalStatus[p] = "OFFERED"
    BY RowCore(p) DEF RowCore, Engaged
  <2>4. \A v \in Users \ {u} : offerStatus'[p][v] # "WAITING"
    BY <2>2, <2>3 DEF ExecutionStages
  <2>5. /\ x \in EngagedOfferStatuses /\ x # "WAITING" /\ x # "ABSENT"
        /\ y \notin {"ABSENT", "HOLDING", "POSTED"}
    BY DEF ExecutionStages, EngagedOfferStatuses, ActiveOfferStatuses
  <2>6. offerStatus[p][u] # "ABSENT"
    BY <2>3 DEF EngagedOfferStatuses, ActiveOfferStatuses
  <2>7. RowCore(p)'
    BY <2>1, <2>2, <2>3, <2>4, <2>5, <2>6 DEF RowCore, Engaged
  <2>8. QED
    BY <1>2, <2>7
<1>3. QED
  BY <1>1, <1>2

(* A step that closes the recruitment of a proposal without a match.           *)
LEMMA ClosingStep ==
  ASSUME TypeOK, NEW p \in Proposals, NEW y \in {"CANCELLED", "REPORTED"}, RowCore(p),
         proposalStatus[p] \notin MatchedProposalStatuses,
         proposalStatus'[p] = y,
         orderer'[p] = orderer[p],
         \A v \in Users : Settled(p, v)
  PROVE  RowCore(p)'
<1>1. \A v \in Users : offerStatus[p][v] \notin EngagedOfferStatuses
  BY DEF RowCore, Engaged, ExecutionStages, MatchedProposalStatuses
<1>2. \A v \in Users : /\ offerStatus'[p][v] \notin EngagedOfferStatuses
                       /\ offerStatus'[p][v] # "WAITING"
  BY <1>1 DEF EngagedOfferStatuses, ActiveOfferStatuses, Settled
<1>3. \A v \in Users : offerStatus'[p][v] # "ABSENT" => orderer'[p] # v
  BY DEF RowCore, Settled
<1>4. QED
  BY <1>2, <1>3 DEF RowCore, Engaged, MatchedProposalStatuses

(* A step that changes the status of a proposal that has no offer.             *)
LEMMA NoOfferStep ==
  ASSUME NEW p \in Proposals,
         \A v \in Users : offerStatus'[p][v] = "ABSENT",
         proposalStatus'[p] \notin MatchedProposalStatuses
  PROVE  RowCore(p)'
  BY DEF RowCore, Engaged, EngagedOfferStatuses, ActiveOfferStatuses

(* A proposal that is not yet public, or public without an offer, has none.    *)
LEMMA NoOfferYet ==
  ASSUME NEW p \in Proposals, RowCore(p),
         proposalStatus[p] \in {"ABSENT", "HOLDING", "POSTED"}
  PROVE  \A v \in Users : offerStatus[p][v] = "ABSENT"
  BY DEF RowCore

LEMMA InitCore == Init => CoreInv
  BY DEF Init, CoreInv, SingleExecution, StatusesAgree, OffersWaitOnlyWhenOffered, Engaged,
         EngagedOfferStatuses, ActiveOfferStatuses, ExecutionStages, MatchedProposalStatuses

LEMMA NextCore == TypeOK /\ CoreInv /\ [Next]_vars => CoreInv'
<1> SUFFICES ASSUME TypeOK, \A q \in Proposals : RowCore(q), [Next]_vars
             PROVE  \A r \in Proposals : RowCore(r)'
  BY CoreByRows, CoreByRowsNext
<1>0. ASSUME UNCHANGED <<orderer, proposalStatus, offerStatus>>
      PROVE  \A r \in Proposals : RowCore(r)'
  BY <1>0, SameRow
<1>1. ASSUME NEW p \in Proposals, NEW u \in Users, NEW fee \in Fees, CreateProposal(p, u, fee)
      PROVE  \A r \in Proposals : RowCore(r)'
  <2>1. /\ proposalStatus' = [proposalStatus EXCEPT ![p] = "HOLDING"]
        /\ orderer' = [orderer EXCEPT ![p] = u]
        /\ UNCHANGED offerStatus
        /\ proposalStatus[p] = "ABSENT"
    BY <1>1 DEF CreateProposal, CreateProposalWrites, CanCreateProposal
  <2>2. ASSUME NEW r \in Proposals, r # p PROVE RowCore(r)'
    BY <2>1, <2>2, SameRow DEF TypeOK
  <2>3. RowCore(p)'
    BY <2>1, NoOfferYet, NoOfferStep DEF TypeOK, MatchedProposalStatuses
  <2>4. QED
    BY <2>2, <2>3
<1>2. ASSUME NEW p \in Proposals, NEW fee \in Fees, UpdateProposal(p, fee)
      PROVE  \A r \in Proposals : RowCore(r)'
  <2>1. /\ proposalStatus' = [proposalStatus EXCEPT ![p] =
                                IF proposalStatus[p] = "HOLDING" THEN @ ELSE "HOLDING"]
        /\ UNCHANGED <<orderer, offerStatus>>
        /\ proposalStatus[p] \in {"HOLDING", "POSTED"}
    BY <1>2 DEF UpdateProposal, UpdateProposalWrites, CanUpdateProposal, EditableStatuses
  <2>2. ASSUME NEW r \in Proposals, r # p PROVE RowCore(r)'
    BY <2>1, <2>2, SameRow DEF TypeOK
  <2>3. RowCore(p)'
    BY <2>1, NoOfferYet, NoOfferStep DEF TypeOK, MatchedProposalStatuses
  <2>4. QED
    BY <2>2, <2>3
<1>3. ASSUME NEW p \in Proposals, CancelProposal(p)
      PROVE  \A r \in Proposals : RowCore(r)'
  <2>1. /\ proposalStatus' = [proposalStatus EXCEPT ![p] = "CANCELLED"]
        /\ UNCHANGED orderer
        /\ proposalStatus[p] \in {"HOLDING", "POSTED", "OFFERED"}
        /\ offerStatus' = IF proposalStatus[p] = "OFFERED"
                          THEN WaitingOffersBecome(p, "REJECTED", {}) ELSE offerStatus
    BY <1>3 DEF CancelProposal, CancelProposalWrites, CanCancelProposal, CancellableStatuses
  <2>2. /\ \A q \in Proposals : q # p => offerStatus'[q] = offerStatus[q]
        /\ \A v \in Users : Settled(p, v)
    <3>1. CASE proposalStatus[p] = "OFFERED"
      BY <2>1, <3>1, RejectWaiting
    <3>2. CASE proposalStatus[p] # "OFFERED"
      <4>1. UNCHANGED offerStatus
        BY <2>1, <3>2
      <4>2. \A v \in Users : offerStatus[p][v] # "WAITING"
        BY <3>2, RowCore(p) DEF RowCore
      <4>3. QED
        BY <4>1, <4>2 DEF Settled
    <3>3. QED
      BY <3>1, <3>2
  <2>3. ASSUME NEW r \in Proposals, r # p PROVE RowCore(r)'
    <3>1. proposalStatus'[r] = proposalStatus[r] /\ offerStatus'[r] = offerStatus[r]
      BY <2>1, <2>2, <2>3 DEF TypeOK
    <3>2. QED
      BY <2>1, <3>1, SameRow
  <2>4. RowCore(p)'
    <3>1. /\ proposalStatus'[p] = "CANCELLED" /\ orderer'[p] = orderer[p]
          /\ proposalStatus[p] \notin MatchedProposalStatuses
      BY <2>1 DEF TypeOK, MatchedProposalStatuses
    <3>2. QED
      BY <2>2, <3>1, ClosingStep
  <2>5. QED
    BY <2>3, <2>4
<1>4. ASSUME NEW p \in Proposals, ConfirmPayment(p)
      PROVE  \A r \in Proposals : RowCore(r)'
  <2>1. /\ proposalStatus' = [proposalStatus EXCEPT ![p] = "POSTED"]
        /\ UNCHANGED <<orderer, offerStatus>>
        /\ proposalStatus[p] = "HOLDING"
    BY <1>4 DEF ConfirmPayment, CanConfirmPayment, ConfirmPaymentWrites
  <2>2. ASSUME NEW r \in Proposals, r # p PROVE RowCore(r)'
    BY <2>1, <2>2, SameRow DEF TypeOK
  <2>3. RowCore(p)'
    BY <2>1, NoOfferYet, NoOfferStep DEF TypeOK, MatchedProposalStatuses
  <2>4. QED
    BY <2>2, <2>3
<1>5. ASSUME NEW p \in Proposals, NEW u \in Users, CreateReport(p, u) \/ RejectReport(p, u)
      PROVE  \A r \in Proposals : RowCore(r)'
  BY <1>0, <1>5 DEF CreateReport, CreateReportWrites, RejectReport, RejectReportWrites
<1>6. ASSUME NEW p \in Proposals, NEW u \in Users, AcceptReport(p, u)
      PROVE  \A r \in Proposals : RowCore(r)'
  <2>1. CASE proposalStatus[p] \in OpenProposalStatuses
    <3>1. /\ proposalStatus' = [proposalStatus EXCEPT ![p] = "REPORTED"]
          /\ UNCHANGED orderer
          /\ offerStatus' = WaitingOffersBecome(p, "REJECTED", {})
      BY <1>6, <2>1 DEF AcceptReport, AcceptReportWrites
    <3>2. /\ \A q \in Proposals : q # p => offerStatus'[q] = offerStatus[q]
          /\ \A v \in Users : Settled(p, v)
      BY <3>1, RejectWaiting
    <3>3. ASSUME NEW r \in Proposals, r # p PROVE RowCore(r)'
      <4>1. proposalStatus'[r] = proposalStatus[r] /\ offerStatus'[r] = offerStatus[r]
        BY <3>1, <3>2, <3>3 DEF TypeOK
      <4>2. QED
        BY <3>1, <4>1, SameRow
    <3>4. RowCore(p)'
      <4>1. /\ proposalStatus'[p] = "REPORTED" /\ orderer'[p] = orderer[p]
            /\ proposalStatus[p] \notin MatchedProposalStatuses
        BY <2>1, <3>1 DEF TypeOK, MatchedProposalStatuses, OpenProposalStatuses
      <4>2. QED
        BY <3>2, <4>1, ClosingStep
    <3>5. QED
      BY <3>3, <3>4
  <2>2. CASE proposalStatus[p] \notin OpenProposalStatuses
    BY <1>0, <1>6, <2>2 DEF AcceptReport, AcceptReportWrites
  <2>3. QED
    BY <2>1, <2>2
<1>8. ASSUME NEW p \in Proposals, NEW u \in Users, CreateOffer(p, u)
      PROVE  \A r \in Proposals : RowCore(r)'
  <2>1. /\ offerStatus' = [offerStatus EXCEPT ![p][u] = "WAITING"]
        /\ proposalStatus' = [proposalStatus EXCEPT ![p] = "OFFERED"]
        /\ UNCHANGED orderer
        /\ proposalStatus[p] \in {"POSTED", "OFFERED"}
        /\ orderer[p] # u
    BY <1>8 DEF CreateOffer, CanCreateOffer, CreateOfferWrites, OpenProposalStatuses, TypeOK
  <2>2. ASSUME NEW r \in Proposals, r # p PROVE RowCore(r)'
    <3>1. proposalStatus'[r] = proposalStatus[r] /\ offerStatus'[r] = offerStatus[r]
      BY <2>1, <2>2 DEF TypeOK
    <3>2. QED
      BY <2>1, <3>1, SameRow
  <2>3. RowCore(p)'
    <3>1. /\ proposalStatus'[p] = "OFFERED" /\ offerStatus'[p][u] = "WAITING"
          /\ \A v \in Users \ {u} : offerStatus'[p][v] = offerStatus[p][v]
      BY <2>1 DEF TypeOK
    <3>2. \A v \in Users : /\ offerStatus[p][v] \notin EngagedOfferStatuses
                           /\ offerStatus[p][v] # "ABSENT" => orderer[p] # v
      BY <2>1, RowCore(p) DEF RowCore, Engaged, ExecutionStages
    <3>3. \A v \in Users : offerStatus'[p][v] \notin EngagedOfferStatuses
      BY <3>1, <3>2 DEF EngagedOfferStatuses, ActiveOfferStatuses
    <3>4. QED
      BY <2>1, <3>1, <3>2, <3>3 DEF RowCore, Engaged, MatchedProposalStatuses
  <2>4. QED
    BY <2>2, <2>3
<1>9. ASSUME NEW p \in Proposals, NEW u \in Users, CancelOffer(p, u)
      PROVE  \A r \in Proposals : RowCore(r)'
  <2>1. /\ offerStatus' = [offerStatus EXCEPT ![p][u] = "CANCELLED"]
        /\ UNCHANGED <<orderer, proposalStatus>>
        /\ offerStatus[p][u] = "WAITING"
    BY <1>9 DEF CancelOffer, CanCancelOffer, CancelOfferWrites
  <2>2. ASSUME NEW r \in Proposals, r # p PROVE RowCore(r)'
    <3>1. offerStatus'[r] = offerStatus[r]
      BY <2>1, <2>2 DEF TypeOK
    <3>2. QED
      BY <2>1, <3>1, SameRow
  <2>3. RowCore(p)'
    <3>1. /\ offerStatus'[p][u] = "CANCELLED"
          /\ \A v \in Users \ {u} : offerStatus'[p][v] = offerStatus[p][v]
      BY <2>1 DEF TypeOK
    <3>2. \A v \in Users : offerStatus[p][v] \notin EngagedOfferStatuses
      BY <2>1, RowCore(p) DEF RowCore, Engaged, ExecutionStages
    <3>3. \A v \in Users : offerStatus'[p][v] \notin EngagedOfferStatuses
      BY <3>1, <3>2 DEF EngagedOfferStatuses, ActiveOfferStatuses
    <3>4. proposalStatus[p] = "OFFERED"
      BY <2>1, RowCore(p) DEF RowCore
    <3>5. \A v \in Users : offerStatus'[p][v] # "ABSENT" => orderer[p] # v
      BY <2>1, <3>1, RowCore(p) DEF RowCore
    <3>6. QED
      BY <2>1, <3>3, <3>4, <3>5 DEF RowCore, Engaged, MatchedProposalStatuses
  <2>4. QED
    BY <2>2, <2>3
<1>10. ASSUME NEW p \in Proposals, NEW u \in Users, AcceptOffer(p, u), NEW r \in Proposals
       PROVE  RowCore(r)'
  <2> USE <1>10
  <2>1. /\ proposalStatus' = [proposalStatus EXCEPT ![p] = "MATCHED"]
        /\ UNCHANGED orderer
        /\ proposalStatus[p] = "OFFERED" /\ offerStatus[p][u] = "WAITING"
    BY DEF AcceptOffer, CanAcceptOffer, AcceptOfferWrites
  <2>2. CASE r = p
    <3>1. proposalStatus'[p] = "MATCHED"
      BY <2>1 DEF TypeOK
    <3>2. \A v \in Users : ~Engaged(p, v)
      BY <2>1, RowCore(p) DEF RowCore, ExecutionStages
    <3>3. \A v \in Users \ {u} : ~Engaged(p, v)' /\ offerStatus'[p][v] # "WAITING"
      BY <3>2, AcceptOfferRow DEF Engaged, EngagedOfferStatuses, ActiveOfferStatuses
    <3>4. Engaged(p, u)' /\ offerStatus'[p][u] = "ACCEPTED"
      BY AcceptOfferRow DEF Engaged, EngagedOfferStatuses, ActiveOfferStatuses
    <3>5. \A v \in Users : offerStatus'[p][v] # "ABSENT" => orderer'[p] # v
      BY <2>1, AcceptOfferRow, RowCore(p) DEF RowCore
    <3>6. RowCore(p)'
      BY <3>1, <3>3, <3>4, <3>5 DEF RowCore, ExecutionStages, MatchedProposalStatuses
    <3>7. QED
      BY <2>2, <3>6
  <2>3. CASE r # p
    <3>1. offerStatus'[r] = offerStatus[r]
      BY <2>3, AcceptOfferRow
    <3>2. proposalStatus'[r] = proposalStatus[r] /\ orderer'[r] = orderer[r]
      BY <2>1, <2>3 DEF TypeOK
    <3>3. QED
      BY <3>1, <3>2, SameRow
  <2>4. QED
    BY <2>2, <2>3
<1>11. ASSUME NEW p \in Proposals, NEW u \in Users, CompleteDelivery(p, u)
       PROVE  \A r \in Proposals : RowCore(r)'
  <2>1. /\ offerStatus[p][u] = "ACCEPTED" /\ Engaged(p, u)
        /\ UNCHANGED orderer
    BY <1>11 DEF CompleteDelivery, CanCompleteDelivery, CompleteDeliveryWrites, Engaged,
                 EngagedOfferStatuses, ActiveOfferStatuses
  <2>2. CASE proposalStatus[p] = "ORDER_COMPLETED"
    <3>1. /\ proposalStatus' = [proposalStatus EXCEPT ![p] = "ALL_COMPLETED"]
          /\ offerStatus' = [offerStatus EXCEPT ![p][u] = "ALL_COMPLETED"]
      BY <1>11, <2>2, CompleteDeliveryLast
    <3>2. <<"ALL_COMPLETED", "ALL_COMPLETED">> \in ExecutionStages
      BY DEF ExecutionStages
    <3>3. QED
      BY <2>1, <3>1, <3>2, ExecutionStep
  <2>3. CASE proposalStatus[p] # "ORDER_COMPLETED"
    <3>1. /\ proposalStatus' = [proposalStatus EXCEPT ![p] = "MATCHED"]
          /\ offerStatus' = [offerStatus EXCEPT ![p][u] = "RUNNER_COMPLETED"]
      <4>1. proposalStatus[p] = "MATCHED"
        BY <1>11, <2>3 DEF CompleteDelivery, CanCompleteDelivery
      <4>2. QED
        BY <1>11, <2>3, <4>1, CompleteDeliveryFirst DEF TypeOK
    <3>2. <<"MATCHED", "RUNNER_COMPLETED">> \in ExecutionStages
      BY DEF ExecutionStages
    <3>3. QED
      BY <2>1, <3>1, <3>2, ExecutionStep
  <2>4. QED
    BY <2>2, <2>3
<1>12. ASSUME NEW p \in Proposals, NEW u \in Users, ConfirmReceived(p, u)
       PROVE  \A r \in Proposals : RowCore(r)'
  <2>1. /\ offerStatus[p][u] \in {"ACCEPTED", "RUNNER_COMPLETED"} /\ Engaged(p, u)
        /\ UNCHANGED orderer
    BY <1>12 DEF ConfirmReceived, CanConfirmReceived, ConfirmReceivedWrites, Engaged,
                 EngagedOfferStatuses, ActiveOfferStatuses
  <2>2. CASE offerStatus[p][u] = "RUNNER_COMPLETED"
    <3>1. /\ proposalStatus' = [proposalStatus EXCEPT ![p] = "ALL_COMPLETED"]
          /\ offerStatus' = [offerStatus EXCEPT ![p][u] = "ALL_COMPLETED"]
      BY <1>12, <2>2, ConfirmReceivedLast
    <3>2. <<"ALL_COMPLETED", "ALL_COMPLETED">> \in ExecutionStages
      BY DEF ExecutionStages
    <3>3. QED
      BY <2>1, <3>1, <3>2, ExecutionStep
  <2>3. CASE offerStatus[p][u] # "RUNNER_COMPLETED"
    <3>1. /\ proposalStatus' = [proposalStatus EXCEPT ![p] = "ORDER_COMPLETED"]
          /\ offerStatus' = [offerStatus EXCEPT ![p][u] = "ACCEPTED"]
      <4>1. offerStatus[p][u] = "ACCEPTED"
        BY <2>1, <2>3
      <4>2. /\ proposalStatus' = [proposalStatus EXCEPT ![p] = "ORDER_COMPLETED"]
            /\ UNCHANGED offerStatus
        BY <1>12, <2>3, ConfirmReceivedFirst
      <4>3. offerStatus = [offerStatus EXCEPT ![p][u] = "ACCEPTED"]
        BY <4>1 DEF TypeOK
      <4>4. QED
        BY <4>2, <4>3
    <3>2. <<"ORDER_COMPLETED", "ACCEPTED">> \in ExecutionStages
      BY DEF ExecutionStages
    <3>3. QED
      BY <2>1, <3>1, <3>2, ExecutionStep
  <2>4. QED
    BY <2>2, <2>3
<1>13. ASSUME NEW p \in Proposals, NEW u \in Users,
              RaiseDisputeByRunner(p, u) \/ RaiseDisputeByOrderer(p, u)
       PROVE  \A r \in Proposals : RowCore(r)'
  <2>1. /\ offerStatus[p][u] \in {"ACCEPTED", "RUNNER_COMPLETED"}
        /\ proposalStatus' = [proposalStatus EXCEPT ![p] = "DISPUTED"]
        /\ offerStatus' = [offerStatus EXCEPT ![p][u] = "DISPUTED"]
        /\ UNCHANGED orderer
    BY <1>13 DEF RaiseDisputeByRunner, RaiseDisputeByOrderer, CanRaiseDispute, RaiseDisputeWrites
  <2>2. Engaged(p, u) /\ <<"DISPUTED", "DISPUTED">> \in ExecutionStages
    BY <2>1 DEF Engaged, EngagedOfferStatuses, ActiveOfferStatuses, ExecutionStages
  <2>3. QED
    BY <2>1, <2>2, ExecutionStep
<1>14. ASSUME NEW p \in Proposals, NEW u \in Users, Resolve(p, u)
       PROVE  \A r \in Proposals : RowCore(r)'
  <2>1. /\ offerStatus[p][u] = "DISPUTED"
        /\ proposalStatus' = [proposalStatus EXCEPT ![p] = "RESOLVED"]
        /\ offerStatus' = [offerStatus EXCEPT ![p][u] = "RESOLVED"]
        /\ UNCHANGED orderer
    BY <1>14 DEF Resolve, CanResolve, ResolveWrites
  <2>2. Engaged(p, u) /\ <<"RESOLVED", "RESOLVED">> \in ExecutionStages
    BY <2>1 DEF Engaged, EngagedOfferStatuses, ActiveOfferStatuses, ExecutionStages
  <2>3. QED
    BY <2>1, <2>2, ExecutionStep
<1>15. ASSUME NEW u \in AlarmUsers, NEW enabled \in BOOLEAN, UpdateAlarm(u, enabled)
       PROVE  \A r \in Proposals : RowCore(r)'
  BY <1>0, <1>15 DEF UpdateAlarm, UpdateAlarmWrites
<1>16. ASSUME NEW u \in Users, WithdrawUser(u), NEW r \in Proposals
       PROVE  RowCore(r)'
  <2>1. /\ UNCHANGED orderer
        /\ proposalStatus'[r] = IF r \in PreMatchProposals(u) THEN "CANCELLED"
                                ELSE proposalStatus[r]
        /\ \A v \in Users : offerStatus'[r][v] =
                IF <<r, v>> \in WaitingOffersTouched(u) THEN "CANCELLED" ELSE offerStatus[r][v]
    BY <1>16 DEF WithdrawUser, WithdrawUserWrites
  <2>2. \A v \in Users : <<r, v>> \in WaitingOffersTouched(u) <=>
            offerStatus[r][v] = "WAITING" /\ (v = u \/ r \in PreMatchProposals(u))
    BY DEF WaitingOffersTouched
  <2>3. CASE r \in PreMatchProposals(u)
    <3>1. proposalStatus[r] \notin MatchedProposalStatuses
      BY <2>3 DEF PreMatchProposals, CancellableStatuses, MatchedProposalStatuses
    <3>2. QED
      BY <2>1, <2>2, <2>3, <3>1, ClosingStep DEF Settled
  <2>4. CASE r \notin PreMatchProposals(u)
    <3>1. /\ proposalStatus'[r] = proposalStatus[r] /\ orderer'[r] = orderer[r]
          /\ \A v \in Users : offerStatus'[r][v] = IF offerStatus[r][v] = "WAITING" /\ v = u
                                                   THEN "CANCELLED" ELSE offerStatus[r][v]
      BY <2>1, <2>2, <2>4
    <3>2. \A v \in Users : Engaged(r, v)' <=> Engaged(r, v)
      BY <3>1 DEF Engaged, EngagedOfferStatuses, ActiveOfferStatuses
    <3>3. \A v \in Users : Engaged(r, v) => offerStatus'[r][v] = offerStatus[r][v]
      BY <3>1 DEF Engaged, EngagedOfferStatuses, ActiveOfferStatuses
    <3>4. QED
      BY <3>1, <3>2, <3>3, RowCore(r) DEF RowCore
  <2>5. QED
    BY <2>3, <2>4
<1>17. CASE UNCHANGED vars
  BY <1>0, <1>17 DEF vars
<1>18. QED
  BY <1>1, <1>2, <1>3, <1>4, <1>5, <1>6, <1>8, <1>9, <1>10, <1>11, <1>12, <1>13, <1>14, <1>15,
     <1>16, <1>17 DEF Next

(* The execution core: at most one accepted offer per proposal, matching       *)
(* stages of the two records, and no offer left waiting on a closed proposal.  *)
THEOREM CoreCorrect == Spec => [](SingleExecution /\ StatusesAgree /\ OffersWaitOnlyWhenOffered)
<1>1. TypeOK /\ CoreInv /\ [Next]_vars => TypeOK' /\ CoreInv'
  BY NextType, NextCore
<1>2. CoreInv => SingleExecution /\ StatusesAgree /\ OffersWaitOnlyWhenOffered
  BY DEF CoreInv
<1>3. QED
  BY <1>1, <1>2, InitType, InitCore, PTL DEF Spec

================================================================================
