------------------------------ MODULE SessionProofs ------------------------------
(* What overlapping requests keep true, for any users, proposals, fees and     *)
(* threads, and what they do when there is one thread.                         *)
EXTENDS SessionProperties, ExecutionProofs

USE DEF userVars, proposalVars, offerVars

(* The requests that name no proposal, and those that only a paid proposal     *)
(* can get.                                                                    *)
UserOps == {"create_proposal", "alarm_on", "alarm_off", "withdraw"}
PaidOps == {"create_offer", "accept_offer", "complete_delivery", "confirm_received",
            "raise_dispute", "resolve"}

(* What a request still knows of the tables when it commits.  Its guard may no *)
(* longer hold: only what no other request can take back is left of it.        *)
StillKnown(r) ==
    /\ r.op \notin UserOps => r.proposal \in Proposals
    /\ r.op \notin UserOps \cup {"reject_report",
         "cancel_offer"} => proposalStatus[r.proposal] # "ABSENT"
    /\ r.op \in {"create_proposal", "update_proposal"} => r.fee \in Fees
    /\ r.op = "confirm_payment" => r.seen.fee \in Fees
    /\ r.op = "raise_dispute" => r.actor \in Users
    /\ r.op = "withdraw" => \A p \in r.seen.proposals : proposalStatus[p] # "ABSENT"
    /\ r.op \in PaidOps => paidFee[r.proposal] # NoFee
    /\ r.op = "complete_delivery" /\ r.seen.status = "ORDER_COMPLETED" =>
            proposalStamps[r.proposal]["orderer"] # "null"
    /\ r.op = "confirm_received" /\ r.seen.offer = "RUNNER_COMPLETED" =>
            /\ proposalStamps[r.proposal]["runner"] # "null"
            /\ offerStamps[r.proposal][r.runner]["runner"] # "null"
    /\ r.op = "resolve" => \E e \in evidences : e.proposal = r.proposal /\ e.runner = r.runner

(* The tables: who is shown as confirmed has confirmed, and a row has a fee.   *)
ShownConfirmed ==
    /\ CompletedMeansBothConfirmed
    /\ \A p \in Proposals :
        /\ proposalStatus[p] = "ORDER_COMPLETED" => proposalStamps[p]["orderer"] # "null"
        /\ \A u \in Users : offerStatus[p][u] = "RUNNER_COMPLETED" =>
             proposalStamps[p]["runner"] # "null" /\ offerStamps[p][u]["runner"] # "null"
FeesKnown == \A p \in Proposals : proposalStatus[p] # "ABSENT" => errandFee[p] \in Fees

TableInv ==
    /\ ShownConfirmed /\ FeesKnown /\ PublicMeansPaid /\ DisputeHasEvidence
    /\ LevelAtLeastCompletions

RequestsInv == \A t \in Threads : request[t] # NoRequest => StillKnown(request[t])

LEMMA StillKnownLater ==
  ASSUME NEW r \in Requests, StillKnown(r), Grows
  PROVE  StillKnown(r)'
<1>1. r.runner \in Users /\ r.seen.proposals \subseteq Proposals
  BY DEF Requests, Reads
<1>2. r.op \in PaidOps => r.op \notin UserOps \cup {"reject_report", "cancel_offer"}
  BY DEF PaidOps, UserOps
<1>3. r.op \in {"complete_delivery", "confirm_received", "resolve"} => r.op \notin UserOps
  BY DEF UserOps
<1>4. "runner" \in Sides /\ "orderer" \in Sides
  BY DEF Sides
<1>5. QED
  BY <1>1, <1>2, <1>3, <1>4 DEF StillKnown, Grows

--------------------------------------------------------------------------------
(* The writes, one request at a time.  None looks at the tables before it      *)
(* writes, so each is shown to keep them sound from what the request knows.    *)

Sound == TypeOK /\ TableInv
SoundNext == (notifications' \subseteq Rows => TypeOK') /\ TableInv' /\ Grows

(* Writes that leave the levels, the offers' completions, the timestamps and   *)
(* the evidence alone.                                                         *)
LEMMA LevelKept ==
  ASSUME TypeOK, LevelAtLeastCompletions, UNCHANGED level,
         \A p \in Proposals, u \in Users :
            offerStatus'[p][u] = "ALL_COMPLETED" => offerStatus[p][u] = "ALL_COMPLETED"
  PROVE  LevelAtLeastCompletions'
<1> DEFINE Done(u) == {p \in Proposals : offerStatus[p][u] = "ALL_COMPLETED"}
           After(u) == {p \in Proposals : offerStatus'[p][u] = "ALL_COMPLETED"}
<1> SUFFICES ASSUME NEW u \in Users PROVE level'[u] >= Cardinality(After(u))
  BY DEF LevelAtLeastCompletions
<1>1. IsFiniteSet(Done(u)) /\ After(u) \subseteq Done(u)
  BY FiniteAssumption, FS_Subset
<1>2. /\ Cardinality(After(u)) <= Cardinality(Done(u))
      /\ Cardinality(After(u)) \in Nat /\ Cardinality(Done(u)) \in Nat
  BY <1>1, FS_Subset, FS_CardinalityType
<1>3. level[u] >= Cardinality(Done(u)) /\ level[u] \in Nat
  BY DEF LevelAtLeastCompletions, TypeOK
<1> HIDE DEF Done, After
<1>4. QED
  BY <1>2, <1>3

LEMMA LevelRaised ==
  ASSUME TypeOK, LevelAtLeastCompletions, NEW p \in Proposals, NEW u \in Users,
         level' = [level EXCEPT ![u] = level[u] + 1],
         offerStatus' = [offerStatus EXCEPT ![p][u] = "ALL_COMPLETED"]
  PROVE  LevelAtLeastCompletions'
<1> DEFINE Done(v) == {q \in Proposals : offerStatus[q][v] = "ALL_COMPLETED"}
           After(v) == {q \in Proposals : offerStatus'[q][v] = "ALL_COMPLETED"}
<1> SUFFICES ASSUME NEW v \in Users PROVE level'[v] >= Cardinality(After(v))
  BY DEF LevelAtLeastCompletions
<1>1. IsFiniteSet(Done(v)) /\ Cardinality(Done(v)) \in Nat
  BY FiniteAssumption, FS_Subset, FS_CardinalityType
<1>2. level[v] >= Cardinality(Done(v)) /\ level[v] \in Nat
  BY DEF LevelAtLeastCompletions, TypeOK
<1>3. CASE v = u
  <2>1. After(v) = Done(v) \cup {p} /\ level'[v] = level[v] + 1
    BY <1>3 DEF TypeOK
  <2>2. /\ Cardinality(After(v)) = Cardinality(Done(v)) \/ Cardinality(After(v)) = Cardinality(Done(v)) + 1
    <3> HIDE DEF Done, After
    <3>1. QED
      BY <1>1, <2>1, FS_AddElement
  <2> HIDE DEF Done, After
  <2>3. QED
    BY <1>1, <1>2, <2>1, <2>2
<1>4. CASE v # u
  <2>1. After(v) = Done(v) /\ level'[v] = level[v]
    BY <1>4 DEF TypeOK
  <2>2. QED
    BY <1>2, <2>1
<1>5. QED
  BY <1>3, <1>4

(* Evidence stays: only a new dispute needs a row of its own.                  *)
LEMMA EvidenceKept ==
  ASSUME DisputeHasEvidence, evidences \subseteq evidences',
         \A p \in Proposals, u \in Users : offerStatus'[p][u] \in {"DISPUTED", "RESOLVED"} =>
            \/ offerStatus[p][u] \in {"DISPUTED", "RESOLVED"}
            \/ \E e \in evidences' : e.proposal = p /\ e.runner = u
  PROVE  DisputeHasEvidence'
  BY DEF DisputeHasEvidence

LEMMA CreateProposalSound ==
  ASSUME Sound, NEW p \in Proposals, NEW u \in Users, NEW fee \in Fees,
         proposalStatus[p] = "ABSENT", CreateProposalWrites(p, u, fee)
  PROVE  SoundNext
<1>1. notifications' \subseteq Rows => TypeOK'
  BY NoUserAssumption, NoFeeAssumption DEF Sound, TypeOK, CreateProposalWrites, Rows,
       ProposalStatus, OfferStatus, ReportStatus, Sides, Stamps, WaitingOffersBecome
<1>2. ShownConfirmed'
  BY DEF Sound, TypeOK, TableInv, ShownConfirmed, CompletedMeansBothConfirmed,
       CreateProposalWrites, WaitingOffersBecome, Sides
<1>3. FeesKnown' /\ PublicMeansPaid'
  BY NoFeeAssumption DEF Sound, TypeOK, TableInv, FeesKnown, PublicMeansPaid,
       OpenProposalStatuses, MatchedProposalStatuses, CreateProposalWrites
<1>4. DisputeHasEvidence'
  BY DEF Sound, TypeOK, TableInv, DisputeHasEvidence, CreateProposalWrites, WaitingOffersBecome
<1>5. LevelAtLeastCompletions'
  BY LevelKept, LevelRaised DEF Sound, TypeOK, TableInv, CreateProposalWrites,
       WaitingOffersBecome
<1>6. Grows
  BY NoFeeAssumption DEF Sound, TypeOK, Grows, CreateProposalWrites, Sides
<1>7. QED
  BY <1>1, <1>2, <1>3, <1>4, <1>5, <1>6 DEF SoundNext, TableInv

LEMMA UpdateProposalSound ==
  ASSUME Sound, NEW p \in Proposals, NEW fee \in Fees, NEW seenStatus, NEW seenFee,
         proposalStatus[p] # "ABSENT", UpdateProposalWrites(p, fee, seenStatus, seenFee)
  PROVE  SoundNext
<1>1. notifications' \subseteq Rows => TypeOK'
  BY NoUserAssumption, NoFeeAssumption DEF Sound, TypeOK, UpdateProposalWrites, Rows,
       ProposalStatus, OfferStatus, ReportStatus, Sides, Stamps, WaitingOffersBecome
<1>2. ShownConfirmed'
  BY DEF Sound, TypeOK, TableInv, ShownConfirmed, CompletedMeansBothConfirmed,
       UpdateProposalWrites, WaitingOffersBecome, Sides
<1>3. FeesKnown' /\ PublicMeansPaid'
  BY NoFeeAssumption DEF Sound, TypeOK, TableInv, FeesKnown, PublicMeansPaid,
       OpenProposalStatuses, MatchedProposalStatuses, UpdateProposalWrites
<1>4. DisputeHasEvidence'
  BY DEF Sound, TypeOK, TableInv, DisputeHasEvidence, UpdateProposalWrites, WaitingOffersBecome
<1>5. LevelAtLeastCompletions'
  BY LevelKept, LevelRaised DEF Sound, TypeOK, TableInv, UpdateProposalWrites,
       WaitingOffersBecome
<1>6. Grows
  BY NoFeeAssumption DEF Sound, TypeOK, Grows, UpdateProposalWrites, Sides
<1>7. QED
  BY <1>1, <1>2, <1>3, <1>4, <1>5, <1>6 DEF SoundNext, TableInv

LEMMA CancelProposalSound ==
  ASSUME Sound, NEW p \in Proposals, NEW seenStatus,
         proposalStatus[p] # "ABSENT", CancelProposalWrites(p, seenStatus)
  PROVE  SoundNext
<1>1. notifications' \subseteq Rows => TypeOK'
  BY NoUserAssumption, NoFeeAssumption DEF Sound, TypeOK, CancelProposalWrites, Rows,
       ProposalStatus, OfferStatus, ReportStatus, Sides, Stamps, WaitingOffersBecome
<1>2. ShownConfirmed'
  BY DEF Sound, TypeOK, TableInv, ShownConfirmed, CompletedMeansBothConfirmed,
       CancelProposalWrites, WaitingOffersBecome, Sides
<1>3. FeesKnown' /\ PublicMeansPaid'
  BY NoFeeAssumption DEF Sound, TypeOK, TableInv, FeesKnown, PublicMeansPaid,
       OpenProposalStatuses, MatchedProposalStatuses, CancelProposalWrites
<1>4. DisputeHasEvidence'
  BY DEF Sound, TypeOK, TableInv, DisputeHasEvidence, CancelProposalWrites, WaitingOffersBecome
<1>5. LevelAtLeastCompletions'
  BY LevelKept, LevelRaised DEF Sound, TypeOK, TableInv, CancelProposalWrites,
       WaitingOffersBecome
<1>6. Grows
  BY NoFeeAssumption DEF Sound, TypeOK, Grows, CancelProposalWrites, Sides
<1>7. QED
  BY <1>1, <1>2, <1>3, <1>4, <1>5, <1>6 DEF SoundNext, TableInv

LEMMA ConfirmPaymentSound ==
  ASSUME Sound, NEW p \in Proposals, NEW seenFee \in Fees,
         proposalStatus[p] # "ABSENT", ConfirmPaymentWrites(p, seenFee)
  PROVE  SoundNext
<1>1. notifications' \subseteq Rows => TypeOK'
  BY NoUserAssumption, NoFeeAssumption DEF Sound, TypeOK, ConfirmPaymentWrites, Rows,
       ProposalStatus, OfferStatus, ReportStatus, Sides, Stamps, WaitingOffersBecome
<1>2. ShownConfirmed'
  BY DEF Sound, TypeOK, TableInv, ShownConfirmed, CompletedMeansBothConfirmed,
       ConfirmPaymentWrites, WaitingOffersBecome, Sides
<1>3. FeesKnown' /\ PublicMeansPaid'
  BY NoFeeAssumption DEF Sound, TypeOK, TableInv, FeesKnown, PublicMeansPaid,
       OpenProposalStatuses, MatchedProposalStatuses, ConfirmPaymentWrites
<1>4. DisputeHasEvidence'
  BY DEF Sound, TypeOK, TableInv, DisputeHasEvidence, ConfirmPaymentWrites, WaitingOffersBecome
<1>5. LevelAtLeastCompletions'
  BY LevelKept, LevelRaised DEF Sound, TypeOK, TableInv, ConfirmPaymentWrites,
       WaitingOffersBecome
<1>6. Grows
  BY NoFeeAssumption DEF Sound, TypeOK, Grows, ConfirmPaymentWrites, Sides
<1>7. QED
  BY <1>1, <1>2, <1>3, <1>4, <1>5, <1>6 DEF SoundNext, TableInv

LEMMA CreateReportSound ==
  ASSUME Sound, NEW p \in Proposals, NEW u \in Users, CreateReportWrites(p, u)
  PROVE  SoundNext
<1>1. notifications' \subseteq Rows => TypeOK'
  BY NoUserAssumption, NoFeeAssumption DEF Sound, TypeOK, CreateReportWrites, Rows,
       ProposalStatus, OfferStatus, ReportStatus, Sides, Stamps, WaitingOffersBecome
<1>2. ShownConfirmed'
  BY DEF Sound, TypeOK, TableInv, ShownConfirmed, CompletedMeansBothConfirmed,
       CreateReportWrites, WaitingOffersBecome, Sides
<1>3. FeesKnown' /\ PublicMeansPaid'
  BY NoFeeAssumption DEF Sound, TypeOK, TableInv, FeesKnown, PublicMeansPaid,
       OpenProposalStatuses, MatchedProposalStatuses, CreateReportWrites
<1>4. DisputeHasEvidence'
  BY DEF Sound, TypeOK, TableInv, DisputeHasEvidence, CreateReportWrites, WaitingOffersBecome
<1>5. LevelAtLeastCompletions'
  BY LevelKept, LevelRaised DEF Sound, TypeOK, TableInv, CreateReportWrites, WaitingOffersBecome
<1>6. Grows
  BY NoFeeAssumption DEF Sound, TypeOK, Grows, CreateReportWrites, Sides
<1>7. QED
  BY <1>1, <1>2, <1>3, <1>4, <1>5, <1>6 DEF SoundNext, TableInv

LEMMA AcceptReportSound ==
  ASSUME Sound, NEW p \in Proposals, NEW u \in Users, NEW seenStatus,
         proposalStatus[p] # "ABSENT", AcceptReportWrites(p, u, seenStatus)
  PROVE  SoundNext
<1>1. /\ reports' = [reports EXCEPT ![p][u] = "ACCEPTED"]
      /\ UNCHANGED <<userVars, orderer, errandFee, paidFee, proposalStamps, offerStamps,
           evidences>>
  BY DEF AcceptReportWrites
<1>2. \/ UNCHANGED proposalStatus
      \/ proposalStatus' = [proposalStatus EXCEPT ![p] = "REPORTED"]
  BY DEF AcceptReportWrites
<1>3. /\ offerStatus' \in [Proposals -> [Users -> OfferStatus \cup {"ABSENT"}]]
      /\ \A q \in Proposals, v \in Users :
            offerStatus'[q][v] = offerStatus[q][v] \/ offerStatus'[q][v] = "REJECTED"
  <2>1. CASE UNCHANGED offerStatus
    BY <2>1 DEF Sound, TypeOK
  <2>2. CASE offerStatus' = WaitingOffersBecome(p, "REJECTED", {})
    BY <2>2, WaitingOffersBecomeType DEF Sound, TypeOK, WaitingOffersBecome, OfferStatus
  <2>3. QED
    BY <2>1, <2>2 DEF AcceptReportWrites
<1>4. notifications' \subseteq Rows => TypeOK'
  <2>1. proposalStatus' \in [Proposals -> ProposalStatus \cup {"ABSENT"}]
        /\ \A q \in Proposals : proposalStatus'[q] = "ABSENT" <=> proposalStatus[q] = "ABSENT"
    BY <1>2 DEF Sound, TypeOK, ProposalStatus
  <2>2. reports' \in [Proposals -> [Users -> ReportStatus \cup {"ABSENT"}]]
    BY <1>1 DEF Sound, TypeOK, ReportStatus
  <2>3. QED
    BY <1>1, <1>3, <2>1, <2>2 DEF Sound, TypeOK, Rows
<1>5. ShownConfirmed'
  <2>1. \A q \in Proposals :
            /\ proposalStatus'[q] = proposalStatus[q] \/ proposalStatus'[q] = "REPORTED"
            /\ proposalStamps'[q] = proposalStamps[q] /\ offerStamps'[q] = offerStamps[q]
    BY <1>1, <1>2 DEF Sound, TypeOK
  <2>2. QED
    BY <1>3, <2>1 DEF Sound, TableInv, ShownConfirmed, CompletedMeansBothConfirmed
<1>6. FeesKnown' /\ PublicMeansPaid'
  BY <1>1, <1>2 DEF Sound, TypeOK, TableInv, FeesKnown, PublicMeansPaid, OpenProposalStatuses,
                    MatchedProposalStatuses
<1>7. DisputeHasEvidence'
  BY <1>1, <1>3, EvidenceKept DEF Sound, TableInv
<1>8. LevelAtLeastCompletions'
  BY <1>1, <1>3, LevelKept DEF Sound, TableInv
<1>9. Grows
  BY <1>1, <1>2 DEF Sound, TypeOK, Grows
<1>10. QED
  BY <1>4, <1>5, <1>6, <1>7, <1>8, <1>9 DEF SoundNext, TableInv

LEMMA RejectReportSound ==
  ASSUME Sound, NEW p \in Proposals, NEW u \in Users, RejectReportWrites(p, u)
  PROVE  SoundNext
<1>1. notifications' \subseteq Rows => TypeOK'
  BY NoUserAssumption, NoFeeAssumption DEF Sound, TypeOK, RejectReportWrites, Rows,
       ProposalStatus, OfferStatus, ReportStatus, Sides, Stamps, WaitingOffersBecome
<1>2. ShownConfirmed'
  BY DEF Sound, TypeOK, TableInv, ShownConfirmed, CompletedMeansBothConfirmed,
       RejectReportWrites, WaitingOffersBecome, Sides
<1>3. FeesKnown' /\ PublicMeansPaid'
  BY NoFeeAssumption DEF Sound, TypeOK, TableInv, FeesKnown, PublicMeansPaid,
       OpenProposalStatuses, MatchedProposalStatuses, RejectReportWrites
<1>4. DisputeHasEvidence'
  BY DEF Sound, TypeOK, TableInv, DisputeHasEvidence, RejectReportWrites, WaitingOffersBecome
<1>5. LevelAtLeastCompletions'
  BY LevelKept, LevelRaised DEF Sound, TypeOK, TableInv, RejectReportWrites, WaitingOffersBecome
<1>6. Grows
  BY NoFeeAssumption DEF Sound, TypeOK, Grows, RejectReportWrites, Sides
<1>7. QED
  BY <1>1, <1>2, <1>3, <1>4, <1>5, <1>6 DEF SoundNext, TableInv

LEMMA CreateOfferSound ==
  ASSUME Sound, NEW p \in Proposals, NEW u \in Users, NEW seenStatus,
         proposalStatus[p] # "ABSENT", paidFee[p] # NoFee, CreateOfferWrites(p, u, seenStatus)
  PROVE  SoundNext
<1>1. notifications' \subseteq Rows => TypeOK'
  BY NoUserAssumption, NoFeeAssumption DEF Sound, TypeOK, CreateOfferWrites, Rows,
       ProposalStatus, OfferStatus, ReportStatus, Sides, Stamps, WaitingOffersBecome
<1>2. ShownConfirmed'
  BY DEF Sound, TypeOK, TableInv, ShownConfirmed, CompletedMeansBothConfirmed,
       CreateOfferWrites, WaitingOffersBecome, Sides
<1>3. FeesKnown' /\ PublicMeansPaid'
  BY NoFeeAssumption DEF Sound, TypeOK, TableInv, FeesKnown, PublicMeansPaid,
       OpenProposalStatuses, MatchedProposalStatuses, CreateOfferWrites
<1>4. DisputeHasEvidence'
  BY DEF Sound, TypeOK, TableInv, DisputeHasEvidence, CreateOfferWrites, WaitingOffersBecome
<1>5. LevelAtLeastCompletions'
  BY LevelKept, LevelRaised DEF Sound, TypeOK, TableInv, CreateOfferWrites, WaitingOffersBecome
<1>6. Grows
  BY NoFeeAssumption DEF Sound, TypeOK, Grows, CreateOfferWrites, Sides
<1>7. QED
  BY <1>1, <1>2, <1>3, <1>4, <1>5, <1>6 DEF SoundNext, TableInv

LEMMA CancelOfferSound ==
  ASSUME Sound, NEW p \in Proposals, NEW u \in Users, CancelOfferWrites(p, u)
  PROVE  SoundNext
<1>1. notifications' \subseteq Rows => TypeOK'
  BY NoUserAssumption, NoFeeAssumption DEF Sound, TypeOK, CancelOfferWrites, Rows,
       ProposalStatus, OfferStatus, ReportStatus, Sides, Stamps, WaitingOffersBecome
<1>2. ShownConfirmed'
  BY DEF Sound, TypeOK, TableInv, ShownConfirmed, CompletedMeansBothConfirmed,
       CancelOfferWrites, WaitingOffersBecome, Sides
<1>3. FeesKnown' /\ PublicMeansPaid'
  BY NoFeeAssumption DEF Sound, TypeOK, TableInv, FeesKnown, PublicMeansPaid,
       OpenProposalStatuses, MatchedProposalStatuses, CancelOfferWrites
<1>4. DisputeHasEvidence'
  BY DEF Sound, TypeOK, TableInv, DisputeHasEvidence, CancelOfferWrites, WaitingOffersBecome
<1>5. LevelAtLeastCompletions'
  BY LevelKept, LevelRaised DEF Sound, TypeOK, TableInv, CancelOfferWrites, WaitingOffersBecome
<1>6. Grows
  BY NoFeeAssumption DEF Sound, TypeOK, Grows, CancelOfferWrites, Sides
<1>7. QED
  BY <1>1, <1>2, <1>3, <1>4, <1>5, <1>6 DEF SoundNext, TableInv

LEMMA AcceptOfferSound ==
  ASSUME Sound, NEW p \in Proposals, NEW u \in Users,
         proposalStatus[p] # "ABSENT", paidFee[p] # NoFee, AcceptOfferWrites(p, u)
  PROVE  SoundNext
<1>1. notifications' \subseteq Rows => TypeOK'
  BY NoUserAssumption, NoFeeAssumption DEF Sound, TypeOK, AcceptOfferWrites, Rows,
       ProposalStatus, OfferStatus, ReportStatus, Sides, Stamps, WaitingOffersBecome
<1>2. ShownConfirmed'
  BY DEF Sound, TypeOK, TableInv, ShownConfirmed, CompletedMeansBothConfirmed,
       AcceptOfferWrites, WaitingOffersBecome, Sides
<1>3. FeesKnown' /\ PublicMeansPaid'
  BY NoFeeAssumption DEF Sound, TypeOK, TableInv, FeesKnown, PublicMeansPaid,
       OpenProposalStatuses, MatchedProposalStatuses, AcceptOfferWrites
<1>4. DisputeHasEvidence'
  <2>1. \A q \in Proposals, v \in Users :
            offerStatus'[q][v] = offerStatus[q][v] \/ offerStatus'[q][v] \in {"REJECTED",
                 "ACCEPTED"}
    BY DEF Sound, TypeOK, AcceptOfferWrites, WaitingOffersBecome
  <2>2. UNCHANGED evidences
    BY DEF AcceptOfferWrites
  <2>3. QED
    BY <2>1, <2>2, EvidenceKept DEF Sound, TableInv
<1>5. LevelAtLeastCompletions'
  BY LevelKept, LevelRaised DEF Sound, TypeOK, TableInv, AcceptOfferWrites, WaitingOffersBecome
<1>6. Grows
  BY NoFeeAssumption DEF Sound, TypeOK, Grows, AcceptOfferWrites, Sides
<1>7. QED
  BY <1>1, <1>2, <1>3, <1>4, <1>5, <1>6 DEF SoundNext, TableInv

LEMMA CompleteDeliverySound ==
  ASSUME Sound, NEW p \in Proposals, NEW u \in Users, NEW seenStatus,
         proposalStatus[p] # "ABSENT", paidFee[p] # NoFee,
         seenStatus = "ORDER_COMPLETED" => proposalStamps[p]["orderer"] # "null",
         CompleteDeliveryWrites(p, u, seenStatus)
  PROVE  SoundNext
<1>1. notifications' \subseteq Rows => TypeOK'
  <2>1. proposalStamps' \in [Proposals -> [Sides -> Stamps]]
    BY DEF Sound, TypeOK, CompleteDeliveryWrites, Sides, Stamps
  <2>2. /\ proposalStatus' \in [Proposals -> ProposalStatus \cup {"ABSENT"}]
        /\ offerStatus' \in [Proposals -> [Users -> OfferStatus \cup {"ABSENT"}]]
        /\ level' \in [Users -> Nat]
        /\ \A q \in Proposals : proposalStatus'[q] = "ABSENT" <=> proposalStatus[q] = "ABSENT"
    <3>1. CASE seenStatus = "ORDER_COMPLETED"
      <4>1. /\ proposalStatus' = [proposalStatus EXCEPT ![p] = "ALL_COMPLETED"]
            /\ offerStatus' = [offerStatus EXCEPT ![p][u] = "ALL_COMPLETED"]
            /\ level' = [level EXCEPT ![u] = level[u] + 1]
        BY <3>1 DEF CompleteDeliveryWrites, MarkAllCompleted
      <4>2. QED
        BY <4>1 DEF Sound, TypeOK, ProposalStatus, OfferStatus
    <3>2. CASE seenStatus # "ORDER_COMPLETED"
      <4>1. /\ UNCHANGED <<proposalStatus, level>>
            /\ offerStatus' = [offerStatus EXCEPT ![p][u] = "RUNNER_COMPLETED"]
        BY <3>2 DEF CompleteDeliveryWrites
      <4>2. QED
        BY <4>1 DEF Sound, TypeOK, ProposalStatus, OfferStatus
    <3>3. QED
      BY <3>1, <3>2
  <2>3. offerStamps' \in [Proposals -> [Users -> [Sides -> Stamps]]]
    <3>1. /\ offerStamps \in [Proposals -> [Users -> [Sides -> Stamps]]]
          /\ "runner" \in Sides /\ "complete_delivery" \in Stamps
      BY DEF Sound, TypeOK, Sides, Stamps
    <3>2. CASE offerStamps' = [offerStamps EXCEPT ![p][u] = [side \in Sides |-> "complete_delivery"]]
      BY <3>1, <3>2
    <3>3. CASE offerStamps' = [offerStamps EXCEPT ![p][u]["runner"] = "complete_delivery"]
      BY <3>1, <3>3
    <3>4. QED
      BY <3>2, <3>3 DEF CompleteDeliveryWrites
  <2>4. QED
    BY <2>1, <2>2, <2>3 DEF Sound, TypeOK, CompleteDeliveryWrites, Rows
<1>2. ShownConfirmed'
  BY DEF Sound, TypeOK, TableInv, ShownConfirmed, CompletedMeansBothConfirmed,
       CompleteDeliveryWrites, MarkAllCompleted, WaitingOffersBecome, Sides
<1>3. FeesKnown' /\ PublicMeansPaid'
  BY NoFeeAssumption DEF Sound, TypeOK, TableInv, FeesKnown, PublicMeansPaid,
       OpenProposalStatuses, MatchedProposalStatuses, CompleteDeliveryWrites, MarkAllCompleted
<1>4. DisputeHasEvidence'
  <2>1. UNCHANGED evidences
    BY DEF CompleteDeliveryWrites
  <2>2. \A q \in Proposals, v \in Users :
            offerStatus'[q][v] = offerStatus[q][v]
              \/ offerStatus'[q][v] \in {"RUNNER_COMPLETED", "ALL_COMPLETED"}
    <3>1. CASE seenStatus = "ORDER_COMPLETED"
      <4>1. /\ proposalStatus' = [proposalStatus EXCEPT ![p] = "ALL_COMPLETED"]
            /\ offerStatus' = [offerStatus EXCEPT ![p][u] = "ALL_COMPLETED"]
            /\ level' = [level EXCEPT ![u] = level[u] + 1]
        BY <3>1 DEF CompleteDeliveryWrites, MarkAllCompleted
      <4>2. QED
        BY <4>1 DEF Sound, TypeOK
    <3>2. CASE seenStatus # "ORDER_COMPLETED"
      <4>1. /\ UNCHANGED <<proposalStatus, level>>
            /\ offerStatus' = [offerStatus EXCEPT ![p][u] = "RUNNER_COMPLETED"]
        BY <3>2 DEF CompleteDeliveryWrites
      <4>2. QED
        BY <4>1 DEF Sound, TypeOK
    <3>3. QED
      BY <3>1, <3>2
  <2>3. QED
    BY <2>1, <2>2, EvidenceKept DEF Sound, TableInv
<1>5. LevelAtLeastCompletions'
  <2>1. CASE seenStatus = "ORDER_COMPLETED"
    <3>1. /\ level' = [level EXCEPT ![u] = level[u] + 1]
          /\ offerStatus' = [offerStatus EXCEPT ![p][u] = "ALL_COMPLETED"]
      BY <2>1 DEF CompleteDeliveryWrites, MarkAllCompleted
    <3>2. QED
      BY <3>1, LevelRaised DEF Sound, TableInv
  <2>2. CASE seenStatus # "ORDER_COMPLETED"
    <3>1. UNCHANGED level /\ offerStatus' = [offerStatus EXCEPT ![p][u] = "RUNNER_COMPLETED"]
      BY <2>2 DEF CompleteDeliveryWrites
    <3>2. \A q \in Proposals, v \in Users :
            offerStatus'[q][v] = "ALL_COMPLETED" => offerStatus[q][v] = "ALL_COMPLETED"
      BY <3>1 DEF Sound, TypeOK
    <3>3. QED
      BY <3>1, <3>2, LevelKept DEF Sound, TableInv
  <2>3. QED
    BY <2>1, <2>2
<1>6. Grows
  <2>1. /\ proposalStamps' = [proposalStamps EXCEPT ![p]["runner"] = "complete_delivery"]
        /\ UNCHANGED <<paidFee, evidences>>
    BY DEF CompleteDeliveryWrites
  <2>2. \A q \in Proposals : proposalStatus[q] # "ABSENT" => proposalStatus'[q] # "ABSENT"
    BY DEF Sound, TypeOK, CompleteDeliveryWrites, MarkAllCompleted
  <2>3. \A q \in Proposals, v \in Users, side \in Sides :
            offerStamps[q][v][side] # "null" => offerStamps'[q][v][side] # "null"
    <3>1. CASE offerStamps' = [offerStamps EXCEPT ![p][u] = [side \in Sides |-> "complete_delivery"]]
      BY <3>1 DEF Sound, TypeOK
    <3>2. CASE offerStamps' = [offerStamps EXCEPT ![p][u]["runner"] = "complete_delivery"]
      BY <3>2 DEF Sound, TypeOK
    <3>3. QED
      BY <3>1, <3>2 DEF CompleteDeliveryWrites
  <2>4. \A q \in Proposals, side \in Sides :
            proposalStamps[q][side] # "null" => proposalStamps'[q][side] # "null"
    BY <2>1 DEF Sound, TypeOK
  <2>5. QED
    BY <2>1, <2>2, <2>3, <2>4 DEF Grows
<1>7. QED
  BY <1>1, <1>2, <1>3, <1>4, <1>5, <1>6 DEF SoundNext, TableInv

LEMMA ConfirmReceivedSound ==
  ASSUME Sound, NEW p \in Proposals, NEW u \in Users, NEW seenOffer,
         proposalStatus[p] # "ABSENT", paidFee[p] # NoFee,
         seenOffer = "RUNNER_COMPLETED" =>
            proposalStamps[p]["runner"] # "null" /\ offerStamps[p][u]["runner"] # "null",
         ConfirmReceivedWrites(p, u, seenOffer)
  PROVE  SoundNext
<1>1. notifications' \subseteq Rows => TypeOK'
  <2>1. /\ proposalStamps' \in [Proposals -> [Sides -> Stamps]]
        /\ offerStamps' \in [Proposals -> [Users -> [Sides -> Stamps]]]
    BY DEF Sound, TypeOK, ConfirmReceivedWrites, Sides, Stamps
  <2>2. /\ proposalStatus' \in [Proposals -> ProposalStatus \cup {"ABSENT"}]
        /\ offerStatus' \in [Proposals -> [Users -> OfferStatus \cup {"ABSENT"}]]
        /\ level' \in [Users -> Nat]
        /\ \A q \in Proposals : proposalStatus'[q] = "ABSENT" <=> proposalStatus[q] = "ABSENT"
    <3>1. CASE seenOffer = "RUNNER_COMPLETED"
      <4>1. /\ proposalStatus' = [proposalStatus EXCEPT ![p] = "ALL_COMPLETED"]
            /\ offerStatus' = [offerStatus EXCEPT ![p][u] = "ALL_COMPLETED"]
            /\ level' = [level EXCEPT ![u] = level[u] + 1]
        BY <3>1 DEF ConfirmReceivedWrites, MarkAllCompleted
      <4>2. QED
        BY <4>1 DEF Sound, TypeOK, ProposalStatus, OfferStatus
    <3>2. CASE seenOffer # "RUNNER_COMPLETED"
      <4>1. /\ UNCHANGED <<offerStatus, level>>
            /\ proposalStatus' = [proposalStatus EXCEPT ![p] = "ORDER_COMPLETED"]
        BY <3>2 DEF ConfirmReceivedWrites
      <4>2. QED
        BY <4>1 DEF Sound, TypeOK, ProposalStatus, OfferStatus
    <3>3. QED
      BY <3>1, <3>2
  <2>3. QED
    BY <2>1, <2>2 DEF Sound, TypeOK, ConfirmReceivedWrites, Rows
<1>2. ShownConfirmed'
  BY DEF Sound, TypeOK, TableInv, ShownConfirmed, CompletedMeansBothConfirmed,
       ConfirmReceivedWrites, MarkAllCompleted, WaitingOffersBecome, Sides
<1>3. FeesKnown' /\ PublicMeansPaid'
  BY NoFeeAssumption DEF Sound, TypeOK, TableInv, FeesKnown, PublicMeansPaid,
       OpenProposalStatuses, MatchedProposalStatuses, ConfirmReceivedWrites, MarkAllCompleted
<1>4. DisputeHasEvidence'
  <2>1. UNCHANGED evidences
    BY DEF ConfirmReceivedWrites
  <2>2. \A q \in Proposals, v \in Users :
            offerStatus'[q][v] = offerStatus[q][v]
              \/ offerStatus'[q][v] \in {"RUNNER_COMPLETED", "ALL_COMPLETED"}
    <3>1. CASE seenOffer = "RUNNER_COMPLETED"
      <4>1. /\ proposalStatus' = [proposalStatus EXCEPT ![p] = "ALL_COMPLETED"]
            /\ offerStatus' = [offerStatus EXCEPT ![p][u] = "ALL_COMPLETED"]
            /\ level' = [level EXCEPT ![u] = level[u] + 1]
        BY <3>1 DEF ConfirmReceivedWrites, MarkAllCompleted
      <4>2. QED
        BY <4>1 DEF Sound, TypeOK
    <3>2. CASE seenOffer # "RUNNER_COMPLETED"
      <4>1. /\ UNCHANGED <<offerStatus, level>>
            /\ proposalStatus' = [proposalStatus EXCEPT ![p] = "ORDER_COMPLETED"]
        BY <3>2 DEF ConfirmReceivedWrites
      <4>2. QED
        BY <4>1 DEF Sound, TypeOK
    <3>3. QED
      BY <3>1, <3>2
  <2>3. QED
    BY <2>1, <2>2, EvidenceKept DEF Sound, TableInv
<1>5. LevelAtLeastCompletions'
  BY LevelKept, LevelRaised DEF Sound, TypeOK, TableInv, ConfirmReceivedWrites,
       MarkAllCompleted, WaitingOffersBecome
<1>6. Grows
  BY NoFeeAssumption DEF Sound, TypeOK, Grows, ConfirmReceivedWrites, MarkAllCompleted, Sides
<1>7. QED
  BY <1>1, <1>2, <1>3, <1>4, <1>5, <1>6 DEF SoundNext, TableInv

LEMMA RaiseDisputeSound ==
  ASSUME Sound, NEW p \in Proposals, NEW u \in Users, NEW actor \in Users,
         proposalStatus[p] # "ABSENT", paidFee[p] # NoFee, RaiseDisputeWrites(p, u, actor)
  PROVE  SoundNext
<1>1. notifications' \subseteq Rows => TypeOK'
  BY NoUserAssumption, NoFeeAssumption DEF Sound, TypeOK, RaiseDisputeWrites, Rows,
       ProposalStatus, OfferStatus, ReportStatus, Sides, Stamps, WaitingOffersBecome
<1>2. ShownConfirmed'
  BY DEF Sound, TypeOK, TableInv, ShownConfirmed, CompletedMeansBothConfirmed,
       RaiseDisputeWrites, WaitingOffersBecome, Sides
<1>3. FeesKnown' /\ PublicMeansPaid'
  BY NoFeeAssumption DEF Sound, TypeOK, TableInv, FeesKnown, PublicMeansPaid,
       OpenProposalStatuses, MatchedProposalStatuses, RaiseDisputeWrites
<1>4. DisputeHasEvidence'
  <2> DEFINE filed == [proposal |-> p, runner |-> u, actor |-> actor]
  <2>1. evidences' = evidences \cup {filed} /\ filed.proposal = p /\ filed.runner = u
    BY DEF RaiseDisputeWrites
  <2> HIDE DEF filed
  <2>2. ASSUME NEW q \in Proposals, NEW v \in Users, q # p \/ v # u
        PROVE  offerStatus'[q][v] = offerStatus[q][v]
    BY <2>2 DEF Sound, TypeOK, RaiseDisputeWrites
  <2>3. \A q \in Proposals, v \in Users : offerStatus'[q][v] \in {"DISPUTED", "RESOLVED"} =>
            \/ offerStatus[q][v] \in {"DISPUTED", "RESOLVED"}
            \/ \E e \in evidences' : e.proposal = q /\ e.runner = v
    BY <2>1, <2>2
  <2>4. QED
    BY <2>1, <2>3, EvidenceKept DEF Sound, TableInv
<1>5. LevelAtLeastCompletions'
  BY LevelKept, LevelRaised DEF Sound, TypeOK, TableInv, RaiseDisputeWrites, WaitingOffersBecome
<1>6. Grows
  BY NoFeeAssumption DEF Sound, TypeOK, Grows, RaiseDisputeWrites, Sides
<1>7. QED
  BY <1>1, <1>2, <1>3, <1>4, <1>5, <1>6 DEF SoundNext, TableInv

LEMMA ResolveSound ==
  ASSUME Sound, NEW p \in Proposals, NEW u \in Users,
         proposalStatus[p] # "ABSENT", paidFee[p] # NoFee,
         \E e \in evidences : e.proposal = p /\ e.runner = u, ResolveWrites(p, u)
  PROVE  SoundNext
<1>1. notifications' \subseteq Rows => TypeOK'
  BY NoUserAssumption, NoFeeAssumption DEF Sound, TypeOK, ResolveWrites, Rows, ProposalStatus,
       OfferStatus, ReportStatus, Sides, Stamps, WaitingOffersBecome
<1>2. ShownConfirmed'
  BY DEF Sound, TypeOK, TableInv, ShownConfirmed, CompletedMeansBothConfirmed, ResolveWrites,
       WaitingOffersBecome, Sides
<1>3. FeesKnown' /\ PublicMeansPaid'
  BY NoFeeAssumption DEF Sound, TypeOK, TableInv, FeesKnown, PublicMeansPaid,
       OpenProposalStatuses, MatchedProposalStatuses, ResolveWrites
<1>4. DisputeHasEvidence'
  BY DEF Sound, TypeOK, TableInv, DisputeHasEvidence, ResolveWrites, WaitingOffersBecome
<1>5. LevelAtLeastCompletions'
  BY LevelKept, LevelRaised DEF Sound, TypeOK, TableInv, ResolveWrites, WaitingOffersBecome
<1>6. Grows
  BY NoFeeAssumption DEF Sound, TypeOK, Grows, ResolveWrites, Sides
<1>7. QED
  BY <1>1, <1>2, <1>3, <1>4, <1>5, <1>6 DEF SoundNext, TableInv

LEMMA UpdateAlarmSound ==
  ASSUME Sound, NEW u \in Users, NEW enabled \in BOOLEAN, NEW seenAlarm,
         UpdateAlarmWrites(u, enabled, seenAlarm)
  PROVE  SoundNext
<1>1. notifications' \subseteq Rows => TypeOK'
  BY NoUserAssumption, NoFeeAssumption DEF Sound, TypeOK, UpdateAlarmWrites, Rows,
       ProposalStatus, OfferStatus, ReportStatus, Sides, Stamps, WaitingOffersBecome
<1>2. ShownConfirmed'
  BY DEF Sound, TypeOK, TableInv, ShownConfirmed, CompletedMeansBothConfirmed,
       UpdateAlarmWrites, WaitingOffersBecome, Sides
<1>3. FeesKnown' /\ PublicMeansPaid'
  BY NoFeeAssumption DEF Sound, TypeOK, TableInv, FeesKnown, PublicMeansPaid,
       OpenProposalStatuses, MatchedProposalStatuses, UpdateAlarmWrites
<1>4. DisputeHasEvidence'
  BY DEF Sound, TypeOK, TableInv, DisputeHasEvidence, UpdateAlarmWrites, WaitingOffersBecome
<1>5. LevelAtLeastCompletions'
  BY LevelKept, LevelRaised DEF Sound, TypeOK, TableInv, UpdateAlarmWrites, WaitingOffersBecome
<1>6. Grows
  BY NoFeeAssumption DEF Sound, TypeOK, Grows, UpdateAlarmWrites, Sides
<1>7. QED
  BY <1>1, <1>2, <1>3, <1>4, <1>5, <1>6 DEF SoundNext, TableInv

LEMMA WithdrawUserSound ==
  ASSUME Sound, NEW u \in Users, NEW ps \in SUBSET Proposals, NEW offers,
         \A p \in ps : proposalStatus[p] # "ABSENT", WithdrawUserWrites(u, ps, offers)
  PROVE  SoundNext
<1>1. notifications' \subseteq Rows => TypeOK'
  BY NoUserAssumption, NoFeeAssumption DEF Sound, TypeOK, WithdrawUserWrites, Rows,
       ProposalStatus, OfferStatus, ReportStatus, Sides, Stamps, WaitingOffersBecome
<1>2. ShownConfirmed'
  BY DEF Sound, TypeOK, TableInv, ShownConfirmed, CompletedMeansBothConfirmed,
       WithdrawUserWrites, WaitingOffersBecome, Sides
<1>3. FeesKnown' /\ PublicMeansPaid'
  BY NoFeeAssumption DEF Sound, TypeOK, TableInv, FeesKnown, PublicMeansPaid,
       OpenProposalStatuses, MatchedProposalStatuses, WithdrawUserWrites
<1>4. DisputeHasEvidence'
  BY DEF Sound, TypeOK, TableInv, DisputeHasEvidence, WithdrawUserWrites, WaitingOffersBecome
<1>5. LevelAtLeastCompletions'
  BY LevelKept, LevelRaised DEF Sound, TypeOK, TableInv, WithdrawUserWrites, WaitingOffersBecome
<1>6. Grows
  BY NoFeeAssumption DEF Sound, TypeOK, Grows, WithdrawUserWrites, Sides
<1>7. QED
  BY <1>1, <1>2, <1>3, <1>4, <1>5, <1>6 DEF SoundNext, TableInv

--------------------------------------------------------------------------------
(* Begin: the guard holds on what was read, so the request knows it is true.   *)

SessionInv == SessionTypeOK /\ TableInv /\ RequestsInv

(* The record a request starts with. *)
Begun(op, actor, p, u, fee, seen, notes) ==
    [op |-> op, actor |-> actor, proposal |-> p, runner |-> u, fee |-> fee,
     seen |-> seen, notes |-> notes]

LEMMA StartKeeps ==
  ASSUME SessionInv, NEW t \in Threads, NEW op, NEW actor, NEW p, NEW u, NEW fee, NEW seen,
         NEW notes, Start(t, op, actor, p, u, fee, seen, notes),
         Begun(op, actor, p, u, fee, seen, notes) \in Requests,
         StillKnown(Begun(op, actor, p, u, fee, seen, notes))
  PROVE  SessionInv'
<1> DEFINE r == Begun(op, actor, p, u, fee, seen, notes)
<1>1. request' = [request EXCEPT ![t] = r] /\ UNCHANGED vars
  BY DEF Start, Begun
<1>2. r \in Requests /\ StillKnown(r)
  OBVIOUS
<1> HIDE DEF r
<1>3. SessionTypeOK' /\ TableInv'
  BY <1>1, <1>2 DEF SessionInv, SessionTypeOK, TypeOK, vars, TableInv, ShownConfirmed,
     CompletedMeansBothConfirmed, FeesKnown, PublicMeansPaid, DisputeHasEvidence,
     LevelAtLeastCompletions
<1>4. ASSUME NEW s \in Threads, request'[s] # NoRequest PROVE StillKnown(request[s])'
  <2>1. PICK q : q = request'[s]
    OBVIOUS
  <2>2. StillKnown(q)
    BY <1>1, <1>2, <1>4, <2>1 DEF SessionInv, SessionTypeOK, RequestsInv
  <2>3. StillKnown(q)'
    BY <1>1, <2>2 DEF vars, StillKnown
  <2>4. QED
    BY <2>1, <2>3 DEF StillKnown
<1>5. RequestsInv'
  BY <1>4 DEF RequestsInv
<1>6. QED
  BY <1>3, <1>5 DEF SessionInv

LEMMA ReadType ==
  ASSUME TypeOK, NEW p \in Proposals, NEW u \in Users
  PROVE  /\ Read(p, u) \in Reads /\ Read(p, u).status = proposalStatus[p]
         /\ Read(p, u).offer = offerStatus[p][u] /\ Read(p, u).fee = errandFee[p]
  BY DEF TypeOK, Read, Reads

LEMMA BeginProposalKeeps ==
  ASSUME SessionInv, NEW t \in Threads, NEW p \in Proposals, NEW u \in Users,
         BeginProposalRequest(t, p, u)
  PROVE  SessionInv'
<1>1. TypeOK /\ Read(p, u) \in Reads /\ Read(p, u).fee = errandFee[p]
  BY ReadType DEF SessionInv, SessionTypeOK
<1>2. CASE CanUpdateProposal(p) /\ u = orderer[p]
            /\ \E fee \in Fees : Start(t, "update_proposal", u, p, u, fee, Read(p, u), {})
  <2>1. PICK fee \in Fees : Start(t, "update_proposal", u, p, u, fee, Read(p, u), {})
    BY <1>2
  <2>2. Begun("update_proposal", u, p, u, fee, Read(p, u), {}) \in Requests
    BY <1>1 DEF Requests, Begun
  <2>3. StillKnown(Begun("update_proposal", u, p, u, fee, Read(p, u), {}))
    BY <1>2 DEF StillKnown, Begun, UserOps, PaidOps, CanUpdateProposal, EditableStatuses
  <2>4. QED
    BY <2>1, <2>2, <2>3, StartKeeps
<1>3. CASE CanCancelProposal(p) /\ u = orderer[p]
            /\ Start(t, "cancel_proposal", u, p, u, NoFee, Read(p, u), {})
  <2>1. Begun("cancel_proposal", u, p, u, NoFee, Read(p, u), {}) \in Requests
    BY <1>1 DEF Requests, Begun
  <2>2. StillKnown(Begun("cancel_proposal", u, p, u, NoFee, Read(p, u), {}))
    BY <1>3 DEF StillKnown, Begun, UserOps, PaidOps, CanCancelProposal, CancellableStatuses
  <2>3. QED
    BY <1>3, <2>1, <2>2, StartKeeps
<1>4. CASE CanConfirmPayment(p) /\ u = orderer[p]
            /\ Start(t, "confirm_payment", Admin, p, u, NoFee, Read(p, u), {})
  <2>1. Begun("confirm_payment", Admin, p, u, NoFee, Read(p, u), {}) \in Requests
    BY <1>1 DEF Requests, Begun
  <2>2. StillKnown(Begun("confirm_payment", Admin, p, u, NoFee, Read(p, u), {}))
    BY <1>1, <1>4 DEF StillKnown, Begun, UserOps, PaidOps, CanConfirmPayment, SessionInv,
       TableInv, FeesKnown
  <2>3. QED
    BY <1>4, <2>1, <2>2, StartKeeps
<1>5. QED
  BY <1>2, <1>3, <1>4 DEF BeginProposalRequest

LEMMA BeginReportKeeps ==
  ASSUME SessionInv, NEW t \in Threads, NEW p \in Proposals, NEW u \in Users,
         BeginReportRequest(t, p, u)
  PROVE  SessionInv'
<1>1. TypeOK /\ Read(p, u) \in Reads
  BY ReadType DEF SessionInv, SessionTypeOK
<1>2. CASE CanCreateReport(p, u) /\ u \in Reporters
            /\ Start(t, "create_report", u, p, u, NoFee, Read(p, u), {})
  <2>1. Begun("create_report", u, p, u, NoFee, Read(p, u), {}) \in Requests
    BY <1>1 DEF Requests, Begun
  <2>2. StillKnown(Begun("create_report", u, p, u, NoFee, Read(p, u), {}))
    BY <1>2 DEF StillKnown, Begun, UserOps, PaidOps, CanCreateReport, OpenProposalStatuses
  <2>3. QED
    BY <1>2, <2>1, <2>2, StartKeeps
<1>3. CASE CanAcceptReport(p, u)
            /\ Start(t, "accept_report", Admin, p, u, NoFee, Read(p, u), {})
  <2>1. Begun("accept_report", Admin, p, u, NoFee, Read(p, u), {}) \in Requests
    BY <1>1 DEF Requests, Begun
  <2>2. StillKnown(Begun("accept_report", Admin, p, u, NoFee, Read(p, u), {}))
    BY <1>3 DEF StillKnown, Begun, UserOps, PaidOps, CanAcceptReport, OpenProposalStatuses
  <2>3. QED
    BY <1>3, <2>1, <2>2, StartKeeps
<1>4. CASE CanRejectReport(p, u)
            /\ Start(t, "reject_report", Admin, p, u, NoFee, Read(p, u), {})
  <2>1. Begun("reject_report", Admin, p, u, NoFee, Read(p, u), {}) \in Requests
    BY <1>1 DEF Requests, Begun
  <2>2. StillKnown(Begun("reject_report", Admin, p, u, NoFee, Read(p, u), {}))
    BY <1>4 DEF StillKnown, Begun, UserOps, PaidOps, CanRejectReport, OpenProposalStatuses
  <2>3. QED
    BY <1>4, <2>1, <2>2, StartKeeps
<1>5. QED
  BY <1>2, <1>3, <1>4 DEF BeginReportRequest

(* The notifications a request prepares are rows, and its paid proposal is.    *)
LEMMA NotesAreRows ==
  ASSUME TypeOK, NEW p \in Proposals, NEW u \in Users, proposalStatus[p] # "ABSENT"
  PROVE  /\ orderer[p] \in Users
         /\ OnOfferCreated(p, u) \subseteq Rows
         /\ OnOfferAccepted(p, u, RejectedRunners(p, u)) \subseteq Rows
         /\ OnMeetingConfirmedByRunner(p, u) \subseteq Rows
         /\ OnMeetingConfirmedByOrderer(p, u) \subseteq Rows
         /\ OnDisputeRaisedByRunner(p, u) \subseteq Rows
         /\ OnDisputeRaisedByOrderer(p, u) \subseteq Rows
<1>1. orderer[p] \in Users /\ RejectedRunners(p, u) \subseteq Users
  BY DEF TypeOK, RejectedRunners
<1>2. OnOfferCreated(p, u) \subseteq Rows
  BY <1>1, NoteType DEF OnOfferCreated, IfAlarmEnabled, NotificationTypes, Rows
<1>3. OnOfferAccepted(p, u, RejectedRunners(p, u)) \subseteq Rows
  BY <1>1, NoteType DEF OnOfferAccepted, IfAlarmEnabled, NotificationTypes, Rows
<1>4. OnMeetingConfirmedByRunner(p, u) \subseteq Rows
  BY <1>1, NoteType DEF OnMeetingConfirmedByRunner, IfAlarmEnabled, NotificationTypes, Rows
<1>5. OnMeetingConfirmedByOrderer(p, u) \subseteq Rows
  BY <1>1, NoteType DEF OnMeetingConfirmedByOrderer, IfAlarmEnabled, NotificationTypes, Rows
<1>6. OnDisputeRaisedByRunner(p, u) \subseteq Rows
  BY <1>1, NoteType DEF OnDisputeRaisedByRunner, IfAlarmEnabled, NotificationTypes, Rows
<1>7. OnDisputeRaisedByOrderer(p, u) \subseteq Rows
  BY <1>1, NoteType DEF OnDisputeRaisedByOrderer, IfAlarmEnabled, NotificationTypes, Rows
<1>8. QED
  BY <1>1, <1>2, <1>3, <1>4, <1>5, <1>6, <1>7

LEMMA BeginOfferKeeps ==
  ASSUME SessionInv, NEW t \in Threads, NEW p \in Proposals, NEW u \in Users,
         BeginOfferRequest(t, p, u)
  PROVE  SessionInv'
<1>1. TypeOK /\ Read(p, u) \in Reads
  BY ReadType DEF SessionInv, SessionTypeOK
<1>2. CASE CanCreateOffer(p, u)
            /\ Start(t, "create_offer", u, p, u, NoFee, Read(p, u), OnOfferCreated(p, u))
  <2>1. Begun("create_offer", u, p, u, NoFee, Read(p, u), OnOfferCreated(p, u)) \in Requests
    BY <1>1, <1>2, NotesAreRows DEF Requests, Begun, Rows, CanCreateOffer, OpenProposalStatuses
  <2>2. StillKnown(Begun("create_offer", u, p, u, NoFee, Read(p, u), OnOfferCreated(p, u)))
    BY <1>2
       DEF StillKnown, Begun, UserOps, PaidOps, CanCreateOffer, OpenProposalStatuses,
            SessionInv,
           TableInv, PublicMeansPaid
  <2>3. QED
    BY <1>2, <2>1, <2>2, StartKeeps
<1>3. CASE CanCancelOffer(p, u)
            /\ Start(t, "cancel_offer", u, p, u, NoFee, Read(p, u), {})
  <2>1. Begun("cancel_offer", u, p, u, NoFee, Read(p, u), {}) \in Requests
    BY <1>1 DEF Requests, Begun
  <2>2. StillKnown(Begun("cancel_offer", u, p, u, NoFee, Read(p, u), {}))
    BY <1>3
       DEF StillKnown, Begun, UserOps, PaidOps, CanCancelOffer
  <2>3. QED
    BY <1>3, <2>1, <2>2, StartKeeps
<1>4. CASE CanAcceptOffer(p, u)
            /\ Start(t, "accept_offer", orderer[p], p, u, NoFee, Read(p, u), OnOfferAccepted(p,
                 u, RejectedRunners(p, u)))
  <2>1. Begun("accept_offer", orderer[p], p, u, NoFee, Read(p, u), OnOfferAccepted(p, u,
       RejectedRunners(p, u))) \in Requests
    BY <1>1, <1>4, NotesAreRows DEF Requests, Begun, Rows, CanAcceptOffer
  <2>2. StillKnown(Begun("accept_offer", orderer[p], p, u, NoFee, Read(p, u),
       OnOfferAccepted(p, u, RejectedRunners(p, u))))
    BY <1>4
       DEF StillKnown, Begun, UserOps, PaidOps, CanAcceptOffer, OpenProposalStatuses,
            SessionInv,
           TableInv, PublicMeansPaid
  <2>3. QED
    BY <1>4, <2>1, <2>2, StartKeeps
<1>5. QED
  BY <1>2, <1>3, <1>4 DEF BeginOfferRequest

LEMMA BeginExecutionKeeps ==
  ASSUME SessionInv, NEW t \in Threads, NEW p \in Proposals, NEW u \in Users,
         BeginExecutionRequest(t, p, u)
  PROVE  SessionInv'
<1>1. /\ TypeOK /\ Read(p, u) \in Reads /\ Read(p, u).status = proposalStatus[p]
      /\ Read(p, u).offer = offerStatus[p][u] /\ "orderer" \in Sides /\ "runner" \in Sides
  BY ReadType DEF SessionInv, SessionTypeOK, Sides
<1>2. CASE CanCompleteDelivery(p, u)
            /\ Start(t, "complete_delivery", u, p, u, NoFee, Read(p, u),
                 OnMeetingConfirmedByRunner(p, u))
  <2>1. Begun("complete_delivery", u, p, u, NoFee, Read(p, u), OnMeetingConfirmedByRunner(p,
       u)) \in Requests
    BY <1>1, <1>2, NotesAreRows DEF Requests, Begun, Rows, CanCompleteDelivery
  <2>2. StillKnown(Begun("complete_delivery", u, p, u, NoFee, Read(p, u),
       OnMeetingConfirmedByRunner(p, u)))
    BY <1>1, <1>2
       DEF StillKnown, Begun, UserOps, PaidOps, CanCompleteDelivery, SessionInv,
           TableInv, PublicMeansPaid, MatchedProposalStatuses,
           ShownConfirmed
  <2>3. QED
    BY <1>2, <2>1, <2>2, StartKeeps
<1>3. CASE CanConfirmReceived(p, u)
            /\ Start(t, "confirm_received", orderer[p], p, u, NoFee, Read(p, u),
                 OnMeetingConfirmedByOrderer(p, u))
  <2>1. Begun("confirm_received", orderer[p], p, u, NoFee, Read(p, u),
       OnMeetingConfirmedByOrderer(p, u)) \in Requests
    BY <1>1, <1>3, NotesAreRows DEF Requests, Begun, Rows, CanConfirmReceived
  <2>2. StillKnown(Begun("confirm_received", orderer[p], p, u, NoFee, Read(p, u),
       OnMeetingConfirmedByOrderer(p, u)))
    BY <1>1, <1>3
       DEF StillKnown, Begun, UserOps, PaidOps, CanConfirmReceived, SessionInv,
           TableInv, PublicMeansPaid, MatchedProposalStatuses,
           ShownConfirmed
  <2>3. QED
    BY <1>3, <2>1, <2>2, StartKeeps
<1>4. CASE ~deleted[u] /\ CanRaiseDispute(p, u)
            /\ Start(t, "raise_dispute", u, p, u, NoFee, Read(p, u), OnDisputeRaisedByRunner(p,
                 u))
  <2>1. Begun("raise_dispute", u, p, u, NoFee, Read(p, u), OnDisputeRaisedByRunner(p,
       u)) \in Requests
    BY <1>1, <1>4, NotesAreRows DEF Requests, Begun, Rows, CanRaiseDispute
  <2>2. StillKnown(Begun("raise_dispute", u, p, u, NoFee, Read(p, u),
       OnDisputeRaisedByRunner(p, u)))
    BY <1>4
       DEF StillKnown, Begun, UserOps, PaidOps, CanRaiseDispute, SessionInv,
           TableInv, PublicMeansPaid, MatchedProposalStatuses
  <2>3. QED
    BY <1>4, <2>1, <2>2, StartKeeps
<1>5. CASE OwnerCalls(p) /\ IsExecutionOffer(p, u) /\ CanRaiseDispute(p, u)
            /\ Start(t, "raise_dispute", orderer[p], p, u, NoFee, Read(p, u),
                 OnDisputeRaisedByOrderer(p, u))
  <2>1. Begun("raise_dispute", orderer[p], p, u, NoFee, Read(p, u), OnDisputeRaisedByOrderer(p,
       u)) \in Requests
    BY <1>1, <1>5, NotesAreRows DEF Requests, Begun, Rows, CanRaiseDispute
  <2>2. StillKnown(Begun("raise_dispute", orderer[p], p, u, NoFee, Read(p, u),
       OnDisputeRaisedByOrderer(p, u)))
    BY <1>5
       DEF StillKnown, Begun, UserOps, PaidOps, CanRaiseDispute, OwnerCalls, SessionInv,
           TableInv, PublicMeansPaid, MatchedProposalStatuses
  <2>3. QED
    BY <1>5, <2>1, <2>2, StartKeeps
<1>6. CASE CanResolve(p, u)
            /\ Start(t, "resolve", Admin, p, u, NoFee, Read(p, u), {})
  <2>1. Begun("resolve", Admin, p, u, NoFee, Read(p, u), {}) \in Requests
    BY <1>1 DEF Requests, Begun
  <2>2. StillKnown(Begun("resolve", Admin, p, u, NoFee, Read(p, u), {}))
    BY <1>6
       DEF StillKnown, Begun, UserOps, PaidOps, CanResolve, SessionInv,
           TableInv, PublicMeansPaid, MatchedProposalStatuses,
           DisputeHasEvidence
  <2>3. QED
    BY <1>6, <2>1, <2>2, StartKeeps
<1>7. QED
  BY <1>2, <1>3, <1>4, <1>5, <1>6 DEF BeginExecutionRequest

LEMMA BeginUserKeeps ==
  ASSUME SessionInv, NEW t \in Threads, NEW u \in Users, BeginUserRequest(t, u)
  PROVE  SessionInv'
<1>1. TypeOK /\ ReadUser(u) \in Reads
  BY DEF SessionInv, SessionTypeOK, TypeOK, ReadUser, Reads
<1>2. /\ ReadActivity(u) \in Reads /\ ReadActivity(u).proposals = PreMatchProposals(u)
  BY <1>1 DEF ReadActivity, ReadUser, Reads, PreMatchProposals, WaitingOffersTouched
<1>3. CASE \E fee \in Fees :
            Start(t, "create_proposal", u, NoProposal, u, fee, ReadUser(u), {})
  <2>1. PICK fee \in Fees : Start(t, "create_proposal", u, NoProposal, u, fee, ReadUser(u), {})
    BY <1>3
  <2>2. Begun("create_proposal", u, NoProposal, u, fee, ReadUser(u), {}) \in Requests
    BY <1>1 DEF Requests, Begun
  <2>3. StillKnown(Begun("create_proposal", u, NoProposal, u, fee, ReadUser(u), {}))
    BY DEF StillKnown, Begun, UserOps, PaidOps
  <2>4. QED
    BY <2>1, <2>2, <2>3, StartKeeps
<1>4. CASE \E op \in {"alarm_on", "alarm_off"} :
            Start(t, op, u, NoProposal, u, NoFee, ReadUser(u), {})
  <2>1. PICK op \in {"alarm_on", "alarm_off"} :
            Start(t, op, u, NoProposal, u, NoFee, ReadUser(u), {})
    BY <1>4
  <2>2. Begun(op, u, NoProposal, u, NoFee, ReadUser(u), {}) \in Requests
    BY <1>1 DEF Requests, Begun
  <2>3. StillKnown(Begun(op, u, NoProposal, u, NoFee, ReadUser(u), {}))
    BY DEF StillKnown, Begun, UserOps, PaidOps
  <2>4. QED
    BY <2>1, <2>2, <2>3, StartKeeps
<1>5. CASE CanWithdrawUser(u)
            /\ Start(t, "withdraw", u, NoProposal, u, NoFee, ReadActivity(u), {})
  <2>1. Begun("withdraw", u, NoProposal, u, NoFee, ReadActivity(u), {}) \in Requests
    BY <1>2 DEF Requests, Begun
  <2>2. StillKnown(Begun("withdraw", u, NoProposal, u, NoFee, ReadActivity(u), {}))
    BY <1>2
       DEF StillKnown, Begun, UserOps, PaidOps, PreMatchProposals, CancellableStatuses
  <2>3. QED
    BY <1>5, <2>1, <2>2, StartKeeps
<1>6. QED
  BY <1>3, <1>4, <1>5 DEF BeginUserRequest

--------------------------------------------------------------------------------
(* Commit: the writes of one request, then what the other ones still know.     *)

LEMMA CommitProposalSound ==
  ASSUME Sound, NEW r \in Requests, StillKnown(r), CommitProposalRequest(r, r.proposal,
       r.runner)
  PROVE  SoundNext
<1>1. r.op \in {"update_proposal", "cancel_proposal", "confirm_payment"}
  BY DEF CommitProposalRequest
<1>2. r.proposal \in Proposals /\ proposalStatus[r.proposal] # "ABSENT"
  BY <1>1 DEF StillKnown, UserOps
<1>3. CASE r.op = "update_proposal"
  BY <1>2, <1>3, UpdateProposalSound DEF CommitProposalRequest, StillKnown
<1>4. CASE r.op = "cancel_proposal"
  BY <1>2, <1>4, CancelProposalSound DEF CommitProposalRequest
<1>5. CASE r.op = "confirm_payment"
  BY <1>2, <1>5, ConfirmPaymentSound DEF CommitProposalRequest, StillKnown
<1>6. QED
  BY <1>1, <1>3, <1>4, <1>5

LEMMA CommitReportSound ==
  ASSUME Sound, NEW r \in Requests, StillKnown(r), CommitReportRequest(r, r.proposal, r.runner)
  PROVE  SoundNext
<1>1. r.op \in {"create_report", "accept_report", "reject_report"} /\ r.runner \in Users
  BY DEF CommitReportRequest, Requests
<1>2. r.proposal \in Proposals
  BY <1>1 DEF StillKnown, UserOps
<1>3. CASE r.op = "create_report"
  BY <1>1, <1>2, <1>3, CreateReportSound DEF CommitReportRequest
<1>4. CASE r.op = "accept_report"
  <2>1. proposalStatus[r.proposal] # "ABSENT"
    BY <1>4 DEF StillKnown, UserOps
  <2>2. QED
    BY <1>1, <1>2, <1>4, <2>1, AcceptReportSound DEF CommitReportRequest
<1>5. CASE r.op = "reject_report"
  BY <1>1, <1>2, <1>5, RejectReportSound DEF CommitReportRequest
<1>6. QED
  BY <1>1, <1>3, <1>4, <1>5

LEMMA CommitOfferSound ==
  ASSUME Sound, NEW r \in Requests, StillKnown(r), CommitOfferRequest(r, r.proposal, r.runner)
  PROVE  SoundNext
<1>1. r.op \in {"create_offer", "cancel_offer", "accept_offer"} /\ r.runner \in Users
  BY DEF CommitOfferRequest, Requests
<1>2. r.proposal \in Proposals
  BY <1>1 DEF StillKnown, UserOps
<1>3. r.op # "cancel_offer" =>
        proposalStatus[r.proposal] # "ABSENT" /\ paidFee[r.proposal] # NoFee
  BY <1>1 DEF StillKnown, UserOps, PaidOps
<1>4. CASE r.op = "create_offer"
  BY <1>1, <1>2, <1>3, <1>4, CreateOfferSound DEF CommitOfferRequest
<1>5. CASE r.op = "cancel_offer"
  BY <1>1, <1>2, <1>5, CancelOfferSound DEF CommitOfferRequest
<1>6. CASE r.op = "accept_offer"
  BY <1>1, <1>2, <1>3, <1>6, AcceptOfferSound DEF CommitOfferRequest
<1>7. QED
  BY <1>1, <1>4, <1>5, <1>6

LEMMA CommitExecutionSound ==
  ASSUME Sound, NEW r \in Requests, StillKnown(r),
         CommitExecutionRequest(r, r.proposal, r.runner)
  PROVE  SoundNext
<1>1. /\ r.op \in {"complete_delivery", "confirm_received", "raise_dispute", "resolve"}
      /\ r.runner \in Users
  BY DEF CommitExecutionRequest, Requests
<1>2. /\ r.proposal \in Proposals
      /\ proposalStatus[r.proposal] # "ABSENT" /\ paidFee[r.proposal] # NoFee
  BY <1>1 DEF StillKnown, UserOps, PaidOps
<1>3. CASE r.op = "complete_delivery"
  BY <1>1, <1>2, <1>3, CompleteDeliverySound DEF CommitExecutionRequest, StillKnown
<1>4. CASE r.op = "confirm_received"
  BY <1>1, <1>2, <1>4, ConfirmReceivedSound DEF CommitExecutionRequest, StillKnown
<1>5. CASE r.op = "raise_dispute"
  BY <1>1, <1>2, <1>5, RaiseDisputeSound DEF CommitExecutionRequest, StillKnown
<1>6. CASE r.op = "resolve"
  BY <1>1, <1>2, <1>6, ResolveSound DEF CommitExecutionRequest, StillKnown
<1>7. QED
  BY <1>1, <1>3, <1>4, <1>5, <1>6

LEMMA CommitUserSound ==
  ASSUME Sound, NEW r \in Requests, StillKnown(r), CommitUserRequest(r, r.runner)
  PROVE  SoundNext
<1>1. r.op \in {"create_proposal", "alarm_on", "alarm_off"} /\ r.runner \in Users
  BY DEF CommitUserRequest, Requests
<1>2. CASE r.op = "create_proposal"
  <2>1. PICK p \in Proposals :
            proposalStatus[p] = "ABSENT" /\ CreateProposalWrites(p, r.runner, r.fee)
    BY <1>2 DEF CommitUserRequest
  <2>2. r.fee \in Fees
    BY <1>2 DEF StillKnown
  <2>3. QED
    BY <1>1, <2>1, <2>2, CreateProposalSound
<1>3. CASE r.op = "alarm_on"
  BY <1>1, <1>3, UpdateAlarmSound DEF CommitUserRequest
<1>4. CASE r.op = "alarm_off"
  BY <1>1, <1>4, UpdateAlarmSound DEF CommitUserRequest
<1>5. QED
  BY <1>1, <1>2, <1>3, <1>4

LEMMA CommitSound ==
  ASSUME SessionInv, NEW t \in Threads, Commit(t)
  PROVE  SoundNext /\ notifications' \subseteq Rows
<1>1. PICK r : r = request[t]
  OBVIOUS
<1>2. r \in Requests /\ StillKnown(r) /\ Sound
  BY <1>1 DEF SessionInv, SessionTypeOK, RequestsInv, Commit, Sound
<1>3. ASSUME \/ CommitProposalRequest(r, r.proposal, r.runner)
             \/ CommitReportRequest(r, r.proposal, r.runner)
             \/ CommitOfferRequest(r, r.proposal, r.runner)
             \/ CommitExecutionRequest(r, r.proposal, r.runner)
             \/ CommitUserRequest(r, r.runner),
             Publish(r.notes)
      PROVE  SoundNext /\ notifications' \subseteq Rows
  <2>1. SoundNext
    BY <1>2, <1>3, CommitProposalSound, CommitReportSound, CommitOfferSound,
       CommitExecutionSound, CommitUserSound
  <2>2. notifications' \subseteq Rows
    BY <1>2, <1>3 DEF Publish, Requests, Rows, Sound, TypeOK
  <2>3. QED
    BY <2>1, <2>2
<1>4. ASSUME CommitWithdrawal(r, r.runner)
      PROVE  SoundNext /\ notifications' \subseteq Rows
  <2>1. SoundNext
    <3>1. /\ r.runner \in Users /\ r.seen.proposals \in SUBSET Proposals
          /\ \A p \in r.seen.proposals : proposalStatus[p] # "ABSENT"
      BY <1>2, <1>4 DEF Requests, Reads, StillKnown, CommitWithdrawal
    <3>2. QED
      BY <1>2, <1>4, <3>1, WithdrawUserSound DEF CommitWithdrawal
  <2>2. notifications' \subseteq Rows
    BY <1>2, <1>4 DEF CommitWithdrawal, DeleteNotifications, Rows, Sound, TypeOK
  <2>3. QED
    BY <2>1, <2>2
<1>5. QED
  BY <1>1, <1>3, <1>4 DEF Commit

LEMMA CommitKeeps ==
  ASSUME SessionInv, NEW t \in Threads, Commit(t)
  PROVE  SessionInv'
<1>1. request' = [request EXCEPT ![t] = NoRequest]
  BY DEF Commit, Finish
<1>2. SoundNext /\ notifications' \subseteq Rows
  BY CommitSound
<1>3. SessionTypeOK' /\ TableInv'
  BY <1>1, <1>2 DEF SoundNext, SessionInv, SessionTypeOK
<1>4. ASSUME NEW s \in Threads, request'[s] # NoRequest PROVE StillKnown(request[s])'
  <2>1. PICK q : q = request'[s]
    OBVIOUS
  <2>2. q \in Requests /\ StillKnown(q)
    BY <1>1, <1>4, <2>1 DEF SessionInv, SessionTypeOK, RequestsInv
  <2>3. StillKnown(q)'
    BY <1>2, <2>2, StillKnownLater DEF SoundNext
  <2>4. QED
    BY <2>1, <2>3 DEF StillKnown
<1>5. RequestsInv'
  BY <1>4 DEF RequestsInv
<1>6. QED
  BY <1>3, <1>5 DEF SessionInv

LEMMA AbortKeeps ==
  ASSUME SessionInv, NEW t \in Threads, Finish(t), UNCHANGED vars
  PROVE  SessionInv'
<1>1. request' = [request EXCEPT ![t] = NoRequest]
  BY DEF Finish
<1>2. SessionTypeOK' /\ TableInv'
  BY <1>1 DEF SessionInv, SessionTypeOK, TypeOK, vars, TableInv, ShownConfirmed,
     CompletedMeansBothConfirmed, FeesKnown, PublicMeansPaid, DisputeHasEvidence,
     LevelAtLeastCompletions
<1>3. ASSUME NEW s \in Threads, request'[s] # NoRequest PROVE StillKnown(request[s])'
  <2>1. PICK q : q = request'[s]
    OBVIOUS
  <2>2. StillKnown(q)
    BY <1>1, <1>3, <2>1 DEF SessionInv, SessionTypeOK, RequestsInv
  <2>3. StillKnown(q)'
    BY <2>2 DEF vars, StillKnown
  <2>4. QED
    BY <2>1, <2>3 DEF StillKnown
<1>4. RequestsInv'
  BY <1>3 DEF RequestsInv
<1>5. QED
  BY <1>2, <1>4 DEF SessionInv

LEMMA SessionUnchanged == SessionInv /\ UNCHANGED sessionVars => SessionInv'
<1> SUFFICES ASSUME SessionInv, UNCHANGED sessionVars PROVE SessionInv'
  OBVIOUS
<1>1. request' = request /\ UNCHANGED vars
  BY DEF sessionVars
<1>2. SessionTypeOK' /\ TableInv'
  BY <1>1 DEF SessionInv, SessionTypeOK, TypeOK, vars, TableInv, ShownConfirmed,
     CompletedMeansBothConfirmed, FeesKnown, PublicMeansPaid, DisputeHasEvidence,
     LevelAtLeastCompletions
<1>3. RequestsInv'
  BY <1>1 DEF SessionInv, RequestsInv, StillKnown, vars
<1>4. QED
  BY <1>2, <1>3 DEF SessionInv

LEMMA SessionInitInv == SessionInit => SessionInv
<1> SUFFICES ASSUME SessionInit PROVE SessionInv
  OBVIOUS
<1>1. SessionTypeOK
  BY InitType DEF SessionInit, SessionTypeOK
<1>2. RequestsInv
  BY DEF SessionInit, RequestsInv
<1>3. LevelAtLeastCompletions
  <2> DEFINE Done(u) == {p \in Proposals : offerStatus[p][u] = "ALL_COMPLETED"}
  <2>1. ASSUME NEW u \in Users PROVE level[u] >= Cardinality(Done(u))
    <3>1. Done(u) = {} /\ level[u] = 0
      BY DEF SessionInit, Init
    <3>2. Cardinality(Done(u)) = 0
      BY <3>1, FS_EmptySet
    <3> HIDE DEF Done
    <3>3. QED
      BY <3>1, <3>2
  <2>2. QED
    BY <2>1 DEF LevelAtLeastCompletions
<1>4. ShownConfirmed /\ FeesKnown /\ PublicMeansPaid /\ DisputeHasEvidence
  BY DEF SessionInit, Init, ShownConfirmed, CompletedMeansBothConfirmed, FeesKnown,
         PublicMeansPaid, DisputeHasEvidence, OpenProposalStatuses, MatchedProposalStatuses
<1>5. QED
  BY <1>1, <1>2, <1>3, <1>4 DEF SessionInv, TableInv

LEMMA SessionNextInv == SessionInv /\ [SessionNext]_sessionVars => SessionInv'
<1> SUFFICES ASSUME SessionInv, SessionNext PROVE SessionInv'
  BY SessionUnchanged
<1>1. PICK t \in Threads :
        \/ \E p \in Proposals, u \in Users :
              \/ BeginProposalRequest(t, p, u)
              \/ BeginReportRequest(t, p, u)
              \/ BeginOfferRequest(t, p, u)
              \/ BeginExecutionRequest(t, p, u)
        \/ \E u \in Users : BeginUserRequest(t, u)
        \/ Commit(t)
        \/ Abort(t)
  BY DEF SessionNext
<1>2. CASE \E p \in Proposals, u \in Users :
              \/ BeginProposalRequest(t, p, u)
              \/ BeginReportRequest(t, p, u)
              \/ BeginOfferRequest(t, p, u)
              \/ BeginExecutionRequest(t, p, u)
  BY <1>2, BeginProposalKeeps, BeginReportKeeps, BeginOfferKeeps, BeginExecutionKeeps
<1>3. CASE \E u \in Users : BeginUserRequest(t, u)
  BY <1>3, BeginUserKeeps
<1>4. CASE Commit(t)
  BY <1>4, CommitKeeps
<1>5. CASE Abort(t)
  BY <1>5, AbortKeeps DEF Abort
<1>6. QED
  BY <1>1, <1>2, <1>3, <1>4, <1>5

(* The invariant of the overlapping sessions: the tables are sound, and every  *)
(* request under way still knows what its writes rest on.                      *)
LEMMA SessionsSound == SessionSpec => []SessionInv
  BY SessionInitInv, SessionNextInv, PTL DEF SessionSpec

(* However many requests overlap, none takes back what another one has         *)
(* committed: a row stays, a payment and a confirmation stay known (though     *)
(* their values may be overwritten), and so does the evidence of a dispute.    *)
(* It is what a request still knows when it commits on tables that others have *)
(* changed since it read them.                                                 *)
THEOREM NothingTakenBack == SessionSpec => [][Grows]_sessionVars
<1>1. ASSUME SessionInv, SessionNext PROVE Grows \/ UNCHANGED vars
  BY <1>1, CommitSound DEF SoundNext, SessionNext, BeginProposalRequest, BeginReportRequest,
     BeginOfferRequest, BeginExecutionRequest, BeginUserRequest, Start, Abort
<1>2. UNCHANGED vars => Grows
  BY DEF vars, Grows
<1>3. SessionInv /\ [SessionNext]_sessionVars => [Grows]_sessionVars
  BY <1>1, <1>2
<1>4. QED
  BY <1>3, SessionsSound, PTL DEF SessionSpec

(* However many requests overlap, tables and requests stay well typed: no      *)
(* stale value that a service writes is one its column cannot hold.            *)
THEOREM SessionTypeCorrect == SessionSpec => []SessionTypeOK
<1>1. SessionInv => SessionTypeOK
  BY DEF SessionInv
<1>2. QED
  BY <1>1, SessionsSound, PTL

(* However confirmations, disputes and repeated requests overlap, the level of *)
(* a runner counts at least the executions he completed (_sync_all_completed). *)
THEOREM SessionLevelCorrect == SessionSpec => []LevelAtLeastCompletions
<1>1. SessionInv => LevelAtLeastCompletions
  BY DEF SessionInv, TableInv
<1>2. QED
  BY <1>1, SessionsSound, PTL

(* However requests overlap, complete_delivery and confirm_received never show *)
(* an execution as completed that only one side confirmed.                     *)
THEOREM SessionCompletionCorrect == SessionSpec => []CompletedMeansBothConfirmed
<1>1. SessionInv => CompletedMeansBothConfirmed
  BY DEF SessionInv, TableInv, ShownConfirmed
<1>2. QED
  BY <1>1, SessionsSound, PTL

(* However requests overlap, raise_dispute and resolve never leave an offer in *)
(* dispute, or resolved, that has no evidence row.                             *)
THEOREM SessionDisputeCorrect == SessionSpec => []DisputeHasEvidence
<1>1. SessionInv => DisputeHasEvidence
  BY DEF SessionInv, TableInv
<1>2. QED
  BY <1>1, SessionsSound, PTL

(* However edits, payments, offers and reports overlap, no proposal is public  *)
(* or in execution for which no payment was ever confirmed.                    *)
THEOREM SessionPaymentCorrect == SessionSpec => []PublicMeansPaid
<1>1. SessionInv => PublicMeansPaid
  BY DEF SessionInv, TableInv
<1>2. QED
  BY <1>1, SessionsSound, PTL

--------------------------------------------------------------------------------
(* One thread.  A request then commits on the tables it has read, so it is the *)
(* request of Marketplace with the same guard, the same writes and the same    *)
(* notifications; reading, and losing a request, change no table.              *)

FreshProposalRequest(r, p) ==
    /\ r.op = "update_proposal" => CanUpdateProposal(p) /\ r.fee \in Fees
    /\ r.op = "cancel_proposal" => CanCancelProposal(p)
    /\ r.op = "confirm_payment" => CanConfirmPayment(p)
    /\ r.op \in {"update_proposal", "cancel_proposal", "confirm_payment"} => r.notes = {}

FreshReportRequest(r, p, u) ==
    /\ r.op = "create_report" => CanCreateReport(p, u) /\ u \in Reporters
    /\ r.op = "accept_report" => CanAcceptReport(p, u)
    /\ r.op = "reject_report" => CanRejectReport(p, u)
    /\ r.op \in {"create_report", "accept_report", "reject_report"} => r.notes = {}

FreshOfferRequest(r, p, u) ==
    /\ r.op = "create_offer" => CanCreateOffer(p, u) /\ r.notes = OnOfferCreated(p, u)
    /\ r.op = "cancel_offer" => CanCancelOffer(p, u) /\ r.notes = {}
    /\ r.op = "accept_offer" =>
            CanAcceptOffer(p, u) /\ r.notes = OnOfferAccepted(p, u, RejectedRunners(p, u))

FreshExecutionRequest(r, p, u) ==
    /\ r.op = "complete_delivery" =>
            CanCompleteDelivery(p, u) /\ r.notes = OnMeetingConfirmedByRunner(p, u)
    /\ r.op = "confirm_received" =>
            CanConfirmReceived(p, u) /\ r.notes = OnMeetingConfirmedByOrderer(p, u)
    /\ r.op = "raise_dispute" =>
            \/ /\ ~deleted[u] /\ CanRaiseDispute(p, u) /\ r.actor = u
               /\ r.notes = OnDisputeRaisedByRunner(p, u)
            \/ /\ OwnerCalls(p) /\ IsExecutionOffer(p, u) /\ CanRaiseDispute(p, u)
               /\ r.actor = orderer[p] /\ r.notes = OnDisputeRaisedByOrderer(p, u)
    /\ r.op = "resolve" => CanResolve(p, u) /\ r.notes = {}

FreshUserRequest(r, u) ==
    /\ r.op = "create_proposal" => ~deleted[u] /\ r.fee \in Fees /\ r.notes = {}
    /\ r.op \in {"alarm_on", "alarm_off"} =>
            CanUpdateAlarm(u) /\ u \in AlarmUsers /\ r.seen.alarm = alarmEnabled[u] /\ r.notes = {}
    /\ r.op = "withdraw" =>
            /\ CanWithdrawUser(u)
            /\ r.seen.proposals = PreMatchProposals(u) /\ r.seen.offers = WaitingOffersTouched(u)

(* What the request has read is what the tables hold, and its guard holds.     *)
Fresh(r) ==
    /\ r.op \notin UserOps =>
            /\ r.seen.status = proposalStatus[r.proposal] /\ r.seen.fee = errandFee[r.proposal]
            /\ r.seen.offer = offerStatus[r.proposal][r.runner]
    /\ FreshProposalRequest(r, r.proposal)
    /\ FreshReportRequest(r, r.proposal, r.runner)
    /\ FreshOfferRequest(r, r.proposal, r.runner)
    /\ FreshExecutionRequest(r, r.proposal, r.runner)
    /\ FreshUserRequest(r, r.runner)

AllFresh == \A t \in Threads : request[t] # NoRequest => Fresh(request[t])

LEMMA BeginProposalFresh ==
  ASSUME TypeOK, NEW t \in Threads, NEW p \in Proposals, NEW u \in Users,
       BeginProposalRequest(t, p, u)
  PROVE  \E r : Fresh(r) /\ request' = [request EXCEPT ![t] = r] /\ UNCHANGED vars
<1>1. CASE CanUpdateProposal(p) /\ u = orderer[p]
            /\ \E fee \in Fees :
                 Start(t, "update_proposal", u, p, u, fee, Read(p, u), {})
  <2>1. PICK fee \in Fees :
            Start(t, "update_proposal", u, p, u, fee, Read(p, u), {})
    BY <1>1
  <2>2. Fresh(Begun("update_proposal", u, p, u, fee, Read(p, u), {}))
    BY <1>1, ReadType DEF Begun, UserOps, Fresh, FreshProposalRequest, FreshReportRequest,
       FreshOfferRequest, FreshExecutionRequest, FreshUserRequest, ReadUser, ReadActivity
  <2>3. QED
    BY <2>1, <2>2 DEF Start, Begun
<1>2. CASE CanCancelProposal(p) /\ u = orderer[p]
            /\ Start(t, "cancel_proposal", u, p, u, NoFee, Read(p, u), {})
  <2>1. Fresh(Begun("cancel_proposal", u, p, u, NoFee, Read(p, u), {}))
    BY <1>2, ReadType DEF Begun, UserOps, Fresh, FreshProposalRequest, FreshReportRequest,
       FreshOfferRequest, FreshExecutionRequest, FreshUserRequest, ReadUser, ReadActivity
  <2>2. QED
    BY <1>2, <2>1 DEF Start, Begun
<1>3. CASE CanConfirmPayment(p) /\ u = orderer[p]
            /\ Start(t, "confirm_payment", Admin, p, u, NoFee, Read(p, u), {})
  <2>1. Fresh(Begun("confirm_payment", Admin, p, u, NoFee, Read(p, u), {}))
    BY <1>3, ReadType DEF Begun, UserOps, Fresh, FreshProposalRequest, FreshReportRequest,
       FreshOfferRequest, FreshExecutionRequest, FreshUserRequest, ReadUser, ReadActivity
  <2>2. QED
    BY <1>3, <2>1 DEF Start, Begun
<1>4. QED
  BY <1>1, <1>2, <1>3 DEF BeginProposalRequest

LEMMA BeginReportFresh ==
  ASSUME TypeOK, NEW t \in Threads, NEW p \in Proposals, NEW u \in Users, BeginReportRequest(t,
       p, u)
  PROVE  \E r : Fresh(r) /\ request' = [request EXCEPT ![t] = r] /\ UNCHANGED vars
<1>1. CASE CanCreateReport(p, u) /\ u \in Reporters
            /\ Start(t, "create_report", u, p, u, NoFee, Read(p, u), {})
  <2>1. Fresh(Begun("create_report", u, p, u, NoFee, Read(p, u), {}))
    BY <1>1, ReadType DEF Begun, UserOps, Fresh, FreshProposalRequest, FreshReportRequest,
       FreshOfferRequest, FreshExecutionRequest, FreshUserRequest, ReadUser, ReadActivity
  <2>2. QED
    BY <1>1, <2>1 DEF Start, Begun
<1>2. CASE CanAcceptReport(p, u)
            /\ Start(t, "accept_report", Admin, p, u, NoFee, Read(p, u), {})
  <2>1. Fresh(Begun("accept_report", Admin, p, u, NoFee, Read(p, u), {}))
    BY <1>2, ReadType DEF Begun, UserOps, Fresh, FreshProposalRequest, FreshReportRequest,
       FreshOfferRequest, FreshExecutionRequest, FreshUserRequest, ReadUser, ReadActivity
  <2>2. QED
    BY <1>2, <2>1 DEF Start, Begun
<1>3. CASE CanRejectReport(p, u)
            /\ Start(t, "reject_report", Admin, p, u, NoFee, Read(p, u), {})
  <2>1. Fresh(Begun("reject_report", Admin, p, u, NoFee, Read(p, u), {}))
    BY <1>3, ReadType DEF Begun, UserOps, Fresh, FreshProposalRequest, FreshReportRequest,
       FreshOfferRequest, FreshExecutionRequest, FreshUserRequest, ReadUser, ReadActivity
  <2>2. QED
    BY <1>3, <2>1 DEF Start, Begun
<1>4. QED
  BY <1>1, <1>2, <1>3 DEF BeginReportRequest

LEMMA BeginOfferFresh ==
  ASSUME TypeOK, NEW t \in Threads, NEW p \in Proposals, NEW u \in Users, BeginOfferRequest(t,
       p, u)
  PROVE  \E r : Fresh(r) /\ request' = [request EXCEPT ![t] = r] /\ UNCHANGED vars
<1>1. CASE CanCreateOffer(p, u)
            /\ Start(t, "create_offer", u, p, u, NoFee, Read(p, u), OnOfferCreated(p, u))
  <2>1. Fresh(Begun("create_offer", u, p, u, NoFee, Read(p, u), OnOfferCreated(p, u)))
    BY <1>1, ReadType DEF Begun, UserOps, Fresh, FreshProposalRequest, FreshReportRequest,
       FreshOfferRequest, FreshExecutionRequest, FreshUserRequest, ReadUser, ReadActivity
  <2>2. QED
    BY <1>1, <2>1 DEF Start, Begun
<1>2. CASE CanCancelOffer(p, u)
            /\ Start(t, "cancel_offer", u, p, u, NoFee, Read(p, u), {})
  <2>1. Fresh(Begun("cancel_offer", u, p, u, NoFee, Read(p, u), {}))
    BY <1>2, ReadType DEF Begun, UserOps, Fresh, FreshProposalRequest, FreshReportRequest,
       FreshOfferRequest, FreshExecutionRequest, FreshUserRequest, ReadUser, ReadActivity
  <2>2. QED
    BY <1>2, <2>1 DEF Start, Begun
<1>3. CASE CanAcceptOffer(p, u)
            /\ Start(t, "accept_offer", orderer[p], p, u, NoFee, Read(p, u),
                OnOfferAccepted(p, u, RejectedRunners(p, u)))
  <2>1. Fresh(Begun("accept_offer", orderer[p], p, u, NoFee, Read(p, u),
                OnOfferAccepted(p, u, RejectedRunners(p, u))))
    BY <1>3, ReadType DEF Begun, UserOps, Fresh, FreshProposalRequest, FreshReportRequest,
       FreshOfferRequest, FreshExecutionRequest, FreshUserRequest, ReadUser, ReadActivity
  <2>2. QED
    BY <1>3, <2>1 DEF Start, Begun
<1>4. QED
  BY <1>1, <1>2, <1>3 DEF BeginOfferRequest

LEMMA BeginExecutionFresh ==
  ASSUME TypeOK, NEW t \in Threads, NEW p \in Proposals, NEW u \in Users,
       BeginExecutionRequest(t, p, u)
  PROVE  \E r : Fresh(r) /\ request' = [request EXCEPT ![t] = r] /\ UNCHANGED vars
<1>1. CASE CanCompleteDelivery(p, u)
            /\ Start(t, "complete_delivery", u, p, u, NoFee, Read(p, u),
                OnMeetingConfirmedByRunner(p, u))
  <2>1. Fresh(Begun("complete_delivery", u, p, u, NoFee, Read(p, u),
                OnMeetingConfirmedByRunner(p, u)))
    BY <1>1, ReadType DEF Begun, UserOps, Fresh, FreshProposalRequest, FreshReportRequest,
       FreshOfferRequest, FreshExecutionRequest, FreshUserRequest, ReadUser, ReadActivity
  <2>2. QED
    BY <1>1, <2>1 DEF Start, Begun
<1>2. CASE CanConfirmReceived(p, u)
            /\ Start(t, "confirm_received", orderer[p], p, u, NoFee, Read(p, u),
                OnMeetingConfirmedByOrderer(p, u))
  <2>1. Fresh(Begun("confirm_received", orderer[p], p, u, NoFee, Read(p, u),
                OnMeetingConfirmedByOrderer(p, u)))
    BY <1>2, ReadType DEF Begun, UserOps, Fresh, FreshProposalRequest, FreshReportRequest,
       FreshOfferRequest, FreshExecutionRequest, FreshUserRequest, ReadUser, ReadActivity
  <2>2. QED
    BY <1>2, <2>1 DEF Start, Begun
<1>3. CASE ~deleted[u] /\ CanRaiseDispute(p, u)
            /\ Start(t, "raise_dispute", u, p, u, NoFee, Read(p, u),
                OnDisputeRaisedByRunner(p, u))
  <2>1. Fresh(Begun("raise_dispute", u, p, u, NoFee, Read(p, u),
                OnDisputeRaisedByRunner(p, u)))
    BY <1>3, ReadType DEF Begun, UserOps, Fresh, FreshProposalRequest, FreshReportRequest,
       FreshOfferRequest, FreshExecutionRequest, FreshUserRequest, ReadUser, ReadActivity
  <2>2. QED
    BY <1>3, <2>1 DEF Start, Begun
<1>4. CASE OwnerCalls(p) /\ IsExecutionOffer(p, u) /\ CanRaiseDispute(p, u)
            /\ Start(t, "raise_dispute", orderer[p], p, u, NoFee, Read(p, u),
                OnDisputeRaisedByOrderer(p, u))
  <2>1. Fresh(Begun("raise_dispute", orderer[p], p, u, NoFee, Read(p, u),
                OnDisputeRaisedByOrderer(p, u)))
    BY <1>4, ReadType DEF Begun, UserOps, Fresh, FreshProposalRequest, FreshReportRequest,
       FreshOfferRequest, FreshExecutionRequest, FreshUserRequest, ReadUser, ReadActivity
  <2>2. QED
    BY <1>4, <2>1 DEF Start, Begun
<1>5. CASE CanResolve(p, u)
            /\ Start(t, "resolve", Admin, p, u, NoFee, Read(p, u), {})
  <2>1. Fresh(Begun("resolve", Admin, p, u, NoFee, Read(p, u), {}))
    BY <1>5, ReadType DEF Begun, UserOps, Fresh, FreshProposalRequest, FreshReportRequest,
       FreshOfferRequest, FreshExecutionRequest, FreshUserRequest, ReadUser, ReadActivity
  <2>2. QED
    BY <1>5, <2>1 DEF Start, Begun
<1>6. QED
  BY <1>1, <1>2, <1>3, <1>4, <1>5 DEF BeginExecutionRequest

LEMMA BeginUserFresh ==
  ASSUME TypeOK, NEW t \in Threads, NEW u \in Users, BeginUserRequest(t, u)
  PROVE  \E r : Fresh(r) /\ request' = [request EXCEPT ![t] = r] /\ UNCHANGED vars
<1>1. CASE (\E p \in Proposals : CanCreateProposal(p, u))
            /\ \E fee \in Fees :
                 Start(t, "create_proposal", u, NoProposal, u, fee, ReadUser(u), {})
  <2>1. PICK fee \in Fees :
            Start(t, "create_proposal", u, NoProposal, u, fee, ReadUser(u), {})
    BY <1>1
  <2>2. Fresh(Begun("create_proposal", u, NoProposal, u, fee, ReadUser(u), {}))
    BY <1>1, ReadType DEF Begun, UserOps, Fresh, FreshProposalRequest, FreshReportRequest,
       FreshOfferRequest, FreshExecutionRequest, FreshUserRequest, ReadUser, ReadActivity,
       CanCreateProposal
  <2>3. QED
    BY <2>1, <2>2 DEF Start, Begun
<1>2. CASE CanUpdateAlarm(u) /\ u \in AlarmUsers
            /\ \E op \in {"alarm_on", "alarm_off"} :
                 Start(t, op, u, NoProposal, u, NoFee, ReadUser(u), {})
  <2>1. PICK op \in {"alarm_on", "alarm_off"} :
            Start(t, op, u, NoProposal, u, NoFee, ReadUser(u), {})
    BY <1>2
  <2>2. Fresh(Begun(op, u, NoProposal, u, NoFee, ReadUser(u), {}))
    BY <1>2, ReadType DEF Begun, UserOps, Fresh, FreshProposalRequest, FreshReportRequest,
       FreshOfferRequest, FreshExecutionRequest, FreshUserRequest, ReadUser, ReadActivity,
       CanCreateProposal
  <2>3. QED
    BY <2>1, <2>2 DEF Start, Begun
<1>3. CASE CanWithdrawUser(u)
            /\ Start(t, "withdraw", u, NoProposal, u, NoFee, ReadActivity(u), {})
  <2>1. Fresh(Begun("withdraw", u, NoProposal, u, NoFee, ReadActivity(u), {}))
    BY <1>3, ReadType DEF Begun, UserOps, Fresh, FreshProposalRequest, FreshReportRequest,
       FreshOfferRequest, FreshExecutionRequest, FreshUserRequest, ReadUser, ReadActivity,
       CanCreateProposal
  <2>2. QED
    BY <1>3, <2>1 DEF Start, Begun
<1>4. QED
  BY <1>1, <1>2, <1>3 DEF BeginUserRequest

(* A request stays fresh as long as no table changes. *)
LEMMA FreshKept ==
  ASSUME NEW r, Fresh(r), UNCHANGED vars
  PROVE  Fresh(r)'
  BY DEF vars, Fresh, FreshProposalRequest, FreshReportRequest, FreshOfferRequest,
     FreshExecutionRequest, FreshUserRequest, CanUpdateProposal, CanCancelProposal,
     CanConfirmPayment, CanCreateReport, CanAcceptReport, CanRejectReport, CanCreateOffer,
     CanCancelOffer, CanAcceptOffer, CanCompleteDelivery, CanConfirmReceived,
     CanRaiseDispute, CanResolve, CanUpdateAlarm, CanWithdrawUser, HasBlockingActivity,
     OwnerCalls, IsExecutionOffer, PreMatchProposals, WaitingOffersTouched, OnOfferCreated,
     OnOfferAccepted, OnMeetingConfirmedByRunner, OnMeetingConfirmedByOrderer,
     OnDisputeRaisedByRunner, OnDisputeRaisedByOrderer, RejectedRunners, IfAlarmEnabled

(* A begun request is the only one, and it has read the tables as they are.    *)
LEMMA OneThreadFresh ==
  ASSUME SessionInv, AllFresh, NEW t \in Threads, Threads = {t}, SessionNext
  PROVE  AllFresh'
<1>1. TypeOK /\ request \in [Threads -> Requests \cup {NoRequest}]
  BY DEF SessionInv, SessionTypeOK
<1>2. ASSUME NEW r, Fresh(r), request' = [request EXCEPT ![t] = r], UNCHANGED vars
      PROVE  AllFresh'
  <2>1. Fresh(r)'
    BY <1>2, FreshKept
  <2>2. request'[t] = r
    BY <1>1, <1>2
  <2>3. \A s \in Threads : request'[s] = r
    BY <2>2
  <2>4. QED
    BY <2>1, <2>3 DEF AllFresh
<1>3. ASSUME request' = [request EXCEPT ![t] = NoRequest] PROVE AllFresh'
  BY <1>1, <1>3 DEF AllFresh
<1>4. PICK s \in Threads :
        \/ \E p \in Proposals, u \in Users :
              \/ BeginProposalRequest(s, p, u)
              \/ BeginReportRequest(s, p, u)
              \/ BeginOfferRequest(s, p, u)
              \/ BeginExecutionRequest(s, p, u)
        \/ \E u \in Users : BeginUserRequest(s, u)
        \/ Commit(s)
        \/ Abort(s)
  BY DEF SessionNext
<1>5. s = t
  OBVIOUS
<1>6. CASE \E p \in Proposals, u \in Users :
              \/ BeginProposalRequest(t, p, u)
              \/ BeginReportRequest(t, p, u)
              \/ BeginOfferRequest(t, p, u)
              \/ BeginExecutionRequest(t, p, u)
  <2>1. \E r : Fresh(r) /\ request' = [request EXCEPT ![t] = r] /\ UNCHANGED vars
    BY <1>1, <1>6, BeginProposalFresh, BeginReportFresh, BeginOfferFresh, BeginExecutionFresh
  <2>2. QED
    BY <1>2, <2>1
<1>7. CASE \E u \in Users : BeginUserRequest(t, u)
  <2>1. \E r : Fresh(r) /\ request' = [request EXCEPT ![t] = r] /\ UNCHANGED vars
    BY <1>1, <1>7, BeginUserFresh
  <2>2. QED
    BY <1>2, <2>1
<1>8. CASE Commit(t)
  BY <1>3, <1>8 DEF Commit, Finish
<1>9. CASE Abort(t)
  BY <1>3, <1>9 DEF Abort, Finish
<1>10. QED
  BY <1>4, <1>5, <1>6, <1>7, <1>8, <1>9

(* The commit of a fresh request is a step of Marketplace. *)
LEMMA FreshCommitIsNext ==
  ASSUME SessionInv, AllFresh, NEW t \in Threads, Commit(t)
  PROVE  Next
<1>1. PICK r : r = request[t]
  OBVIOUS
<1>2. r \in Requests /\ StillKnown(r) /\ Fresh(r)
  BY <1>1 DEF SessionInv, SessionTypeOK, RequestsInv, Commit, AllFresh
<1>3. r.runner \in Users /\ (r.op \notin UserOps => r.proposal \in Proposals)
  BY <1>2 DEF Requests, StillKnown
<1> DEFINE p == r.proposal
           u == r.runner
<1>4. ASSUME CommitProposalRequest(r, p, u), Publish(r.notes) PROVE Next
  <2>1. /\ p \in Proposals /\ r.notes = {} /\ UNCHANGED notifications
        /\ r.seen.status = proposalStatus[p] /\ r.seen.fee = errandFee[p]
    BY <1>2, <1>3, <1>4 DEF CommitProposalRequest, Fresh, FreshProposalRequest, UserOps, Publish
  <2>2. CASE r.op = "update_proposal"
    <3>1. r.fee \in Fees /\ UpdateProposal(p, r.fee)
      BY <1>2, <1>4, <2>1, <2>2
         DEF CommitProposalRequest, Fresh, FreshProposalRequest, UpdateProposal
    <3>2. QED
      BY <2>1, <3>1 DEF Next
  <2>3. CASE r.op = "cancel_proposal"
    <3>1. CancelProposal(p)
      BY <1>2, <1>4, <2>1, <2>3
         DEF CommitProposalRequest, Fresh, FreshProposalRequest, CancelProposal
    <3>2. QED
      BY <2>1, <3>1 DEF Next
  <2>4. CASE r.op = "confirm_payment"
    <3>1. ConfirmPayment(p)
      BY <1>2, <1>4, <2>1, <2>4
         DEF CommitProposalRequest, Fresh, FreshProposalRequest, ConfirmPayment
    <3>2. QED
      BY <2>1, <3>1 DEF Next
  <2>5. QED
    BY <1>4, <2>2, <2>3, <2>4 DEF CommitProposalRequest
<1>5. ASSUME CommitReportRequest(r, p, u), Publish(r.notes) PROVE Next
  <2>1. /\ p \in Proposals /\ u \in Users /\ r.notes = {} /\ UNCHANGED notifications
        /\ r.seen.status = proposalStatus[p]
    BY <1>2, <1>3, <1>5 DEF CommitReportRequest, Fresh, FreshReportRequest, UserOps, Publish
  <2>2. CASE r.op = "create_report"
    <3>1. u \in Reporters /\ CreateReport(p, u)
      BY <1>2, <1>5, <2>1, <2>2
         DEF CommitReportRequest, Fresh, FreshReportRequest, CreateReport
    <3>2. QED
      BY <2>1, <3>1 DEF Next
  <2>3. CASE r.op = "accept_report"
    <3>1. AcceptReport(p, u)
      BY <1>2, <1>5, <2>1, <2>3
         DEF CommitReportRequest, Fresh, FreshReportRequest, AcceptReport
    <3>2. QED
      BY <2>1, <3>1 DEF Next
  <2>4. CASE r.op = "reject_report"
    <3>1. RejectReport(p, u)
      BY <1>2, <1>5, <2>1, <2>4
         DEF CommitReportRequest, Fresh, FreshReportRequest, RejectReport
    <3>2. QED
      BY <2>1, <3>1 DEF Next
  <2>5. QED
    BY <1>5, <2>2, <2>3, <2>4 DEF CommitReportRequest
<1>6. ASSUME CommitOfferRequest(r, p, u), Publish(r.notes) PROVE Next
  <2>1. p \in Proposals /\ u \in Users /\ r.seen.status = proposalStatus[p]
    BY <1>2, <1>3, <1>6 DEF CommitOfferRequest, Fresh, UserOps
  <2>2. CASE r.op = "create_offer"
    <3>1. CreateOffer(p, u)
      BY <1>2, <1>6, <2>1, <2>2
         DEF CommitOfferRequest, Fresh, FreshOfferRequest, CreateOffer
    <3>2. QED
      BY <2>1, <3>1 DEF Next
  <2>3. CASE r.op = "cancel_offer"
    <3>1. CancelOffer(p, u)
      BY <1>2, <1>6, <2>1, <2>3
         DEF CommitOfferRequest, Fresh, FreshOfferRequest, CancelOffer, Publish
    <3>2. QED
      BY <2>1, <3>1 DEF Next
  <2>4. CASE r.op = "accept_offer"
    <3>1. AcceptOffer(p, u)
      BY <1>2, <1>6, <2>1, <2>4
         DEF CommitOfferRequest, Fresh, FreshOfferRequest, AcceptOffer
    <3>2. QED
      BY <2>1, <3>1 DEF Next
  <2>5. QED
    BY <1>6, <2>2, <2>3, <2>4 DEF CommitOfferRequest
<1>7. ASSUME CommitExecutionRequest(r, p, u), Publish(r.notes) PROVE Next
  <2>1. /\ p \in Proposals /\ u \in Users
        /\ r.seen.status = proposalStatus[p] /\ r.seen.offer = offerStatus[p][u]
    BY <1>2, <1>3, <1>7 DEF CommitExecutionRequest, Fresh, UserOps
  <2>2. CASE r.op = "complete_delivery"
    <3>1. CompleteDelivery(p, u)
      BY <1>2, <1>7, <2>1, <2>2
         DEF CommitExecutionRequest, Fresh, FreshExecutionRequest, CompleteDelivery
    <3>2. QED
      BY <2>1, <3>1 DEF Next
  <2>3. CASE r.op = "confirm_received"
    <3>1. ConfirmReceived(p, u)
      BY <1>2, <1>7, <2>1, <2>3
         DEF CommitExecutionRequest, Fresh, FreshExecutionRequest, ConfirmReceived
    <3>2. QED
      BY <2>1, <3>1 DEF Next
  <2>4. CASE r.op = "raise_dispute"
    <3>1. RaiseDisputeByRunner(p, u) \/ RaiseDisputeByOrderer(p, u)
      BY <1>2, <1>7, <2>1, <2>4 DEF CommitExecutionRequest, Fresh, FreshExecutionRequest,
         RaiseDisputeByRunner, RaiseDisputeByOrderer
    <3>2. QED
      BY <2>1, <3>1 DEF Next
  <2>5. CASE r.op = "resolve"
    <3>1. Resolve(p, u)
      BY <1>2, <1>7, <2>1, <2>5
         DEF CommitExecutionRequest, Fresh, FreshExecutionRequest, Resolve, Publish
    <3>2. QED
      BY <2>1, <3>1 DEF Next
  <2>6. QED
    BY <1>7, <2>2, <2>3, <2>4, <2>5 DEF CommitExecutionRequest
<1>8. ASSUME CommitUserRequest(r, u), Publish(r.notes) PROVE Next
  <2>1. r.notes = {} /\ UNCHANGED notifications
    BY <1>2, <1>8 DEF CommitUserRequest, Fresh, FreshUserRequest, Publish
  <2>2. CASE r.op = "create_proposal"
    <3>1. PICK q \in Proposals : proposalStatus[q] = "ABSENT" /\ CreateProposalWrites(q, u,
         r.fee)
      BY <1>8, <2>2 DEF CommitUserRequest
    <3>2. r.fee \in Fees /\ CreateProposal(q, u, r.fee)
      BY <1>2, <2>1, <2>2, <3>1
         DEF Fresh, FreshUserRequest, CreateProposal, CanCreateProposal
    <3>3. QED
      BY <1>3, <3>2 DEF Next
  <2>3. CASE r.op \in {"alarm_on", "alarm_off"}
    <3>1. PICK enabled \in BOOLEAN : UpdateAlarmWrites(u, enabled, r.seen.alarm)
      BY <1>8, <2>3 DEF CommitUserRequest
    <3>2. u \in AlarmUsers /\ UpdateAlarm(u, enabled)
      BY <1>2, <2>1, <2>3, <3>1 DEF Fresh, FreshUserRequest, UpdateAlarm
    <3>3. QED
      BY <3>2 DEF Next
  <2>4. QED
    BY <1>8, <2>2, <2>3 DEF CommitUserRequest
<1>9. ASSUME CommitWithdrawal(r, u) PROVE Next
  <2>1. WithdrawUser(u)
    BY <1>2, <1>9 DEF CommitWithdrawal, Fresh, FreshUserRequest, WithdrawUser
  <2>2. QED
    BY <1>3, <2>1 DEF Next
<1>10. QED
  BY <1>1, <1>4, <1>5, <1>6, <1>7, <1>8, <1>9 DEF Commit

LEMMA OneThreadNext ==
  ASSUME SessionInv, AllFresh, SessionNext
  PROVE  Next \/ UNCHANGED vars
  BY FreshCommitIsNext DEF SessionNext, BeginProposalRequest, BeginReportRequest,
     BeginOfferRequest, BeginExecutionRequest, BeginUserRequest, Start, Abort

(* With one thread the sessions implement the marketplace in which a request   *)
(* is one step: what the serial model promises fails only by an overlap.       *)
THEOREM OneThreadIsSerial ==
  ASSUME NEW t \in Threads, Threads = {t}
  PROVE  SessionSpec => SerialSpec
<1>1. SessionInit => AllFresh /\ Init
  BY DEF SessionInit, AllFresh
<1>2. SessionInv /\ AllFresh /\ [SessionNext]_sessionVars => AllFresh' /\ [Next]_vars
  <2>1. ASSUME SessionInv, AllFresh, SessionNext PROVE AllFresh' /\ (Next \/ UNCHANGED vars)
    BY <2>1, OneThreadFresh, OneThreadNext
  <2>2. ASSUME AllFresh, UNCHANGED sessionVars PROVE AllFresh' /\ UNCHANGED vars
    <3>1. request' = request /\ UNCHANGED vars
      BY <2>2 DEF sessionVars
    <3>2. ASSUME NEW s \in Threads, request'[s] # NoRequest PROVE Fresh(request[s])'
      <4>1. PICK q : q = request'[s]
        OBVIOUS
      <4>2. Fresh(q)
        BY <2>2, <3>1, <3>2, <4>1 DEF AllFresh
      <4>3. Fresh(q)'
        BY <3>1, <4>2, FreshKept
      <4>4. QED
        BY <4>1, <4>3 DEF Fresh, FreshProposalRequest, FreshReportRequest, FreshOfferRequest,
           FreshExecutionRequest, FreshUserRequest
    <3>3. QED
      BY <3>1, <3>2 DEF AllFresh
  <2>3. QED
    BY <2>1, <2>2
<1>3. QED
  BY <1>1, <1>2, SessionsSound, PTL DEF SessionSpec, SerialSpec, Spec

(* Without an overlap the service keeps the two policies that overlapping      *)
(* requests break: an execution both parties have confirmed is ALL_COMPLETED,  *)
(* and who has withdrawn has no running execution.                             *)
THEOREM OneThreadKeepsPolicies ==
  ASSUME NEW t \in Threads, Threads = {t}
  PROVE  SessionSpec => [](BothConfirmedCompletes /\ WithdrawnHasNoExecution)
<1>1. StatusesAgree => BothConfirmedCompletes
  BY DEF StatusesAgree, ExecutionStages, BothConfirmedCompletes, Engaged,
     EngagedOfferStatuses, ActiveOfferStatuses
<1>2. WithdrawnIsInert => WithdrawnHasNoExecution
  BY DEF WithdrawnIsInert, WithdrawnHasNoExecution
<1> QED
  BY <1>1, <1>2, OneThreadIsSerial, StagesCorrect, WithdrawalCorrect, PTL DEF SerialSpec

--------------------------------------------------------------------------------
(* Two requests at a time: why accept keeps a second execution out.            *)

(* The requests that set an offer to a running or completed status because it  *)
(* was running when they read it, and those that put a proposal back among the *)
(* ones that look for a runner.                                                *)
ConfirmOps == {"complete_delivery", "confirm_received", "raise_dispute"}
ReopenOps == {"create_offer", "confirm_payment", "update_proposal"}
Recruiting == {"ABSENT", "HOLDING", "POSTED", "OFFERED"}

Names(r, p) == r # NoRequest /\ r.op \notin UserOps /\ r.proposal = p
Accepting(r, p) == Names(r, p) /\ r.op = "accept_offer"
Confirming(r, p) == Names(r, p) /\ r.op \in ConfirmOps
Reopening(r, p) == Names(r, p) /\ r.op \in ReopenOps

(* r may end the execution of u, by resolving it or by writing over it.        *)
Drops(r, p, u) ==
    \/ Names(r, p) /\ r.op \in {"cancel_offer", "resolve"} /\ r.runner = u
    \/ r # NoRequest /\ r.op = "withdraw" /\ <<p, u>> \in r.seen.offers

(* While an accept is under way there is no execution, and the other request   *)
(* neither starts nor confirms one.                                            *)
AcceptAlone(r, other, p) ==
    Accepting(r, p) =>
        /\ r.actor = orderer[p]
        /\ \A v \in Users : ~IsExecutionOffer(p, v)
        /\ ~Accepting(other, p) /\ ~Confirming(other, p)

(* What a confirmation or a dispute will write is harmless: its execution      *)
(* still stands and the other request does not end it, or the recruitment is   *)
(* over, the other request does not begin it again, and nobody else executes.  *)
ConfirmHarmless(r, other, p) ==
    Confirming(r, p) =>
        /\ Confirming(other, p) => other.runner = r.runner
        /\ \/ IsExecutionOffer(p, r.runner) /\ ~Drops(other, p, r.runner)
           \/ /\ proposalStatus[p] \notin Recruiting /\ ~Reopening(other, p)
              /\ \A v \in Users \ {r.runner} : ~IsExecutionOffer(p, v)

PairsHarmless ==
    \A p \in Proposals : orderer[p] \notin Impatient =>
        \A s, t \in Threads : s # t =>
            /\ AcceptAlone(request[s], request[t], p)
            /\ ConfirmHarmless(request[s], request[t], p)

PairInv == SessionInv /\ SingleActiveExecution /\ PairsHarmless

(* What the writes of r do to one proposal and one offer, as far as executions *)
(* are concerned.                                                              *)
Effect(r, p, v) ==
    /\ proposalStatus[p] # "ABSENT" => orderer'[p] = orderer[p]
    /\ proposalStatus[p] \notin Recruiting =>
            proposalStatus'[p] \notin Recruiting \/ Reopening(r, p)
    /\ offerStatus[p][v] \in ActiveOfferStatuses =>
            offerStatus'[p][v] \in ActiveOfferStatuses \/ Drops(r, p, v)
    /\ offerStatus'[p][v] \in ActiveOfferStatuses =>
            \/ offerStatus[p][v] \in ActiveOfferStatuses
            \/ (Accepting(r, p) \/ Confirming(r, p)) /\ r.runner = v

LEMMA ProposalEffect ==
  ASSUME TypeOK, NEW r \in Requests, r # NoRequest, StillKnown(r),
         CommitProposalRequest(r, r.proposal, r.runner), NEW p \in Proposals, NEW v \in Users
  PROVE  Effect(r, p, v)
<1>1. r.op \notin UserOps /\ r.proposal \in Proposals
  BY DEF CommitProposalRequest, StillKnown, UserOps
<1>2. CASE /\ r.op = "update_proposal"
           /\ UpdateProposalWrites(r.proposal, r.fee, r.seen.status, r.seen.fee)
  BY <1>1, <1>2 DEF UpdateProposalWrites, TypeOK, Effect, Reopening, ReopenOps, Names
<1>3. CASE r.op = "cancel_proposal" /\ CancelProposalWrites(r.proposal, r.seen.status)
  BY <1>1, <1>3 DEF CancelProposalWrites, TypeOK, Effect, Recruiting, WaitingOffersBecome,
     ActiveOfferStatuses
<1>4. CASE r.op = "confirm_payment" /\ ConfirmPaymentWrites(r.proposal, r.seen.fee)
  BY <1>1, <1>4 DEF ConfirmPaymentWrites, TypeOK, Effect, Reopening, ReopenOps, Names
<1> QED BY <1>2, <1>3, <1>4 DEF CommitProposalRequest

LEMMA ReportEffect ==
  ASSUME TypeOK, NEW r \in Requests, r # NoRequest, StillKnown(r),
         CommitReportRequest(r, r.proposal, r.runner), NEW p \in Proposals, NEW v \in Users
  PROVE  Effect(r, p, v)
<1>1. r.op \notin UserOps /\ r.proposal \in Proposals
  BY DEF CommitReportRequest, StillKnown, UserOps
<1>2. CASE UNCHANGED <<orderer, proposalStatus, offerStatus>>
  BY <1>2 DEF Effect
<1>3. CASE r.op = "accept_report" /\ AcceptReportWrites(r.proposal, r.runner, r.seen.status)
  BY <1>1, <1>3 DEF AcceptReportWrites, TypeOK, Effect, Recruiting, WaitingOffersBecome,
     ActiveOfferStatuses
<1> QED
  BY <1>2, <1>3 DEF CommitReportRequest, CreateReportWrites, RejectReportWrites

LEMMA OfferEffect ==
  ASSUME TypeOK, NEW r \in Requests, r # NoRequest, StillKnown(r),
         CommitOfferRequest(r, r.proposal, r.runner), NEW p \in Proposals, NEW v \in Users
  PROVE  Effect(r, p, v)
<1>1. r.op \notin UserOps /\ r.proposal \in Proposals /\ r.runner \in Users
  BY DEF CommitOfferRequest, StillKnown, UserOps, Requests
<1>2. CASE r.op = "create_offer" /\ offerStatus[r.proposal][r.runner] = "ABSENT"
           /\ CreateOfferWrites(r.proposal, r.runner, r.seen.status)
  BY <1>1, <1>2 DEF CreateOfferWrites, TypeOK, Effect, Reopening, ReopenOps, Names,
     ActiveOfferStatuses
<1>3. CASE r.op = "cancel_offer" /\ CancelOfferWrites(r.proposal, r.runner)
  BY <1>1, <1>3 DEF CancelOfferWrites, TypeOK, Effect, Drops, Names, ActiveOfferStatuses
<1>4. CASE r.op = "accept_offer" /\ AcceptOfferWrites(r.proposal, r.runner)
  BY <1>1, <1>4 DEF AcceptOfferWrites, TypeOK, Effect, Recruiting, Accepting, Names,
     WaitingOffersBecome, ActiveOfferStatuses
<1> QED BY <1>2, <1>3, <1>4 DEF CommitOfferRequest

LEMMA ExecutionEffect ==
  ASSUME TypeOK, NEW r \in Requests, r # NoRequest, StillKnown(r),
         CommitExecutionRequest(r, r.proposal, r.runner), NEW p \in Proposals, NEW v \in Users
  PROVE  Effect(r, p, v)
<1>1. r.op \notin UserOps /\ r.proposal \in Proposals /\ r.runner \in Users
  BY DEF CommitExecutionRequest, StillKnown, UserOps, Requests
<1>2. CASE r.op = "complete_delivery" /\ CompleteDeliveryWrites(r.proposal, r.runner, r.seen.status)
  <2>1. /\ \/ UNCHANGED proposalStatus
           \/ proposalStatus' = [proposalStatus EXCEPT ![r.proposal] = "ALL_COMPLETED"]
        /\ \E s \in {"ALL_COMPLETED", "RUNNER_COMPLETED"} :
              offerStatus' = [offerStatus EXCEPT ![r.proposal][r.runner] = s]
        /\ UNCHANGED orderer
    BY <1>2 DEF CompleteDeliveryWrites, MarkAllCompleted
  <2>2. Confirming(r, r.proposal)
    BY <1>1, <1>2 DEF Confirming, ConfirmOps, Names
  <2> QED
    BY <1>1, <2>1, <2>2 DEF TypeOK, Effect, Recruiting, ActiveOfferStatuses
<1>3. CASE r.op = "confirm_received" /\ ConfirmReceivedWrites(r.proposal, r.runner, r.seen.offer)
  BY <1>1, <1>3 DEF ConfirmReceivedWrites, MarkAllCompleted, TypeOK, Effect, Recruiting,
     Confirming, ConfirmOps, Names, ActiveOfferStatuses
<1>4. CASE r.op = "raise_dispute" /\ RaiseDisputeWrites(r.proposal, r.runner, r.actor)
  BY <1>1, <1>4 DEF RaiseDisputeWrites, TypeOK, Effect, Recruiting,
     Confirming, ConfirmOps, Names, ActiveOfferStatuses
<1>5. CASE r.op = "resolve" /\ ResolveWrites(r.proposal, r.runner)
  BY <1>1, <1>5 DEF ResolveWrites, TypeOK, Effect, Recruiting, Drops, Names,
     ActiveOfferStatuses
<1> QED BY <1>2, <1>3, <1>4, <1>5 DEF CommitExecutionRequest

LEMMA UserEffect ==
  ASSUME TypeOK, NEW r \in Requests, r # NoRequest, StillKnown(r),
         CommitUserRequest(r, r.runner) \/ CommitWithdrawal(r, r.runner),
         NEW p \in Proposals, NEW v \in Users
  PROVE  Effect(r, p, v)
<1>1. CASE CommitUserRequest(r, r.runner) /\ r.op = "create_proposal"
  <2>1. PICK q \in Proposals :
            proposalStatus[q] = "ABSENT" /\ CreateProposalWrites(q, r.runner, r.fee)
    BY <1>1 DEF CommitUserRequest
  <2> QED BY <2>1 DEF CreateProposalWrites, TypeOK, Effect, Recruiting
<1>2. CASE CommitUserRequest(r, r.runner) /\ r.op # "create_proposal"
  BY <1>2 DEF CommitUserRequest, UpdateAlarmWrites, Effect
<1>3. CASE CommitWithdrawal(r, r.runner)
  BY <1>3 DEF CommitWithdrawal, WithdrawUserWrites, TypeOK, Effect, Recruiting, Drops,
     ActiveOfferStatuses
<1> QED BY <1>1, <1>2, <1>3

LEMMA CommitEffect ==
  ASSUME SessionInv, NEW t \in Threads, Commit(t), NEW p \in Proposals, NEW v \in Users
  PROVE  Effect(request[t], p, v)
<1>1. PICK r : r = request[t]
  OBVIOUS
<1>2. TypeOK /\ r \in Requests /\ r # NoRequest /\ StillKnown(r)
  BY <1>1 DEF SessionInv, SessionTypeOK, RequestsInv, Commit
<1>3. \/ CommitProposalRequest(r, r.proposal, r.runner)
      \/ CommitReportRequest(r, r.proposal, r.runner)
      \/ CommitOfferRequest(r, r.proposal, r.runner)
      \/ CommitExecutionRequest(r, r.proposal, r.runner)
      \/ CommitUserRequest(r, r.runner)
      \/ CommitWithdrawal(r, r.runner)
  BY <1>1 DEF Commit
<1>4. Effect(r, p, v)
  BY <1>2, <1>3, ProposalEffect, ReportEffect, OfferEffect, ExecutionEffect, UserEffect
<1> QED BY <1>1, <1>4

(* What a request that has just read the tables knows of the executions.       *)
LEMMA BeginsInTime ==
  ASSUME TypeOK, NEW r \in Requests, r # NoRequest, Fresh(r), NEW p \in Proposals
  PROVE  /\ Accepting(r, p) => \A v \in Users : ~IsExecutionOffer(p, v)
         /\ Confirming(r, p) =>
                IsExecutionOffer(p, r.runner) /\ proposalStatus[p] \notin Recruiting
         /\ Reopening(r, p) => proposalStatus[p] \in Recruiting
         /\ \A v \in Users : Drops(r, p, v) /\ IsExecutionOffer(p, v) =>
                proposalStatus[p] \notin Recruiting /\ ~Reopening(r, p)
<1>0. r.runner \in Users
  BY DEF Requests
<1>1. Accepting(r, p) => \A v \in Users : ~IsExecutionOffer(p, v)
  BY <1>0 DEF Accepting, Names, Fresh, FreshOfferRequest, CanAcceptOffer, IsExecutionOffer,
     ActiveOfferStatuses
<1>2. Confirming(r, p) => IsExecutionOffer(p, r.runner) /\ proposalStatus[p] \notin Recruiting
  BY <1>0 DEF Confirming, ConfirmOps, Names, Fresh, FreshExecutionRequest, CanCompleteDelivery,
     CanConfirmReceived, CanRaiseDispute, IsExecutionOffer, ActiveOfferStatuses, Recruiting
<1>3. Reopening(r, p) => proposalStatus[p] \in Recruiting
  BY DEF Reopening, ReopenOps, Names, Fresh, FreshProposalRequest, FreshOfferRequest,
     CanUpdateProposal, CanConfirmPayment, CanCreateOffer, Recruiting, EditableStatuses,
     OpenProposalStatuses
<1>4. ASSUME NEW v \in Users, Drops(r, p, v), IsExecutionOffer(p, v)
      PROVE  proposalStatus[p] \notin Recruiting /\ ~Reopening(r, p)
  <2>1. CASE Names(r, p) /\ r.op = "cancel_offer" /\ r.runner = v
    BY <1>4, <2>1 DEF Names, Fresh, FreshOfferRequest, CanCancelOffer, IsExecutionOffer,
       ActiveOfferStatuses
  <2>2. CASE Names(r, p) /\ r.op = "resolve" /\ r.runner = v
    BY <2>2 DEF Names, Fresh, FreshExecutionRequest, CanResolve, Recruiting, Reopening, ReopenOps
  <2>3. CASE r.op = "withdraw" /\ <<p, v>> \in r.seen.offers
    <3>1. <<p, v>> \in WaitingOffersTouched(r.runner)
      BY <2>3 DEF Fresh, FreshUserRequest
    <3>2. offerStatus[p][v] = "WAITING"
      BY <3>1 DEF WaitingOffersTouched
    <3> QED BY <1>4, <3>2 DEF IsExecutionOffer, ActiveOfferStatuses
  <2> QED BY <1>4, <2>1, <2>2, <2>3 DEF Drops
<1> QED BY <1>1, <1>2, <1>3, <1>4

(* A request begins while others are under way: each pair stays harmless.      *)
LEMMA BeginHarmless ==
  ASSUME PairInv, NEW t \in Threads, NEW r \in Requests, r # NoRequest, Fresh(r),
         request' = [request EXCEPT ![t] = r], request[t] = NoRequest, UNCHANGED vars,
         r.op = "accept_offer" =>
            /\ r.actor = orderer[r.proposal]
            /\ r.actor \in Impatient \cup {Admin} \/ ~Waits(r.actor),
         NEW p \in Proposals, orderer[p] \notin Impatient, NEW s \in Threads, s # t
  PROVE  /\ AcceptAlone(r, request[s], p) /\ ConfirmHarmless(r, request[s], p)
         /\ AcceptAlone(request[s], r, p) /\ ConfirmHarmless(request[s], r, p)
<1>1. PICK q : q = request[s]
  OBVIOUS
<1>2. TypeOK /\ (q # NoRequest => q \in Requests /\ StillKnown(q))
  BY <1>1 DEF PairInv, SessionInv, SessionTypeOK, RequestsInv
<1>3. /\ AcceptAlone(q, NoRequest, p) /\ ConfirmHarmless(q, NoRequest, p)
  BY <1>1 DEF PairInv, PairsHarmless
<1>4. \A u, v \in Users : IsExecutionOffer(p, u) /\ IsExecutionOffer(p, v) => u = v
  BY DEF PairInv, SingleActiveExecution
<1>5. /\ Accepting(r, p) => \A v \in Users : ~IsExecutionOffer(p, v)
      /\ Confirming(r, p) =>
             IsExecutionOffer(p, r.runner) /\ proposalStatus[p] \notin Recruiting
      /\ Reopening(r, p) => proposalStatus[p] \in Recruiting
      /\ \A v \in Users : Drops(r, p, v) /\ IsExecutionOffer(p, v) =>
             proposalStatus[p] \notin Recruiting /\ ~Reopening(r, p)
  BY <1>2, BeginsInTime
<1>6. r.runner \in Users /\ (q # NoRequest => q.runner \in Users)
  BY <1>2 DEF Requests
<1>7. Accepting(r, p) => ~Accepting(q, p)
  <2> SUFFICES ASSUME Accepting(r, p), Accepting(q, p) PROVE FALSE
    OBVIOUS
  <2>1. r.actor = orderer[p] /\ q.actor = orderer[p] /\ q # NoRequest
    BY <1>3 DEF Accepting, Names, AcceptAlone
  <2>2. proposalStatus[p] # "ABSENT"
    BY <1>2 DEF Accepting, Names, StillKnown, UserOps
  <2>3. orderer[p] # Admin
    BY <1>2, <2>2 DEF TypeOK, Admin
  <2>4. Waits(r.actor)
    BY <1>1, <2>1 DEF Waits
  <2> QED BY <2>1, <2>3, <2>4 DEF Accepting
<1>8. Confirming(q, p) /\ (IsExecutionOffer(p, r.runner) \/ proposalStatus[p] \in Recruiting) =>
        \/ q.runner = r.runner /\ IsExecutionOffer(p, r.runner)
        \/ proposalStatus[p] \in Recruiting /\ IsExecutionOffer(p, q.runner)
  BY <1>3, <1>4, <1>6 DEF ConfirmHarmless, Confirming, Names
<1>9. AcceptAlone(r, q, p)
  <2>1. Accepting(r, p) => ~Confirming(q, p)
    <3> SUFFICES ASSUME Accepting(r, p), Confirming(q, p) PROVE FALSE
      OBVIOUS
    <3>1. proposalStatus[p] \in Recruiting
      BY DEF Accepting, Names, Fresh, FreshOfferRequest, CanAcceptOffer, Recruiting
    <3> QED BY <1>3, <1>5, <1>6, <3>1 DEF ConfirmHarmless, Confirming, Names
  <2> QED BY <1>5, <1>7, <2>1 DEF AcceptAlone, Accepting, Names
<1>10. ConfirmHarmless(r, q, p)
  <2> SUFFICES ASSUME Confirming(r, p)
               PROVE  /\ Confirming(q, p) => q.runner = r.runner
                      /\ \/ ~Drops(q, p, r.runner)
                         \/ /\ ~Reopening(q, p)
                            /\ \A v \in Users \ {r.runner} : ~IsExecutionOffer(p, v)
    BY <1>5 DEF ConfirmHarmless
  <2>1. Confirming(q, p) => q.runner = r.runner
    BY <1>5, <1>8
  <2>2. Drops(q, p, r.runner) => ~Reopening(q, p)
    BY DEF Drops, Reopening, Names, ReopenOps, UserOps
  <2> QED BY <1>4, <1>5, <1>6, <2>1, <2>2
<1>11. AcceptAlone(q, r, p)
  BY <1>3, <1>5, <1>6, <1>7 DEF AcceptAlone
<1>12. ConfirmHarmless(q, r, p)
  <2> SUFFICES ASSUME Confirming(q, p)
               PROVE  /\ Confirming(r, p) => r.runner = q.runner
                      /\ \/ IsExecutionOffer(p, q.runner) /\ ~Drops(r, p, q.runner)
                         \/ /\ proposalStatus[p] \notin Recruiting /\ ~Reopening(r, p)
                            /\ \A v \in Users \ {q.runner} : ~IsExecutionOffer(p, v)
    BY DEF ConfirmHarmless
  <2>0. q.runner \in Users
    BY <1>6 DEF Confirming, Names
  <2>1. Confirming(r, p) => r.runner = q.runner
    BY <1>5, <1>8
  <2>2. CASE IsExecutionOffer(p, q.runner)
    BY <1>4, <1>5, <2>0, <2>1, <2>2
  <2>3. CASE /\ proposalStatus[p] \notin Recruiting
             /\ \A v \in Users \ {q.runner} : ~IsExecutionOffer(p, v)
    BY <1>5, <2>1, <2>3
  <2> QED BY <1>3, <2>2, <2>3 DEF ConfirmHarmless
<1> QED BY <1>1, <1>9, <1>10, <1>11, <1>12

(* Every request begins with what it reads; who accepts is the orderer, and    *)
(* waits for her other requests unless she is impatient.                       *)
LEMMA BegunRequest ==
  ASSUME TypeOK, NEW t \in Threads,
         \/ \E p \in Proposals, u \in Users :
               \/ BeginProposalRequest(t, p, u)
               \/ BeginReportRequest(t, p, u)
               \/ BeginOfferRequest(t, p, u)
               \/ BeginExecutionRequest(t, p, u)
         \/ \E u \in Users : BeginUserRequest(t, u),
         request \in [Threads -> Requests \cup {NoRequest}]
  PROVE  \E r : /\ Fresh(r) /\ request' = [request EXCEPT ![t] = r] /\ UNCHANGED vars
                /\ request[t] = NoRequest
                /\ r.op = "accept_offer" =>
                     /\ r.actor = orderer[r.proposal]
                     /\ r.actor \in Impatient \cup {Admin} \/ ~Waits(r.actor)
<1>1. \E r : Fresh(r) /\ request' = [request EXCEPT ![t] = r] /\ UNCHANGED vars
  BY BeginProposalFresh, BeginReportFresh, BeginOfferFresh, BeginExecutionFresh, BeginUserFresh
<1>2. /\ request[t] = NoRequest
      /\ request'[t].op = "accept_offer" =>
            /\ request'[t].actor = orderer[request'[t].proposal]
            /\ request'[t].actor \in Impatient \cup {Admin} \/ ~Waits(request'[t].actor)
  BY DEF BeginProposalRequest, BeginReportRequest, BeginOfferRequest, BeginExecutionRequest,
     BeginUserRequest, Start
<1> QED BY <1>1, <1>2

LEMMA BeginKeepsPairs ==
  ASSUME PairInv, SessionInv', NEW t \in Threads, NEW r, Fresh(r),
         request' = [request EXCEPT ![t] = r], request[t] = NoRequest, UNCHANGED vars,
         r.op = "accept_offer" =>
            /\ r.actor = orderer[r.proposal]
            /\ r.actor \in Impatient \cup {Admin} \/ ~Waits(r.actor)
  PROVE  PairInv'
<1>1. request \in [Threads -> Requests \cup {NoRequest}] /\ r \in Requests \cup {NoRequest}
  BY DEF PairInv, SessionInv, SessionTypeOK
<1>2. orderer' = orderer /\ offerStatus' = offerStatus /\ proposalStatus' = proposalStatus
  BY DEF vars
<1>3. SingleActiveExecution'
  BY <1>2 DEF PairInv, SingleActiveExecution, IsExecutionOffer
<1>4. ASSUME NEW p \in Proposals, orderer[p] \notin Impatient, NEW x \in Threads, NEW y \in Threads,
             x # y
      PROVE  /\ AcceptAlone(request'[x], request'[y], p)
             /\ ConfirmHarmless(request'[x], request'[y], p)
  <2>1. AcceptAlone(request[x], request[y], p) /\ ConfirmHarmless(request[x], request[y], p)
    BY <1>4 DEF PairInv, PairsHarmless
  <2>2. CASE r = NoRequest
    BY <1>1, <2>1, <2>2
  <2>3. CASE r # NoRequest /\ x = t
    BY <1>1, <1>4, <2>3, BeginHarmless
  <2>4. CASE r # NoRequest /\ y = t
    BY <1>1, <1>4, <2>4, BeginHarmless
  <2> QED BY <1>1, <2>1, <2>2, <2>3, <2>4
<1>5. PairsHarmless'
  <2> SUFFICES ASSUME NEW p \in Proposals, orderer[p] \notin Impatient,
                      NEW x \in Threads, NEW y \in Threads, x # y
               PROVE  /\ AcceptAlone(request[x], request[y], p)'
                      /\ ConfirmHarmless(request[x], request[y], p)'
    BY <1>2 DEF PairsHarmless
  <2> QED
    BY <1>2, <1>4 DEF AcceptAlone, ConfirmHarmless, Accepting, Confirming, Reopening, Drops,
       Names, IsExecutionOffer
<1> QED BY <1>3, <1>5 DEF PairInv

(* The writes of one of two requests: a confirmation lands on the only         *)
(* execution there is, or on none, and an acceptance where there is none.      *)
LEMMA CommitKeepsPairs ==
  ASSUME PairInv, SessionInv', NEW t \in Threads, NEW o \in Threads, t # o, Threads = {t, o},
         Commit(t)
  PROVE  PairInv'
<1>1. PICK r : r = request[t]
  OBVIOUS
<1>2. PICK q : q = request[o]
  OBVIOUS
<1>3. /\ TypeOK /\ r \in Requests /\ r # NoRequest /\ StillKnown(r)
      /\ (q # NoRequest => q \in Requests /\ StillKnown(q))
  BY <1>1, <1>2 DEF PairInv, SessionInv, SessionTypeOK, RequestsInv, Commit
<1>4. request'[t] = NoRequest /\ request'[o] = q
  BY <1>2 DEF PairInv, SessionInv, SessionTypeOK, Commit, Finish
<1>5. \A p \in Proposals, v \in Users : Effect(r, p, v)
  BY <1>1, CommitEffect DEF PairInv
<1>6. \A p \in Proposals : orderer'[p] \notin Impatient => orderer[p] \notin Impatient
  <2> SUFFICES ASSUME NEW p \in Proposals, orderer'[p] \notin Impatient
               PROVE  orderer[p] \notin Impatient
    OBVIOUS
  <2>1. CASE proposalStatus[p] = "ABSENT"
    BY <1>3, <2>1, NoUserAssumption, ImpatientAssumption DEF TypeOK
  <2>2. CASE proposalStatus[p] # "ABSENT"
    BY <1>3, <1>5, <2>2 DEF Effect, Requests
  <2> QED BY <2>1, <2>2
<1>7. ASSUME NEW p \in Proposals, orderer'[p] \notin Impatient
      PROVE  /\ \A u, v \in Users : IsExecutionOffer(p, u)' /\ IsExecutionOffer(p, v)' => u = v
             /\ AcceptAlone(q, NoRequest, p)' /\ ConfirmHarmless(q, NoRequest, p)'
  <2>1. /\ AcceptAlone(r, q, p) /\ ConfirmHarmless(r, q, p)
        /\ AcceptAlone(q, r, p) /\ ConfirmHarmless(q, r, p)
        /\ \A u, v \in Users : IsExecutionOffer(p, u) /\ IsExecutionOffer(p, v) => u = v
    BY <1>1, <1>2, <1>6, <1>7 DEF PairInv, PairsHarmless, SingleActiveExecution
  <2>2. \A v \in Users :
            /\ IsExecutionOffer(p, v) => IsExecutionOffer(p, v)' \/ Drops(r, p, v)
            /\ IsExecutionOffer(p, v)' =>
                  \/ IsExecutionOffer(p, v)
                  \/ (Accepting(r, p) \/ Confirming(r, p)) /\ r.runner = v
    BY <1>5, <1>7 DEF Effect, IsExecutionOffer
  <2>3. \A u, v \in Users : IsExecutionOffer(p, u)' /\ IsExecutionOffer(p, v)' => u = v
    <3>1. CASE Accepting(r, p)
      BY <2>1, <2>2, <3>1 DEF AcceptAlone
    <3>2. CASE Confirming(r, p)
      BY <1>3, <2>1, <2>2, <3>2 DEF ConfirmHarmless, Requests
    <3>3. CASE ~Accepting(r, p) /\ ~Confirming(r, p)
      BY <2>1, <2>2, <3>3
    <3> QED BY <3>1, <3>2, <3>3
  <2>4. AcceptAlone(q, NoRequest, p)'
    <3> SUFFICES ASSUME Accepting(q, p)
                 PROVE  q.actor = orderer'[p] /\ \A v \in Users : ~IsExecutionOffer(p, v)'
      BY DEF AcceptAlone, Accepting, Confirming, Names
    <3>1. proposalStatus[p] # "ABSENT"
      BY <1>3 DEF Accepting, Names, StillKnown, UserOps
    <3>2. q.actor = orderer'[p]
      BY <1>3, <1>5, <1>7, <2>1, <3>1 DEF AcceptAlone, Effect, Requests
    <3> QED BY <2>1, <2>2, <3>2 DEF AcceptAlone
  <2>5. ConfirmHarmless(q, NoRequest, p)'
    <3> SUFFICES ASSUME Confirming(q, p)
                 PROVE  \/ IsExecutionOffer(p, q.runner)'
                        \/ /\ proposalStatus'[p] \notin Recruiting
                           /\ \A v \in Users \ {q.runner} : ~IsExecutionOffer(p, v)'
      BY DEF ConfirmHarmless, Confirming, Reopening, Drops, Names
    <3>1. q.runner \in Users /\ r.runner \in Users
      BY <1>3 DEF Confirming, Names, Requests
    <3>2. CASE IsExecutionOffer(p, q.runner) /\ ~Drops(r, p, q.runner)
      BY <2>2, <3>1, <3>2
    <3>3. CASE /\ proposalStatus[p] \notin Recruiting /\ ~Reopening(r, p)
               /\ \A v \in Users \ {q.runner} : ~IsExecutionOffer(p, v)
      <4>1. proposalStatus'[p] \notin Recruiting
        BY <1>5, <1>7, <3>1, <3>3 DEF Effect
      <4>2. ~Accepting(r, p) /\ (Confirming(r, p) => r.runner = q.runner)
        BY <2>1 DEF AcceptAlone, ConfirmHarmless
      <4> QED BY <2>2, <3>3, <4>1, <4>2
    <3> QED BY <2>1, <3>2, <3>3 DEF ConfirmHarmless
  <2> QED BY <2>3, <2>4, <2>5
<1>8. SingleActiveExecution'
  BY <1>7 DEF SingleActiveExecution
<1>9. PairsHarmless'
  <2> SUFFICES ASSUME NEW p \in Proposals, orderer'[p] \notin Impatient,
                      NEW x \in Threads, NEW y \in Threads, x # y
               PROVE  /\ AcceptAlone(request[x], request[y], p)'
                      /\ ConfirmHarmless(request[x], request[y], p)'
    BY DEF PairsHarmless
  <2>1. CASE x = o /\ y = t
    BY <1>4, <1>7, <2>1 DEF AcceptAlone, ConfirmHarmless, Accepting, Confirming, Reopening,
       Drops, Names
  <2>2. CASE x = t /\ y = o
    BY <1>4, <2>2 DEF AcceptAlone, ConfirmHarmless, Accepting, Confirming, Names
  <2> QED BY <2>1, <2>2
<1> QED BY <1>8, <1>9 DEF PairInv

(* A request that is lost leaves the other as it was. *)
LEMMA AbortKeepsPairs ==
  ASSUME PairInv, SessionInv', NEW t \in Threads, Abort(t)
  PROVE  PairInv'
<1>1. /\ request' = [request EXCEPT ![t] = NoRequest]
      /\ request \in [Threads -> Requests \cup {NoRequest}]
      /\ orderer' = orderer /\ offerStatus' = offerStatus /\ proposalStatus' = proposalStatus
  BY DEF Abort, Finish, vars, PairInv, SessionInv, SessionTypeOK
<1>2. SingleActiveExecution'
  BY <1>1 DEF PairInv, SingleActiveExecution, IsExecutionOffer
<1>3. PairsHarmless'
  <2> SUFFICES ASSUME NEW p \in Proposals, orderer[p] \notin Impatient,
                      NEW x \in Threads, NEW y \in Threads, x # y
               PROVE  /\ AcceptAlone(request[x], request[y], p)'
                      /\ ConfirmHarmless(request[x], request[y], p)'
    BY <1>1 DEF PairsHarmless
  <2>1. AcceptAlone(request[x], request[y], p) /\ ConfirmHarmless(request[x], request[y], p)
    BY DEF PairInv, PairsHarmless
  <2>2. /\ request'[x] = request[x] \/ request'[x] = NoRequest
        /\ request'[y] = request[y] \/ request'[y] = NoRequest
    BY <1>1
  <2> QED
    BY <1>1, <2>1, <2>2 DEF AcceptAlone, ConfirmHarmless, Accepting, Confirming, Reopening,
       Drops, Names, IsExecutionOffer
<1> QED BY <1>2, <1>3 DEF PairInv

LEMMA PairsUnchanged ==
  ASSUME PairInv, SessionInv', UNCHANGED sessionVars
  PROVE  PairInv'
<1>1. /\ request' = request /\ orderer' = orderer /\ offerStatus' = offerStatus
      /\ proposalStatus' = proposalStatus
  BY DEF sessionVars, vars
<1> QED
  BY <1>1 DEF PairInv, SingleActiveExecution, PairsHarmless, AcceptAlone, ConfirmHarmless,
     Accepting, Confirming, Reopening, Drops, Names, IsExecutionOffer

LEMMA PairsInit == SessionInit => PairInv
<1> SUFFICES ASSUME SessionInit PROVE PairInv
  OBVIOUS
<1>1. SessionInv
  BY SessionInitInv
<1>2. SingleActiveExecution
  BY DEF SessionInit, Init, SingleActiveExecution, IsExecutionOffer, ActiveOfferStatuses
<1>3. PairsHarmless
  BY DEF SessionInit, PairsHarmless, AcceptAlone, ConfirmHarmless, Accepting, Confirming, Names
<1> QED BY <1>1, <1>2, <1>3 DEF PairInv

LEMMA PairsNext ==
  ASSUME NEW a, NEW b, a # b, Threads = {a, b}, PairInv, [SessionNext]_sessionVars
  PROVE  PairInv'
<1>1. SessionInv'
  BY SessionNextInv DEF PairInv
<1>2. CASE UNCHANGED sessionVars
  BY <1>1, <1>2, PairsUnchanged
<1>3. CASE SessionNext
  <2>1. PICK t \in Threads :
          \/ \/ \E p \in Proposals, u \in Users :
                   \/ BeginProposalRequest(t, p, u)
                   \/ BeginReportRequest(t, p, u)
                   \/ BeginOfferRequest(t, p, u)
                   \/ BeginExecutionRequest(t, p, u)
             \/ \E u \in Users : BeginUserRequest(t, u)
          \/ Commit(t)
          \/ Abort(t)
    BY <1>3 DEF SessionNext
  <2>2. CASE \/ \E p \in Proposals, u \in Users :
                   \/ BeginProposalRequest(t, p, u)
                   \/ BeginReportRequest(t, p, u)
                   \/ BeginOfferRequest(t, p, u)
                   \/ BeginExecutionRequest(t, p, u)
             \/ \E u \in Users : BeginUserRequest(t, u)
    <3>1. TypeOK /\ request \in [Threads -> Requests \cup {NoRequest}]
      BY DEF PairInv, SessionInv, SessionTypeOK
    <3>2. \E r : /\ Fresh(r) /\ request' = [request EXCEPT ![t] = r] /\ UNCHANGED vars
                 /\ request[t] = NoRequest
                 /\ r.op = "accept_offer" =>
                      /\ r.actor = orderer[r.proposal]
                      /\ r.actor \in Impatient \cup {Admin} \/ ~Waits(r.actor)
      BY <2>2, <3>1, BegunRequest
    <3> QED BY <1>1, <3>2, BeginKeepsPairs
  <2>3. CASE Commit(t)
    <3>1. PICK o \in Threads : t # o /\ Threads = {t, o}
      OBVIOUS
    <3> QED BY <1>1, <2>3, <3>1, CommitKeepsPairs
  <2>4. CASE Abort(t)
    BY <1>1, <2>4, AbortKeepsPairs
  <2> QED BY <2>1, <2>2, <2>3, <2>4
<1> QED BY <1>2, <1>3

(* While two requests overlap, an orderer who waits for her answers never has  *)
(* two executions on one proposal (_ensure_no_active_offer, on a snapshot):    *)
(* a stale confirmation finds its own execution, or none, whatever the runners *)
(* and the administrator repeat.  A third request can break this.              *)
THEOREM SingleActiveCorrect ==
  ASSUME NEW a, NEW b, a # b, Threads = {a, b}
  PROVE  SessionSpec => []SingleActiveExecution
<1>1. PairInv /\ [SessionNext]_sessionVars => PairInv'
  BY PairsNext
<1>2. PairInv => SingleActiveExecution
  BY DEF PairInv
<1> QED
  BY PairsInit, <1>1, <1>2, PTL DEF SessionSpec

--------------------------------------------------------------------------------
(* Any number of requests, until the dispute of a proposal is resolved: the    *)
(* orderer and the runners who wait for their answers share one execution.     *)

(* Who sends a request: the runner for his offer, the orderer for her          *)
(* proposal; and a withdrawal cancels only what is its user's.                 *)
Authorized(r) ==
    /\ r.op \in {"create_proposal", "cancel_offer", "complete_delivery", "withdraw"} =>
            r.actor = r.runner
    /\ r.op \in {"accept_offer", "confirm_received"} => r.actor = orderer[r.proposal]
    /\ r.op = "raise_dispute" => r.actor \in {r.runner, orderer[r.proposal]}
    /\ r.op = "withdraw" =>
            \A p \in Proposals, v \in Users : <<p, v>> \in r.seen.offers =>
                v = r.actor \/ orderer[p] = r.actor

AllAuthorized == \A t \in Threads : request[t] # NoRequest => Authorized(request[t])

(* Two requests of one sender are under way only if he is impatient.           *)
OneEach ==
    \A s, t \in Threads :
        s # t /\ request[s] # NoRequest /\ request[t] # NoRequest
            /\ request[s].actor = request[t].actor => request[s].actor \in Impatient \cup {Admin}

(* What a request under way says of the execution of a patient v: it is there  *)
(* while he confirms it, and it is not while the orderer accepts, withdraws    *)
(* with his offer, or confirms the execution of somebody else.                 *)
Compatible(r, p, v) ==
    /\ Confirming(r, p) /\ r.runner = v /\ r.actor = v => IsExecutionOffer(p, v)
    /\ \/ Accepting(r, p)
       \/ r # NoRequest /\ r.op = "withdraw" /\ r.actor = orderer[p] /\ <<p, v>> \in r.seen.offers
       \/ Confirming(r, p) /\ r.actor = orderer[p] /\ r.runner \in Patient \ {v}
       => ~IsExecutionOffer(p, v)

AllCompatible(p) ==
    orderer[p] \notin Impatient =>
        \A t \in Threads, v \in Patient : Compatible(request[t], p, v)

CrowdInv(p) ==
    SessionInv /\ AllAuthorized /\ OneEach /\ OneAmongPatient(p) /\ AllCompatible(p)

(* The orderer of a proposal with a row is a user and stays the orderer.       *)
LEMMA OrdererStays ==
  ASSUME SessionInv, NEW t \in Threads, Commit(t), NEW p \in Proposals
  PROVE  \/ orderer'[p] = orderer[p]
         \/ /\ proposalStatus[p] = "ABSENT" /\ request[t].op = "create_proposal"
            /\ orderer'[p] = request[t].runner
<1>1. PICK r : r = request[t]
  OBVIOUS
<1>2. TypeOK /\ r \in Requests /\ r # NoRequest
  BY <1>1 DEF SessionInv, SessionTypeOK, Commit
<1>3. CASE CommitUserRequest(r, r.runner) /\ r.op = "create_proposal"
  <2>1. PICK q \in Proposals :
            proposalStatus[q] = "ABSENT" /\ CreateProposalWrites(q, r.runner, r.fee)
    BY <1>3 DEF CommitUserRequest
  <2> QED BY <1>1, <1>2, <1>3, <2>1 DEF CreateProposalWrites, TypeOK
<1>4. CASE CommitUserRequest(r, r.runner) /\ r.op # "create_proposal"
  BY <1>4 DEF CommitUserRequest, UpdateAlarmWrites
<1>5. CASE CommitWithdrawal(r, r.runner)
  BY <1>5 DEF CommitWithdrawal, WithdrawUserWrites
<1>6. CASE CommitProposalRequest(r, r.proposal, r.runner)
  BY <1>6 DEF CommitProposalRequest, UpdateProposalWrites, CancelProposalWrites,
     ConfirmPaymentWrites
<1>7. CASE CommitReportRequest(r, r.proposal, r.runner)
  BY <1>7 DEF CommitReportRequest, CreateReportWrites, AcceptReportWrites, RejectReportWrites
<1>8. CASE CommitOfferRequest(r, r.proposal, r.runner)
  BY <1>8 DEF CommitOfferRequest, CreateOfferWrites, CancelOfferWrites, AcceptOfferWrites
<1>9. CASE CommitExecutionRequest(r, r.proposal, r.runner)
  BY <1>9 DEF CommitExecutionRequest, CompleteDeliveryWrites, ConfirmReceivedWrites,
     RaiseDisputeWrites, ResolveWrites
<1> QED BY <1>1, <1>3, <1>4, <1>5, <1>6, <1>7, <1>8, <1>9 DEF Commit

(* A resolution shows. *)
LEMMA ResolutionShows ==
  ASSUME SessionInv, NEW t \in Threads, Commit(t), NEW p \in Proposals,
         Names(request[t], p), request[t].op = "resolve"
  PROVE  ~Unresolved(p)'
<1>1. PICK r : r = request[t]
  OBVIOUS
<1>2. /\ offerStatus \in [Proposals -> [Users -> OfferStatus \cup {"ABSENT"}]]
      /\ r.runner \in Users /\ r.proposal = p
  BY <1>1 DEF SessionInv, SessionTypeOK, TypeOK, Commit, Requests, Names
<1>3. ResolveWrites(p, r.runner)
  BY <1>1, <1>2 DEF Commit, CommitProposalRequest, CommitReportRequest, CommitOfferRequest,
     CommitExecutionRequest, CommitUserRequest, CommitWithdrawal
<1> QED BY <1>2, <1>3 DEF ResolveWrites, Unresolved

(* Every request begins with what it reads, sent by whom it must come from.    *)
LEMMA BegunAuthorized ==
  ASSUME TypeOK, NEW t \in Threads,
         \/ \E p \in Proposals, u \in Users :
               \/ BeginProposalRequest(t, p, u)
               \/ BeginReportRequest(t, p, u)
               \/ BeginOfferRequest(t, p, u)
               \/ BeginExecutionRequest(t, p, u)
         \/ \E u \in Users : BeginUserRequest(t, u),
         request \in [Threads -> Requests \cup {NoRequest}]
  PROVE  \E r : /\ Fresh(r) /\ request' = [request EXCEPT ![t] = r] /\ UNCHANGED vars
                /\ request[t] = NoRequest
                /\ Authorized(r)
                /\ r.actor \in Impatient \cup {Admin} \/ ~Waits(r.actor)
<1>1. \E r : Fresh(r) /\ request' = [request EXCEPT ![t] = r] /\ UNCHANGED vars
  BY BeginProposalFresh, BeginReportFresh, BeginOfferFresh, BeginExecutionFresh, BeginUserFresh
<1>2. /\ request[t] = NoRequest
      /\ request'[t].actor \in Impatient \cup {Admin} \/ ~Waits(request'[t].actor)
  BY DEF BeginProposalRequest, BeginReportRequest, BeginOfferRequest, BeginExecutionRequest,
     BeginUserRequest, Start
<1>3. Authorized(request'[t])
  <2>1. ASSUME NEW u \in Users, BeginUserRequest(t, u) PROVE Authorized(request'[t])
    <3>1. /\ request'[t].actor = u /\ request'[t].runner = u
          /\ request'[t].op \in {"create_proposal", "alarm_on", "alarm_off", "withdraw"}
          /\ request'[t].op = "withdraw" => request'[t].seen = ReadActivity(u)
      BY <2>1 DEF BeginUserRequest, Start
    <3>2. ReadActivity(u).offers = WaitingOffersTouched(u)
      BY DEF ReadActivity, ReadUser
    <3> QED BY <3>1, <3>2 DEF Authorized, WaitingOffersTouched, PreMatchProposals
  <2>2. ASSUME NEW p \in Proposals, NEW u \in Users,
               \/ BeginProposalRequest(t, p, u)
               \/ BeginReportRequest(t, p, u)
               \/ BeginOfferRequest(t, p, u)
               \/ BeginExecutionRequest(t, p, u)
        PROVE  Authorized(request'[t])
    BY <2>2 DEF Authorized, BeginProposalRequest, BeginReportRequest, BeginOfferRequest,
       BeginExecutionRequest, Start
  <2> QED BY <2>1, <2>2
<1> QED BY <1>1, <1>2, <1>3

LEMMA BeginKeepsCrowd ==
  ASSUME NEW p \in Proposals, CrowdInv(p), SessionInv', NEW t \in Threads, NEW r, Fresh(r),
         request' = [request EXCEPT ![t] = r], request[t] = NoRequest, UNCHANGED vars,
         Authorized(r), r.actor \in Impatient \cup {Admin} \/ ~Waits(r.actor)
  PROVE  CrowdInv(p)'
<1>1. /\ TypeOK /\ request \in [Threads -> Requests \cup {NoRequest}]
      /\ r \in Requests \cup {NoRequest} /\ request'[t] = r
      /\ \A s \in Threads : s # t => request'[s] = request[s]
  BY DEF CrowdInv, SessionInv, SessionTypeOK
<1>2. orderer' = orderer /\ offerStatus' = offerStatus /\ proposalStatus' = proposalStatus
  BY DEF vars
<1>3. OneAmongPatient(p)'
  BY <1>2 DEF CrowdInv, OneAmongPatient, IsExecutionOffer
<1>4. OneEach'
  <2>1. \A s \in Threads : request[s] # NoRequest =>
            request[s].actor # r.actor \/ r.actor \in Impatient \cup {Admin}
    BY DEF Waits
  <2> QED BY <1>1, <2>1 DEF CrowdInv, OneEach
<1>5. AllAuthorized'
  <2>1. \A s \in Threads : request'[s] # NoRequest => Authorized(request'[s])
    BY <1>1 DEF CrowdInv, AllAuthorized
  <2> QED BY <1>2, <2>1 DEF AllAuthorized, Authorized
<1>6. ASSUME orderer[p] \notin Impatient, NEW v \in Patient, r # NoRequest
      PROVE  Compatible(r, p, v)
  <2>1. /\ Accepting(r, p) => ~IsExecutionOffer(p, v)
        /\ Confirming(r, p) => IsExecutionOffer(p, r.runner)
    BY <1>1, <1>6, BeginsInTime DEF Patient
  <2>2. r.op = "withdraw" /\ <<p, v>> \in r.seen.offers => ~IsExecutionOffer(p, v)
    BY DEF Fresh, FreshUserRequest, WaitingOffersTouched, IsExecutionOffer, ActiveOfferStatuses
  <2>3. Confirming(r, p) /\ r.runner \in Patient \ {v} => ~IsExecutionOffer(p, v)
    BY <1>6, <2>1 DEF CrowdInv, OneAmongPatient
  <2> QED BY <2>1, <2>2, <2>3 DEF Compatible
<1>7. AllCompatible(p)'
  <2>1. orderer[p] \notin Impatient =>
            \A s \in Threads, v \in Patient : Compatible(request'[s], p, v)
    BY <1>1, <1>6 DEF CrowdInv, AllCompatible
  <2> QED
    BY <1>2, <2>1 DEF AllCompatible, Compatible, Accepting, Confirming, Names, IsExecutionOffer,
       Patient
<1> QED BY <1>3, <1>4, <1>5, <1>7 DEF CrowdInv

(* The writes of one of many requests. *)
LEMMA CommitKeepsCrowd ==
  ASSUME NEW p \in Proposals, CrowdInv(p), SessionInv', NEW t \in Threads, Commit(t),
         Unresolved(p)'
  PROVE  CrowdInv(p)'
<1>1. PICK r : r = request[t]
  OBVIOUS
<1>2. /\ TypeOK /\ r \in Requests /\ r # NoRequest /\ StillKnown(r) /\ Authorized(r)
      /\ r.runner \in Users
  BY <1>1 DEF CrowdInv, SessionInv, SessionTypeOK, RequestsInv, AllAuthorized, Commit, Requests
<1>3. /\ request'[t] = NoRequest
      /\ \A s \in Threads : s # t => request'[s] = request[s]
  BY DEF CrowdInv, SessionInv, SessionTypeOK, Commit, Finish
<1>4. \A x \in Proposals : orderer'[x] = orderer[x] \/
            /\ proposalStatus[x] = "ABSENT" /\ r.op = "create_proposal"
            /\ orderer'[x] = r.actor /\ r.actor \in Users
  BY <1>1, <1>2, OrdererStays DEF CrowdInv, Authorized
<1>5. \A x \in Proposals : orderer[x] \in Users \cup {Admin} /\
            (orderer[x] \in Users => orderer'[x] = orderer[x])
  BY <1>2, <1>4, NoUserAssumption DEF TypeOK, Admin
<1>6. OneEach'
  BY <1>3 DEF CrowdInv, OneEach
<1>7. AllAuthorized'
  <2> SUFFICES ASSUME NEW s \in Threads, s # t, request[s] # NoRequest
               PROVE  Authorized(request[s])'
    BY <1>3 DEF AllAuthorized
  <2>1. PICK q : q = request[s] /\ q = request'[s]
    BY <1>3
  <2>2. q \in Requests /\ StillKnown(q) /\ Authorized(q)
    BY <2>1 DEF CrowdInv, SessionInv, SessionTypeOK, RequestsInv, AllAuthorized
  <2>3. q.op \in {"accept_offer", "confirm_received", "raise_dispute"} =>
            q.proposal \in Proposals /\ orderer'[q.proposal] = orderer[q.proposal]
    BY <1>2, <1>5, <2>2, NoUserAssumption DEF StillKnown, UserOps, TypeOK, Admin
  <2>4. q.op = "withdraw" => q.actor \in Users
    BY <2>2 DEF Authorized, Requests
  <2>5. Authorized(q)'
    BY <1>5, <2>2, <2>3, <2>4 DEF Authorized
  <2> QED BY <2>1, <2>5 DEF Authorized
<1>8. ASSUME orderer'[p] \notin Impatient
      PROVE  /\ \A u, v \in Patient : IsExecutionOffer(p, u)' /\ IsExecutionOffer(p, v)' => u = v
             /\ \A s \in Threads, v \in Patient : s # t => Compatible(request[s], p, v)'
  <2>1. orderer[p] \notin Impatient
    BY <1>5, <1>8, NoUserAssumption, ImpatientAssumption DEF Admin
  <2>2. \A v \in Users :
            /\ IsExecutionOffer(p, v) =>
                  \/ IsExecutionOffer(p, v)'
                  \/ r.actor = v /\ r.op \in {"cancel_offer", "withdraw"}
                  \/ r.op = "withdraw" /\ r.actor = orderer[p] /\ <<p, v>> \in r.seen.offers
            /\ IsExecutionOffer(p, v)' =>
                  \/ IsExecutionOffer(p, v)
                  \/ (Accepting(r, p) \/ Confirming(r, p)) /\ r.runner = v
    <3>1. \A v \in Users : Effect(r, p, v)
      BY <1>1, CommitEffect DEF CrowdInv
    <3>2. \A v \in Users : Drops(r, p, v) =>
            \/ r.actor = v /\ r.op \in {"cancel_offer", "withdraw"}
            \/ r.op = "withdraw" /\ r.actor = orderer[p] /\ <<p, v>> \in r.seen.offers
      BY <1>1, <1>2, ResolutionShows DEF CrowdInv, Drops, Authorized, Names
    <3> QED BY <3>1, <3>2 DEF Effect, IsExecutionOffer
  <2>3. \A v \in Patient : Compatible(r, p, v)
    BY <1>1, <2>1 DEF CrowdInv, AllCompatible
  <2>4. Accepting(r, p) => r.actor = orderer[p]
    BY <1>2 DEF Authorized, Accepting, Names
  <2>5. Confirming(r, p) => r.actor = r.runner \/ r.actor = orderer[p]
    BY <1>2 DEF Authorized, Confirming, ConfirmOps, Names
  <2>6. ASSUME NEW v \in Patient, IsExecutionOffer(p, v)', ~IsExecutionOffer(p, v)
        PROVE  /\ r.actor = orderer[p] /\ r.runner = v
               /\ \A u \in Patient \ {v} : ~IsExecutionOffer(p, u)
    BY <2>2, <2>3, <2>4, <2>5, <2>6 DEF Compatible, Patient
  <2>7. \A u, v \in Patient : IsExecutionOffer(p, u)' /\ IsExecutionOffer(p, v)' => u = v
    BY <2>1, <2>6 DEF CrowdInv, OneAmongPatient
  <2>8. ASSUME NEW s \in Threads, NEW v \in Patient, s # t
        PROVE  Compatible(request[s], p, v)'
    <3>1. PICK q : q = request[s] /\ q = request'[s]
      BY <1>3, <2>8
    <3>2. CASE q = NoRequest
      BY <3>1, <3>2 DEF Compatible, Confirming, Accepting, Names
    <3>3. CASE q # NoRequest
      <4>1. /\ Compatible(q, p, v) /\ Authorized(q) /\ StillKnown(q) /\ q \in Requests
            /\ q.actor = r.actor => q.actor \in Impatient \cup {Admin}
        BY <1>1, <1>2, <2>1, <2>8, <3>1, <3>3
           DEF CrowdInv, AllCompatible, AllAuthorized, SessionInv, SessionTypeOK, RequestsInv, OneEach
      <4>2. v \in Users /\ v \notin Impatient \cup {Admin}
        BY NoUserAssumption DEF Patient, Admin
      <4>3. ASSUME Confirming(q, p), q.runner = v, q.actor = v PROVE IsExecutionOffer(p, v)'
        <5>1. IsExecutionOffer(p, v)
          BY <4>1, <4>3 DEF Compatible
        <5>2. ~(r.op = "withdraw" /\ r.actor = orderer[p] /\ <<p, v>> \in r.seen.offers)
          BY <1>2, <2>3, <5>1 DEF Compatible
        <5>3. r.actor # v
          BY <4>1, <4>2, <4>3
        <5> QED BY <2>2, <4>2, <5>1, <5>2, <5>3
      <4>4. ASSUME q.actor = orderer'[p], q.actor \in Users,
                   q.actor = orderer[p] => ~IsExecutionOffer(p, v)
            PROVE  ~IsExecutionOffer(p, v)'
        <5>1. q.actor # r.actor
          BY <1>8, <4>1, <4>4, NoUserAssumption DEF Admin
        <5>2. orderer'[p] = orderer[p]
          BY <1>4, <4>4, <5>1
        <5> QED BY <2>6, <4>4, <5>1, <5>2
      <4>5. Accepting(q, p) => q.actor = orderer'[p] /\ q.actor = orderer[p] /\ q.actor \in Users
        BY <1>2, <1>5, <4>1 DEF Authorized, Accepting, Names, StillKnown, UserOps, TypeOK, Admin
      <4>6. Confirming(q, p) => orderer[p] = orderer'[p] /\ orderer[p] \in Users
        BY <1>2, <1>5, <4>1 DEF Confirming, ConfirmOps, Names, StillKnown, UserOps, TypeOK, Admin
      <4>7. q.op = "withdraw" => q.actor \in Users
        BY <4>1 DEF Authorized, Requests
      <4>8. ASSUME \/ Accepting(q, p)
                   \/ /\ q.op = "withdraw" /\ q.actor = orderer'[p] /\ <<p, v>> \in q.seen.offers
                   \/ /\ Confirming(q, p) /\ q.actor = orderer'[p] /\ q.runner \in Patient \ {v}
            PROVE  ~IsExecutionOffer(p, v)'
        BY <3>3, <4>1, <4>4, <4>5, <4>6, <4>7, <4>8 DEF Compatible
      <4> QED
        BY <3>1, <4>3, <4>8 DEF Compatible, Accepting, Confirming, Names, Patient
    <3> QED BY <3>2, <3>3
  <2> QED BY <2>7, <2>8
<1>9. OneAmongPatient(p)'
  BY <1>8 DEF OneAmongPatient, Patient
<1>10. AllCompatible(p)'
  <2>1. \A v \in Patient : Compatible(request[t], p, v)'
    BY <1>3 DEF Compatible, Accepting, Confirming, Names
  <2> QED BY <1>8, <2>1 DEF AllCompatible, Patient
<1> QED BY <1>6, <1>7, <1>9, <1>10 DEF CrowdInv

(* A request that is lost, and a stutter, leave the others as they were.       *)
LEMMA AbortKeepsCrowd ==
  ASSUME NEW p \in Proposals, CrowdInv(p), SessionInv', UNCHANGED vars,
         \A s \in Threads : request'[s] \in {request[s], NoRequest}
  PROVE  CrowdInv(p)'
<1>1. orderer' = orderer /\ offerStatus' = offerStatus
  BY DEF vars
<1>2. OneAmongPatient(p)' /\ OneEach'
  BY <1>1 DEF CrowdInv, OneAmongPatient, OneEach, IsExecutionOffer
<1>3. AllAuthorized'
  <2>1. \A s \in Threads : request'[s] # NoRequest => Authorized(request'[s])
    BY DEF CrowdInv, AllAuthorized
  <2> QED BY <1>1, <2>1 DEF AllAuthorized, Authorized
<1>4. AllCompatible(p)'
  <2>1. orderer[p] \notin Impatient =>
            \A s \in Threads, v \in Patient : Compatible(request'[s], p, v)
    BY DEF CrowdInv, AllCompatible, Compatible, Accepting, Confirming, Names
  <2> QED
    BY <1>1, <2>1 DEF AllCompatible, Compatible, Accepting, Confirming, Names, IsExecutionOffer,
       Patient
<1> QED BY <1>2, <1>3, <1>4 DEF CrowdInv

LEMMA CrowdInit == ASSUME NEW p \in Proposals, SessionInit PROVE CrowdInv(p)
<1>1. SessionInv
  BY SessionInitInv
<1>2. AllAuthorized /\ OneEach /\ AllCompatible(p)
  BY DEF SessionInit, AllAuthorized, OneEach, AllCompatible, Compatible, Accepting, Confirming,
     Names
<1>3. OneAmongPatient(p)
  BY DEF SessionInit, Init, OneAmongPatient, IsExecutionOffer, ActiveOfferStatuses, Patient
<1> QED BY <1>1, <1>2, <1>3 DEF CrowdInv

LEMMA CrowdNext ==
  ASSUME NEW p \in Proposals, CrowdInv(p), Unresolved(p)', [SessionNext]_sessionVars
  PROVE  CrowdInv(p)'
<1>1. SessionInv'
  BY SessionNextInv DEF CrowdInv
<1>2. CASE UNCHANGED sessionVars
  BY <1>1, <1>2, AbortKeepsCrowd DEF sessionVars
<1>3. CASE SessionNext
  <2>1. PICK t \in Threads :
          \/ \/ \E x \in Proposals, u \in Users :
                   \/ BeginProposalRequest(t, x, u)
                   \/ BeginReportRequest(t, x, u)
                   \/ BeginOfferRequest(t, x, u)
                   \/ BeginExecutionRequest(t, x, u)
             \/ \E u \in Users : BeginUserRequest(t, u)
          \/ Commit(t)
          \/ Abort(t)
    BY <1>3 DEF SessionNext
  <2>2. TypeOK /\ request \in [Threads -> Requests \cup {NoRequest}]
    BY DEF CrowdInv, SessionInv, SessionTypeOK
  <2>3. CASE \/ \E x \in Proposals, u \in Users :
                   \/ BeginProposalRequest(t, x, u)
                   \/ BeginReportRequest(t, x, u)
                   \/ BeginOfferRequest(t, x, u)
                   \/ BeginExecutionRequest(t, x, u)
             \/ \E u \in Users : BeginUserRequest(t, u)
    BY <1>1, <2>2, <2>3, BegunAuthorized, BeginKeepsCrowd
  <2>4. CASE Commit(t)
    BY <1>1, <2>4, CommitKeepsCrowd
  <2>5. CASE Abort(t)
    <3>1. UNCHANGED vars /\ \A s \in Threads : request'[s] \in {request[s], NoRequest}
      BY <2>2, <2>5 DEF Abort, Finish
    <3> QED BY <1>1, <3>1, AbortKeepsCrowd
  <2> QED BY <2>1, <2>3, <2>4, <2>5
<1> QED BY <1>2, <1>3

(* However many requests overlap, an orderer who waits for her answers has one *)
(* execution on a proposal, among runners who wait for theirs, as long as no   *)
(* dispute of that proposal has been resolved. The resolution is what a stale  *)
(* confirmation needs to revive an execution (offer_service.py:308), and an    *)
(* impatient runner can confirm and cancel one offer at the same time.         *)
THEOREM SingleUntilResolved ==
  ASSUME NEW p \in Proposals
  PROVE  SessionSpec /\ []Unresolved(p) => []OneAmongPatient(p)
<1>1. SessionInit => CrowdInv(p)
  BY CrowdInit
<1>2. CrowdInv(p) /\ Unresolved(p)' /\ [SessionNext]_sessionVars => CrowdInv(p)'
  BY CrowdNext
<1>3. CrowdInv(p) => OneAmongPatient(p)
  BY DEF CrowdInv
<1> QED
  BY <1>1, <1>2, <1>3, PTL DEF SessionSpec

(* The same as a state invariant: however many requests overlap, before a      *)
(* dispute is filed an orderer who waits for her answers has one execution on  *)
(* a proposal, among runners who wait for theirs.  Slow offers may open the    *)
(* recruitment again and slow confirmations overwrite it, but accept           *)
(* (_ensure_no_active_offer, on a snapshot) meets no other execution.          *)
THEOREM SingleBeforeDisputeCorrect == SessionSpec => []SingleBeforeDispute
<1> DEFINE Inv == SessionInv /\ \A p \in Proposals : Undisputed(p) => CrowdInv(p)
<1>1. SessionInit => Inv
  BY CrowdInit, SessionInitInv
<1>2. Inv /\ [Grows]_sessionVars /\ [SessionNext]_sessionVars => Inv'
  <2> SUFFICES ASSUME Inv, [Grows]_sessionVars, [SessionNext]_sessionVars PROVE Inv'
    OBVIOUS
  <2>1. SessionInv'
    BY SessionNextInv
  <2>2. ASSUME NEW p \in Proposals, Undisputed(p)' PROVE CrowdInv(p)'
    <3>1. Undisputed(p)
      BY <2>2 DEF Undisputed, Grows, sessionVars, vars
    <3>2. Unresolved(p)'
      BY <2>1, <2>2 DEF Undisputed, Unresolved, SessionInv, TableInv, DisputeHasEvidence
    <3> QED BY <3>1, <3>2, CrowdNext
  <2> QED BY <2>1, <2>2
<1>3. Inv => SingleBeforeDispute
  BY DEF CrowdInv, SingleBeforeDispute
<1> HIDE DEF Inv
<1> QED
  BY <1>1, <1>2, <1>3, NothingTakenBack, PTL DEF SessionSpec

================================================================================
