------------------------------ MODULE Marketplace ------------------------------
(* The tables behind proposals, offers, reports, disputes and withdrawal, and  *)
(* every request that changes them, each request as one atomic step.           *)
(*                                                                             *)
(* A request is split into its guard (CanX: what the service checks on what it *)
(* has read), its writes (XWrites: what it stores, given what it has read) and *)
(* the PENDING notifications its event handler adds in the same transaction    *)
(* (OnX).  Here the three happen together; a module in which requests overlap  *)
(* can evaluate guard and writes at different moments.                         *)
EXTENDS Naturals, FiniteSets

CONSTANTS
    Users,       \* ids of the accounts (signed up before the behaviour starts)
    Proposals,   \* ids of the proposals that may be created
    Fees,        \* errand fees that pass _validate_errand_fee
    NoUser,      \* "no orderer": the proposal row does not exist yet
    NoFee,       \* "no fee": the row does not exist, or was never paid for
    AlarmUsers,  \* bound: the accounts that use the alarm switch; the others keep
                 \* the FALSE they signed up with
    Reporters    \* bound: the accounts that report proposals

ASSUME NoUserAssumption == NoUser \notin Users
ASSUME NoFeeAssumption == NoFee \notin Fees
ASSUME AlarmUsersAssumption == AlarmUsers \subseteq Users
ASSUME ReportersAssumption == Reporters \subseteq Users
ASSUME FiniteAssumption == IsFiniteSet(Users) /\ IsFiniteSet(Proposals)

VARIABLES
    deleted,          \* users.deleted
    level,            \* users.level
    alarmEnabled,     \* users.alarm_enabled (NULL counts as FALSE)
    orderer,          \* proposals.orderer_id
    proposalStatus,   \* proposals.status, "ABSENT" when there is no row
    errandFee,        \* proposals.errand_fee
    paidFee,          \* history: the fee shown when the payment was confirmed
    proposalStamps,   \* proposals.runner_confirmed_at, orderer_confirmed_at
    offerStatus,      \* offers.status by proposal and runner, "ABSENT": no row
    offerStamps,      \* offers.runner_confirmed_at, orderer_confirmed_at
    evidences,        \* dispute_evidences rows
    reports,          \* proposal_reports.status by proposal and reporter
    notifications     \* notifications rows, as inserted

userVars == <<deleted, level, alarmEnabled>>
proposalVars == <<orderer, proposalStatus, errandFee, paidFee, proposalStamps>>
offerVars == <<offerStatus, offerStamps>>
vars == <<userVars, proposalVars, offerVars, evidences, reports, notifications>>

ProposalStatus ==
    {"HOLDING", "POSTED", "OFFERED", "MATCHED", "ORDER_COMPLETED",
     "ALL_COMPLETED", "DISPUTED", "RESOLVED", "REPORTED", "CANCELLED"}

OfferStatus ==
    {"WAITING", "ACCEPTED", "RUNNER_COMPLETED", "ALL_COMPLETED", "DISPUTED",
     "RESOLVED", "REJECTED", "CANCELLED"}

ReportStatus == {"PENDING", "ACCEPTED", "REJECTED"}

NotificationTypes ==
    {"OFFER_NEW", "OFFER_SUBMITTED", "OFFER_ACCEPTED", "OFFER_REJECTED",
     "MEETING_CONFIRMED", "EXECUTION_COMPLETED", "DISPUTE_RAISED"}

(* A timestamp column is modelled by the request whose instant it holds. *)
Stamps == {"null", "complete_delivery", "confirm_received"}
Sides == {"runner", "orderer"}   \* the columns runner_confirmed_at, orderer_confirmed_at
NoStamps == [side \in Sides |-> "null"]

OpenProposalStatuses == {"POSTED", "OFFERED"}
EditableStatuses == {"HOLDING", "POSTED"}
(* Mutant: a reported proposal can still be cancelled. *)
CancellableStatusesWithReported == {"HOLDING", "POSTED", "OFFERED", "REPORTED"}
CancellableStatuses == {"HOLDING", "POSTED", "OFFERED"}
ActiveOfferStatuses == {"ACCEPTED", "RUNNER_COMPLETED", "ALL_COMPLETED", "DISPUTED"}
WithdrawalBlockingProposalStatuses == {"MATCHED", "ORDER_COMPLETED", "DISPUTED"}
WithdrawalBlockingOfferStatuses == {"ACCEPTED", "RUNNER_COMPLETED", "DISPUTED"}

TypeOK ==
    /\ deleted \in [Users -> BOOLEAN]
    /\ level \in [Users -> Nat]
    /\ alarmEnabled \in [Users -> BOOLEAN]
    /\ orderer \in [Proposals -> Users \cup {NoUser}]
    /\ proposalStatus \in [Proposals -> ProposalStatus \cup {"ABSENT"}]
    /\ errandFee \in [Proposals -> Fees \cup {NoFee}]
    /\ paidFee \in [Proposals -> Fees \cup {NoFee}]
    /\ proposalStamps \in [Proposals -> [Sides -> Stamps]]
    /\ offerStatus \in [Proposals -> [Users -> OfferStatus \cup {"ABSENT"}]]
    /\ offerStamps \in [Proposals -> [Users -> [Sides -> Stamps]]]
    /\ evidences \subseteq [proposal : Proposals, runner : Users, actor : Users]
    /\ reports \in [Proposals -> [Users -> ReportStatus \cup {"ABSENT"}]]
    /\ notifications \subseteq [type : NotificationTypes, user : Users,
                                proposal : Proposals, runner : Users]
    /\ \A p \in Proposals : (orderer[p] = NoUser) <=> (proposalStatus[p] = "ABSENT")

Init ==
    /\ deleted = [u \in Users |-> FALSE]
    /\ level = [u \in Users |-> 0]
    /\ alarmEnabled \in {[u \in Users |-> u \in on] : on \in SUBSET AlarmUsers}
    /\ orderer = [p \in Proposals |-> NoUser]
    /\ proposalStatus = [p \in Proposals |-> "ABSENT"]
    /\ errandFee = [p \in Proposals |-> NoFee]
    /\ paidFee = [p \in Proposals |-> NoFee]
    /\ proposalStamps = [p \in Proposals |-> NoStamps]
    /\ offerStatus = [p \in Proposals |-> [u \in Users |-> "ABSENT"]]
    /\ offerStamps = [p \in Proposals |-> [u \in Users |-> NoStamps]]
    /\ evidences = {}
    /\ reports = [p \in Proposals |-> [u \in Users |-> "ABSENT"]]
    /\ notifications = {}

--------------------------------------------------------------------------------
(* The notification listener.  It runs inside the request's transaction, just  *)
(* before the commit, and adds a row only for a user whose alarm is on.        *)

Note(type, u, p, r) == [type |-> type, user |-> u, proposal |-> p, runner |-> r]

IfAlarmEnabled(notes) == {n \in notes : alarmEnabled[n.user]}

OnOfferCreated(p, r) ==
    IfAlarmEnabled({Note("OFFER_NEW", orderer[p], p, r),
                    Note("OFFER_SUBMITTED", r, p, r)})

OnOfferAccepted(p, r, rejected) ==
    IfAlarmEnabled({Note("OFFER_ACCEPTED", r, p, r)}
                     \cup {Note("OFFER_REJECTED", v, p, r) : v \in rejected})

OnMeetingConfirmedByRunner(p, r) ==
    IfAlarmEnabled({Note("MEETING_CONFIRMED", orderer[p], p, r)})

OnMeetingConfirmedByOrderer(p, r) ==
    IfAlarmEnabled({Note("MEETING_CONFIRMED", r, p, r),
                    Note("EXECUTION_COMPLETED", orderer[p], p, r),
                    Note("EXECUTION_COMPLETED", r, p, r)})

OnDisputeRaisedByOrderer(p, r) == IfAlarmEnabled({Note("DISPUTE_RAISED", r, p, r)})

OnDisputeRaisedByRunner(p, r) == IfAlarmEnabled({Note("DISPUTE_RAISED", orderer[p], p, r)})

(* EventBus.publish: the rows the handler returns join the request's writes. *)
Publish(notes) == notifications' = notifications \cup notes

--------------------------------------------------------------------------------
(* Proposals: ProposalService.create, update, cancel, confirm_payment.         *)

CanCreateProposal(p, u) == proposalStatus[p] = "ABSENT" /\ ~deleted[u]

(* Mutant: the row is created without its orderer. *)
CreateProposalWritesNoOrderer(p, u, fee) ==
    /\ proposalStatus' = [proposalStatus EXCEPT ![p] = "HOLDING"]
    /\ errandFee' = [errandFee EXCEPT ![p] = fee]
    /\ UNCHANGED <<userVars, orderer, paidFee, proposalStamps, offerVars, evidences,
                   reports>>

(* Mutant: the proposal is public from the start. *)
CreateProposalWritesPosted(p, u, fee) ==
    /\ orderer' = [orderer EXCEPT ![p] = u]
    /\ proposalStatus' = [proposalStatus EXCEPT ![p] = "POSTED"]
    /\ errandFee' = [errandFee EXCEPT ![p] = fee]
    /\ UNCHANGED <<userVars, paidFee, proposalStamps, offerVars, evidences, reports>>

CreateProposalWrites(p, u, fee) ==
    /\ orderer' = [orderer EXCEPT ![p] = u]
    /\ proposalStatus' = [proposalStatus EXCEPT ![p] = "HOLDING"]
    /\ errandFee' = [errandFee EXCEPT ![p] = fee]
    /\ UNCHANGED <<userVars, paidFee, proposalStamps, offerVars, evidences, reports>>

CreateProposal(p, u, fee) ==
    /\ CanCreateProposal(p, u)
    /\ CreateProposalWrites(p, u, fee)
    /\ UNCHANGED notifications

(* get_current_user and _ensure_owner: the caller is the live owner of p. *)
OwnerCalls(p) == orderer[p] \in Users /\ ~deleted[orderer[p]]

CanUpdateProposal(p) == OwnerCalls(p) /\ proposalStatus[p] \in EditableStatuses

(* Mutant: an edit leaves the status alone. *)
UpdateProposalKeepsStatus(p, fee, seenStatus, seenFee) ==
    /\ errandFee' = [errandFee EXCEPT ![p] = fee]
    /\ UNCHANGED <<userVars, orderer, proposalStatus, paidFee, proposalStamps, offerVars,
                   evidences, reports>>

(* Only the columns that differ from what was read are written: an edit of a   *)
(* HOLDING row stores no status, an edit that keeps the fee stores no fee.     *)
UpdateProposalWrites(p, fee, seenStatus, seenFee) ==
    /\ errandFee' = [errandFee EXCEPT ![p] = IF fee = seenFee THEN @ ELSE fee]
    /\ proposalStatus' = [proposalStatus EXCEPT ![p] =
                            IF seenStatus = "HOLDING" THEN @ ELSE "HOLDING"]
    /\ UNCHANGED <<userVars, orderer, paidFee, proposalStamps, offerVars, evidences,
                   reports>>

UpdateProposal(p, fee) ==
    /\ CanUpdateProposal(p)
    /\ UpdateProposalWrites(p, fee, proposalStatus[p], errandFee[p])
    /\ UNCHANGED notifications

(* UPDATE offers SET status = to WHERE proposal_id = p AND status = 'WAITING'
   (AND runner is not in `except`): evaluated on the current rows. *)
WaitingOffersBecome(p, to, except) ==
    [offerStatus EXCEPT ![p] =
        [v \in Users |-> IF offerStatus[p][v] = "WAITING" /\ v \notin except
                         THEN to ELSE offerStatus[p][v]]]

CanCancelProposal(p) == OwnerCalls(p) /\ proposalStatus[p] \in CancellableStatuses

(* Mutant: the waiting offers are not rejected. *)
CancelProposalAlone(p, seenStatus) ==
    /\ proposalStatus' = [proposalStatus EXCEPT ![p] = "CANCELLED"]
    /\ UNCHANGED <<userVars, orderer, errandFee, paidFee, proposalStamps, offerVars,
                   evidences, reports>>

CancelProposalWrites(p, seenStatus) ==
    /\ proposalStatus' = [proposalStatus EXCEPT ![p] = "CANCELLED"]
    /\ offerStatus' = IF seenStatus = "OFFERED"
                      THEN WaitingOffersBecome(p, "REJECTED", {}) ELSE offerStatus
    /\ UNCHANGED <<userVars, orderer, errandFee, paidFee, proposalStamps, offerStamps,
                   evidences, reports>>

CancelProposal(p) ==
    /\ CanCancelProposal(p)
    /\ CancelProposalWrites(p, proposalStatus[p])
    /\ UNCHANGED notifications

CanConfirmPayment(p) == proposalStatus[p] = "HOLDING"

ConfirmPaymentWrites(p, seenFee) ==
    /\ proposalStatus' = [proposalStatus EXCEPT ![p] = "POSTED"]
    /\ paidFee' = [paidFee EXCEPT ![p] = seenFee]
    /\ UNCHANGED <<userVars, orderer, errandFee, proposalStamps, offerVars, evidences,
                   reports>>

ConfirmPayment(p) ==
    /\ CanConfirmPayment(p)
    /\ ConfirmPaymentWrites(p, errandFee[p])
    /\ UNCHANGED notifications

--------------------------------------------------------------------------------
(* Reports: ProposalReportService.create, accept, reject.                      *)

CanCreateReport(p, u) ==
    /\ ~deleted[u]
    /\ orderer[p] # u
    /\ proposalStatus[p] \in OpenProposalStatuses
    /\ reports[p][u] = "ABSENT"      \* uk_proposal_reports_proposal_reporter

CreateReportWrites(p, u) ==
    /\ reports' = [reports EXCEPT ![p][u] = "PENDING"]
    /\ UNCHANGED <<userVars, proposalVars, offerVars, evidences>>

CreateReport(p, u) ==
    /\ CanCreateReport(p, u)
    /\ CreateReportWrites(p, u)
    /\ UNCHANGED notifications

(* Mutant: the status of the proposal is not checked. *)
CanAcceptAnyReport(p, u) == reports[p][u] = "PENDING"

CanAcceptReport(p, u) ==
    /\ reports[p][u] = "PENDING"
    /\ proposalStatus[p] \in OpenProposalStatuses \cup {"REPORTED"}

AcceptReportWrites(p, u, seenStatus) ==
    /\ reports' = [reports EXCEPT ![p][u] = "ACCEPTED"]
    /\ IF seenStatus \in OpenProposalStatuses
       THEN /\ proposalStatus' = [proposalStatus EXCEPT ![p] = "REPORTED"]
            /\ offerStatus' = WaitingOffersBecome(p, "REJECTED", {})
       ELSE UNCHANGED <<proposalStatus, offerStatus>>
    /\ UNCHANGED <<userVars, orderer, errandFee, paidFee, proposalStamps, offerStamps,
                   evidences>>

AcceptReport(p, u) ==
    /\ CanAcceptReport(p, u)
    /\ AcceptReportWrites(p, u, proposalStatus[p])
    /\ UNCHANGED notifications

CanRejectReport(p, u) == reports[p][u] = "PENDING"

RejectReportWrites(p, u) ==
    /\ reports' = [reports EXCEPT ![p][u] = "REJECTED"]
    /\ UNCHANGED <<userVars, proposalVars, offerVars, evidences>>

RejectReport(p, u) ==
    /\ CanRejectReport(p, u)
    /\ RejectReportWrites(p, u)
    /\ UNCHANGED notifications

--------------------------------------------------------------------------------
(* Offers: OfferService.create, cancel, accept.                                *)

CanCreateOffer(p, u) ==
    /\ ~deleted[u]
    /\ orderer[p] # u
    /\ proposalStatus[p] \in OpenProposalStatuses
    /\ offerStatus[p][u] = "ABSENT"  \* the duplicate query and uk_proposal_runner

CreateOfferWrites(p, u, seenStatus) ==
    /\ offerStatus' = [offerStatus EXCEPT ![p][u] = "WAITING"]
    /\ proposalStatus' = [proposalStatus EXCEPT ![p] =
                            IF seenStatus = "POSTED" THEN "OFFERED" ELSE @]
    /\ UNCHANGED <<userVars, orderer, errandFee, paidFee, proposalStamps, offerStamps,
                   evidences, reports>>

CreateOffer(p, u) ==
    /\ CanCreateOffer(p, u)
    /\ CreateOfferWrites(p, u, proposalStatus[p])
    /\ Publish(OnOfferCreated(p, u))

(* Mutant: an accepted offer can be cancelled as well. *)
CanCancelAcceptedOffer(p, u) ==
    ~deleted[u] /\ offerStatus[p][u] \in {"WAITING", "ACCEPTED"}

CanCancelOffer(p, u) == ~deleted[u] /\ offerStatus[p][u] = "WAITING"

CancelOfferWrites(p, u) ==
    /\ offerStatus' = [offerStatus EXCEPT ![p][u] = "CANCELLED"]
    /\ UNCHANGED <<userVars, proposalVars, offerStamps, evidences, reports>>

CancelOffer(p, u) ==
    /\ CanCancelOffer(p, u)
    /\ CancelOfferWrites(p, u)
    /\ UNCHANGED notifications

(* Mutant: the status of the proposal is trusted, the other offers are not read. *)
CanAcceptOfferByStatus(p, u) ==
    OwnerCalls(p) /\ offerStatus[p][u] = "WAITING" /\ proposalStatus[p] = "OFFERED"

CanAcceptOffer(p, u) ==
    /\ OwnerCalls(p)
    /\ offerStatus[p][u] = "WAITING"
    /\ \A v \in Users \ {u} : offerStatus[p][v] \notin ActiveOfferStatuses
    /\ proposalStatus[p] = "OFFERED"

(* Mutant: every other runner is told, whatever became of his offer. *)
AllOtherRunners(p, u) == {v \in Users \ {u} : offerStatus[p][v] # "ABSENT"}

(* rejected_runner_ids: read before the bulk update, told to the listener. *)
RejectedRunners(p, u) == {v \in Users \ {u} : offerStatus[p][v] = "WAITING"}

AcceptOfferWrites(p, u) ==
    /\ offerStatus' = [WaitingOffersBecome(p, "REJECTED", {u}) EXCEPT ![p][u] = "ACCEPTED"]
    /\ proposalStatus' = [proposalStatus EXCEPT ![p] = "MATCHED"]
    /\ UNCHANGED <<userVars, orderer, errandFee, paidFee, proposalStamps, offerStamps,
                   evidences, reports>>

(* Mutant: accept looks at the one offer only and leaves the others waiting. *)
AcceptOfferAlone(p, u) ==
    /\ OwnerCalls(p)
    /\ offerStatus[p][u] = "WAITING"
    /\ offerStatus' = [offerStatus EXCEPT ![p][u] = "ACCEPTED"]
    /\ proposalStatus' = [proposalStatus EXCEPT ![p] = "MATCHED"]
    /\ UNCHANGED <<userVars, orderer, errandFee, paidFee, proposalStamps, offerStamps,
                   evidences, reports>>
    /\ Publish(OnOfferAccepted(p, u, {}))

AcceptOffer(p, u) ==
    /\ CanAcceptOffer(p, u)
    /\ AcceptOfferWrites(p, u)
    /\ Publish(OnOfferAccepted(p, u, RejectedRunners(p, u)))

--------------------------------------------------------------------------------
(* Execution: OfferService.complete_delivery, ProposalService.confirm_received *)
(* and the two raise_dispute, OfferService.resolve.                            *)

CanCompleteDelivery(p, u) ==
    /\ ~deleted[u]
    /\ offerStatus[p][u] = "ACCEPTED"
    /\ proposalStatus[p] \in {"MATCHED", "ORDER_COMPLETED"}

(* Mutant: one of the two services forgets the level. *)
MarkAllCompletedWithoutLevel(p, u) ==
    /\ proposalStatus' = [proposalStatus EXCEPT ![p] = "ALL_COMPLETED"]
    /\ offerStatus' = [offerStatus EXCEPT ![p][u] = "ALL_COMPLETED"]
    /\ UNCHANGED level

(* _sync_all_completed: both rows move on and the level is raised in SQL. *)
MarkAllCompleted(p, u) ==
    /\ proposalStatus' = [proposalStatus EXCEPT ![p] = "ALL_COMPLETED"]
    /\ offerStatus' = [offerStatus EXCEPT ![p][u] = "ALL_COMPLETED"]
    /\ level' = [level EXCEPT ![u] = @ + 1]

(* Mutant: _sync_all_completed is not called. *)
CompleteDeliveryWithoutSync(p, u, seenStatus) ==
    /\ proposalStamps' = [proposalStamps EXCEPT ![p]["runner"] = "complete_delivery"]
    /\ offerStatus' = [offerStatus EXCEPT ![p][u] = "RUNNER_COMPLETED"]
    /\ offerStamps' = [offerStamps EXCEPT ![p][u]["runner"] = "complete_delivery"]
    /\ UNCHANGED <<userVars, orderer, proposalStatus, errandFee, paidFee, evidences,
                   reports>>

(* Mutant: the runner's confirmation completes the execution by itself. *)
CompleteDeliveryAlwaysSyncs(p, u, seenStatus) ==
    /\ proposalStamps' = [proposalStamps EXCEPT ![p]["runner"] = "complete_delivery"]
    /\ offerStamps' = [offerStamps EXCEPT ![p][u]["runner"] = "complete_delivery"]
    /\ MarkAllCompleted(p, u)
    /\ UNCHANGED <<deleted, alarmEnabled, orderer, errandFee, paidFee, evidences, reports>>

CompleteDeliveryWrites(p, u, seenStatus) ==
    /\ proposalStamps' = [proposalStamps EXCEPT ![p]["runner"] = "complete_delivery"]
    /\ IF seenStatus = "ORDER_COMPLETED"
       THEN /\ MarkAllCompleted(p, u)
            /\ offerStamps' = [offerStamps EXCEPT ![p][u] =
                 [side \in Sides |-> "complete_delivery"]]
       ELSE /\ offerStatus' = [offerStatus EXCEPT ![p][u] = "RUNNER_COMPLETED"]
            /\ offerStamps' = [offerStamps EXCEPT ![p][u]["runner"] = "complete_delivery"]
            /\ UNCHANGED <<proposalStatus, level>>
    /\ UNCHANGED <<deleted, alarmEnabled, orderer, errandFee, paidFee, evidences, reports>>

CompleteDelivery(p, u) ==
    /\ CanCompleteDelivery(p, u)
    /\ CompleteDeliveryWrites(p, u, proposalStatus[p])
    /\ Publish(OnMeetingConfirmedByRunner(p, u))

(* _get_execution_offer: an offer of p in execution.  SingleExecution makes it *)
(* unique here, so the order by accepted_at plays no part.                     *)
IsExecutionOffer(p, u) == offerStatus[p][u] \in ActiveOfferStatuses

CanConfirmReceived(p, u) ==
    /\ OwnerCalls(p)
    /\ IsExecutionOffer(p, u)
    /\ proposalStatus[p] = "MATCHED"
    /\ offerStatus[p][u] \in {"ACCEPTED", "RUNNER_COMPLETED"}

(* Mutant: _sync_all_completed is not called. *)
ConfirmReceivedWithoutSync(p, u, seenOffer) ==
    /\ proposalStamps' = [proposalStamps EXCEPT ![p]["orderer"] = "confirm_received"]
    /\ offerStamps' = [offerStamps EXCEPT ![p][u]["orderer"] = "confirm_received"]
    /\ proposalStatus' = [proposalStatus EXCEPT ![p] = "ORDER_COMPLETED"]
    /\ UNCHANGED <<userVars, orderer, errandFee, paidFee, offerStatus, evidences, reports>>

(* Mutant: only the proposal is stamped. *)
ConfirmReceivedStampsProposalOnly(p, u, seenOffer) ==
    /\ proposalStamps' = [proposalStamps EXCEPT ![p]["orderer"] = "confirm_received"]
    /\ IF seenOffer = "RUNNER_COMPLETED"
       THEN MarkAllCompleted(p, u)
       ELSE /\ proposalStatus' = [proposalStatus EXCEPT ![p] = "ORDER_COMPLETED"]
            /\ UNCHANGED <<offerStatus, level>>
    /\ UNCHANGED <<deleted, alarmEnabled, orderer, errandFee, paidFee, offerStamps,
                   evidences, reports>>

ConfirmReceivedWrites(p, u, seenOffer) ==
    /\ proposalStamps' = [proposalStamps EXCEPT ![p]["orderer"] = "confirm_received"]
    /\ offerStamps' = [offerStamps EXCEPT ![p][u]["orderer"] = "confirm_received"]
    /\ IF seenOffer = "RUNNER_COMPLETED"
       THEN MarkAllCompleted(p, u)
       ELSE /\ proposalStatus' = [proposalStatus EXCEPT ![p] = "ORDER_COMPLETED"]
            /\ UNCHANGED <<offerStatus, level>>
    /\ UNCHANGED <<deleted, alarmEnabled, orderer, errandFee, paidFee, evidences, reports>>

ConfirmReceived(p, u) ==
    /\ CanConfirmReceived(p, u)
    /\ ConfirmReceivedWrites(p, u, offerStatus[p][u])
    /\ Publish(OnMeetingConfirmedByOrderer(p, u))

(* Mutant: the other party can file a second dispute. *)
CanRaiseDisputeTwice(p, u) ==
    /\ offerStatus[p][u] \in {"ACCEPTED", "RUNNER_COMPLETED", "DISPUTED"}
    /\ proposalStatus[p] \in {"MATCHED", "ORDER_COMPLETED", "DISPUTED"}

CanRaiseDispute(p, u) ==
    /\ offerStatus[p][u] \in {"ACCEPTED", "RUNNER_COMPLETED"}
    /\ proposalStatus[p] \in {"MATCHED", "ORDER_COMPLETED"}

(* Mutant: the evidence is not part of the transaction. *)
RaiseDisputeWithoutEvidence(p, u, actor) ==
    /\ proposalStatus' = [proposalStatus EXCEPT ![p] = "DISPUTED"]
    /\ offerStatus' = [offerStatus EXCEPT ![p][u] = "DISPUTED"]
    /\ UNCHANGED <<userVars, orderer, errandFee, paidFee, proposalStamps, offerStamps,
                   evidences, reports>>

RaiseDisputeWrites(p, u, actor) ==
    /\ proposalStatus' = [proposalStatus EXCEPT ![p] = "DISPUTED"]
    /\ offerStatus' = [offerStatus EXCEPT ![p][u] = "DISPUTED"]
    /\ evidences' = evidences \cup {[proposal |-> p, runner |-> u, actor |-> actor]}
    /\ UNCHANGED <<userVars, orderer, errandFee, paidFee, proposalStamps, offerStamps,
                   reports>>

RaiseDisputeByRunner(p, u) ==
    /\ ~deleted[u]
    /\ CanRaiseDispute(p, u)
    /\ RaiseDisputeWrites(p, u, u)
    /\ Publish(OnDisputeRaisedByRunner(p, u))

RaiseDisputeByOrderer(p, u) ==
    /\ OwnerCalls(p)
    /\ IsExecutionOffer(p, u)
    /\ CanRaiseDispute(p, u)
    /\ RaiseDisputeWrites(p, u, orderer[p])
    /\ Publish(OnDisputeRaisedByOrderer(p, u))

CanResolve(p, u) == offerStatus[p][u] = "DISPUTED" /\ proposalStatus[p] = "DISPUTED"

ResolveWrites(p, u) ==
    /\ offerStatus' = [offerStatus EXCEPT ![p][u] = "RESOLVED"]
    /\ proposalStatus' = [proposalStatus EXCEPT ![p] = "RESOLVED"]
    /\ UNCHANGED <<userVars, orderer, errandFee, paidFee, proposalStamps, offerStamps,
                   evidences, reports>>

Resolve(p, u) ==
    /\ CanResolve(p, u)
    /\ ResolveWrites(p, u)
    /\ UNCHANGED notifications

--------------------------------------------------------------------------------
(* Users: UserProfileService.update_alarm, UserWithdrawalService.withdraw_user *)

CanUpdateAlarm(u) == ~deleted[u]

UpdateAlarmWrites(u, enabled, seenAlarm) ==
    /\ alarmEnabled' = [alarmEnabled EXCEPT ![u] = IF enabled = seenAlarm THEN @ ELSE enabled]
    /\ UNCHANGED <<deleted, level, proposalVars, offerVars, evidences, reports>>

UpdateAlarm(u, enabled) ==
    /\ CanUpdateAlarm(u)
    /\ UpdateAlarmWrites(u, enabled, alarmEnabled[u])
    /\ UNCHANGED notifications

(* Mutant: only the user's own proposals block a withdrawal. *)
HasBlockingProposal(u) ==
    \E p \in Proposals :
        orderer[p] = u /\ proposalStatus[p] \in WithdrawalBlockingProposalStatuses

HasBlockingActivity(u) ==
    \E p \in Proposals :
        \/ orderer[p] = u /\ proposalStatus[p] \in WithdrawalBlockingProposalStatuses
        \/ offerStatus[p][u] \in WithdrawalBlockingOfferStatuses

CanWithdrawUser(u) == ~deleted[u] /\ ~HasBlockingActivity(u)

(* The two queries of _auto_cancel_pre_match_activity. *)
PreMatchProposals(u) ==
    {p \in Proposals : orderer[p] = u /\ proposalStatus[p] \in CancellableStatuses}

WaitingOffersTouched(u) ==
    {pv \in Proposals \X Users :
        /\ offerStatus[pv[1]][pv[2]] = "WAITING"
        /\ pv[2] = u \/ pv[1] \in PreMatchProposals(u)}

(* User.withdraw stores a NULL switch and deleted; both differ from the row read. *)
WithdrawUserWrites(u, seenProposals, seenOffers) ==
    /\ proposalStatus' = [p \in Proposals |->
            IF p \in seenProposals THEN "CANCELLED" ELSE proposalStatus[p]]
    /\ offerStatus' = [p \in Proposals |-> [v \in Users |->
            IF <<p, v>> \in seenOffers THEN "CANCELLED" ELSE offerStatus[p][v]]]
    /\ deleted' = [deleted EXCEPT ![u] = TRUE]
    /\ alarmEnabled' = [alarmEnabled EXCEPT ![u] = FALSE]
    /\ UNCHANGED <<level, orderer, errandFee, paidFee, proposalStamps, offerStamps,
                   evidences, reports>>

DeleteNotifications(u) == notifications' = {n \in notifications : n.user # u}

WithdrawUser(u) ==
    /\ CanWithdrawUser(u)
    /\ WithdrawUserWrites(u, PreMatchProposals(u), WaitingOffersTouched(u))
    /\ DeleteNotifications(u)

--------------------------------------------------------------------------------
Next ==
    \/ \E p \in Proposals, u \in Users, fee \in Fees : CreateProposal(p, u, fee)
    \/ \E p \in Proposals, fee \in Fees : UpdateProposal(p, fee)
    \/ \E p \in Proposals : CancelProposal(p) \/ ConfirmPayment(p)
    \/ \E p \in Proposals, u \in Users :
          \/ u \in Reporters /\ CreateReport(p, u)
          \/ AcceptReport(p, u) \/ RejectReport(p, u)
          \/ CreateOffer(p, u) \/ CancelOffer(p, u) \/ AcceptOffer(p, u)
          \/ CompleteDelivery(p, u) \/ ConfirmReceived(p, u)
          \/ RaiseDisputeByRunner(p, u) \/ RaiseDisputeByOrderer(p, u) \/ Resolve(p, u)
    \/ \E u \in AlarmUsers, enabled \in BOOLEAN : UpdateAlarm(u, enabled)
    \/ \E u \in Users : WithdrawUser(u)

Spec == Init /\ [][Next]_vars

================================================================================
