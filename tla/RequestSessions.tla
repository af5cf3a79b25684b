---------------------------- MODULE RequestSessions ----------------------------
(* The requests of Marketplace as the server runs them: in overlapping         *)
(* database sessions.                                                          *)
(*                                                                             *)
(* FastAPI runs each endpoint in a thread of its pool, with a session of its   *)
(* own (get_db).  The isolation is InnoDB's REPEATABLE READ: the first SELECT, *)
(* the one of get_current_user, fixes the snapshot, and every guard and every  *)
(* value a service computes comes from it (Begin).  The row locks of the       *)
(* writes are held until the commit, so the writes of one request take effect  *)
(* together, on the rows as they are by then; nothing checks that those rows   *)
(* are still the ones that were read (Commit).  A deadlock, a unique key, a    *)
(* lost connection or a crash of the process loses the request (Abort).        *)
EXTENDS MarketplaceProperties

CONSTANTS
    Threads,     \* the threads of the pool; bound: how many requests overlap
    NoRequest,   \* the thread is idle
    NoProposal,  \* "no proposal": the request names none
    Impatient    \* the users who send a request before the last one was answered

ASSUME ImpatientAssumption == Impatient \subseteq Users

VARIABLE request   \* by thread: the request under way, with what it has read

sessionVars == <<vars, request>>

(* The administrator, who authenticates with a key and not as a user.          *)
Admin == NoUser

(* What a service keeps from its SELECTs until it writes. *)
Reads == [status : ProposalStatus \cup {"ABSENT"}, offer : OfferStatus \cup {"ABSENT"},
          fee : Fees \cup {NoFee}, alarm : BOOLEAN,
          proposals : SUBSET Proposals, offers : SUBSET (Proposals \X Users)]

Read(p, u) == [status |-> proposalStatus[p], offer |-> offerStatus[p][u],
               fee |-> errandFee[p], alarm |-> FALSE, proposals |-> {}, offers |-> {}]

ReadUser(u) == [status |-> "ABSENT", offer |-> "ABSENT", fee |-> NoFee,
                alarm |-> alarmEnabled[u], proposals |-> {}, offers |-> {}]

ReadActivity(u) == [ReadUser(u) EXCEPT !.proposals = PreMatchProposals(u),
                                       !.offers = WaitingOffersTouched(u)]

Requests ==
    [op : {"create_proposal", "update_proposal", "cancel_proposal", "confirm_payment",
           "create_report", "accept_report", "reject_report", "create_offer",
           "cancel_offer", "accept_offer", "complete_delivery", "confirm_received",
           "raise_dispute", "resolve", "alarm_on", "alarm_off", "withdraw"},
     actor : Users \cup {Admin}, proposal : Proposals \cup {NoProposal}, runner : Users,
     fee : Fees \cup {NoFee}, seen : Reads,
     notes : SUBSET [type : NotificationTypes, user : Users, proposal : Proposals,
                     runner : Users]]

SessionTypeOK == TypeOK /\ request \in [Threads -> Requests \cup {NoRequest}]

SessionInit == Init /\ request = [t \in Threads |-> NoRequest]

--------------------------------------------------------------------------------
(* Begin: the request reads, and is refused (no step) unless its guard holds.  *)

Waits(actor) == \E t \in Threads : request[t] # NoRequest /\ request[t].actor = actor

Start(t, op, actor, p, u, fee, seen, notes) ==
    /\ request[t] = NoRequest
    /\ actor \in Impatient \cup {Admin} \/ ~Waits(actor)
    /\ request' = [request EXCEPT ![t] =
          [op |-> op, actor |-> actor, proposal |-> p, runner |-> u, fee |-> fee,
           seen |-> seen, notes |-> notes]]
    /\ UNCHANGED vars

BeginProposalRequest(t, p, u) ==
    \/ /\ CanUpdateProposal(p) /\ u = orderer[p]
       /\ \E fee \in Fees : Start(t, "update_proposal", u, p, u, fee, Read(p, u), {})
    \/ /\ CanCancelProposal(p) /\ u = orderer[p]
       /\ Start(t, "cancel_proposal", u, p, u, NoFee, Read(p, u), {})
    \/ /\ CanConfirmPayment(p) /\ u = orderer[p]
       /\ Start(t, "confirm_payment", Admin, p, u, NoFee, Read(p, u), {})

BeginReportRequest(t, p, u) ==
    \/ /\ CanCreateReport(p, u) /\ u \in Reporters
       /\ Start(t, "create_report", u, p, u, NoFee, Read(p, u), {})
    \/ /\ CanAcceptReport(p, u)
       /\ Start(t, "accept_report", Admin, p, u, NoFee, Read(p, u), {})
    \/ /\ CanRejectReport(p, u)
       /\ Start(t, "reject_report", Admin, p, u, NoFee, Read(p, u), {})

BeginOfferRequest(t, p, u) ==
    \/ /\ CanCreateOffer(p, u)
       /\ Start(t, "create_offer", u, p, u, NoFee, Read(p, u), OnOfferCreated(p, u))
    \/ /\ CanCancelOffer(p, u)
       /\ Start(t, "cancel_offer", u, p, u, NoFee, Read(p, u), {})
    \/ /\ CanAcceptOffer(p, u)
       /\ Start(t, "accept_offer", orderer[p], p, u, NoFee, Read(p, u),
                OnOfferAccepted(p, u, RejectedRunners(p, u)))

BeginExecutionRequest(t, p, u) ==
    \/ /\ CanCompleteDelivery(p, u)
       /\ Start(t, "complete_delivery", u, p, u, NoFee, Read(p, u),
                OnMeetingConfirmedByRunner(p, u))
    \/ /\ CanConfirmReceived(p, u)
       /\ Start(t, "confirm_received", orderer[p], p, u, NoFee, Read(p, u),
                OnMeetingConfirmedByOrderer(p, u))
    \/ /\ ~deleted[u] /\ CanRaiseDispute(p, u)
       /\ Start(t, "raise_dispute", u, p, u, NoFee, Read(p, u),
                OnDisputeRaisedByRunner(p, u))
    \/ /\ OwnerCalls(p) /\ IsExecutionOffer(p, u) /\ CanRaiseDispute(p, u)
       /\ Start(t, "raise_dispute", orderer[p], p, u, NoFee, Read(p, u),
                OnDisputeRaisedByOrderer(p, u))
    \/ /\ CanResolve(p, u)
       /\ Start(t, "resolve", Admin, p, u, NoFee, Read(p, u), {})

(* The id of a new proposal is not known before its row is inserted. *)
BeginUserRequest(t, u) ==
    \/ /\ \E p \in Proposals : CanCreateProposal(p, u)
       /\ \E fee \in Fees :
            Start(t, "create_proposal", u, NoProposal, u, fee, ReadUser(u), {})
    \/ /\ CanUpdateAlarm(u) /\ u \in AlarmUsers
       /\ \E op \in {"alarm_on", "alarm_off"} :
            Start(t, op, u, NoProposal, u, NoFee, ReadUser(u), {})
    \/ /\ CanWithdrawUser(u)
       /\ Start(t, "withdraw", u, NoProposal, u, NoFee, ReadActivity(u), {})

--------------------------------------------------------------------------------
(* Commit: the writes, on the current rows, with the values that were read.    *)

CommitProposalRequest(r, p, u) ==
    \/ /\ r.op = "update_proposal"
       /\ UpdateProposalWrites(p, r.fee, r.seen.status, r.seen.fee)
    \/ r.op = "cancel_proposal" /\ CancelProposalWrites(p, r.seen.status)
    \/ r.op = "confirm_payment" /\ ConfirmPaymentWrites(p, r.seen.fee)

(* A second row for the same pair is refused by uk_proposal_reports_...        *)
CommitReportRequest(r, p, u) ==
    \/ r.op = "create_report" /\ reports[p][u] = "ABSENT" /\ CreateReportWrites(p, u)
    \/ r.op = "accept_report" /\ AcceptReportWrites(p, u, r.seen.status)
    \/ r.op = "reject_report" /\ RejectReportWrites(p, u)

(* ... and by uk_proposal_runner. *)
CommitOfferRequest(r, p, u) ==
    \/ /\ r.op = "create_offer" /\ offerStatus[p][u] = "ABSENT"
       /\ CreateOfferWrites(p, u, r.seen.status)
    \/ r.op = "cancel_offer" /\ CancelOfferWrites(p, u)
    \/ r.op = "accept_offer" /\ AcceptOfferWrites(p, u)

CommitExecutionRequest(r, p, u) ==
    \/ r.op = "complete_delivery" /\ CompleteDeliveryWrites(p, u, r.seen.status)
    \/ r.op = "confirm_received" /\ ConfirmReceivedWrites(p, u, r.seen.offer)
    \/ r.op = "raise_dispute" /\ RaiseDisputeWrites(p, u, r.actor)
    \/ r.op = "resolve" /\ ResolveWrites(p, u)

CommitUserRequest(r, u) ==
    \/ /\ r.op = "create_proposal"
       /\ \E p \in Proposals : proposalStatus[p] = "ABSENT" /\ CreateProposalWrites(p, u, r.fee)
    \/ r.op = "alarm_on" /\ UpdateAlarmWrites(u, TRUE, r.seen.alarm)
    \/ r.op = "alarm_off" /\ UpdateAlarmWrites(u, FALSE, r.seen.alarm)

CommitWithdrawal(r, u) ==
    /\ r.op = "withdraw"
    /\ WithdrawUserWrites(u, r.seen.proposals, r.seen.offers)
    /\ DeleteNotifications(u)

Finish(t) == request' = [request EXCEPT ![t] = NoRequest]

(* Mutant: the notifications are not part of the transaction. *)
CommitWithoutNotes(t) ==
    /\ request[t] # NoRequest
    /\ LET r == request[t] IN
         \/ /\ \/ CommitProposalRequest(r, r.proposal, r.runner)
               \/ CommitReportRequest(r, r.proposal, r.runner)
               \/ CommitOfferRequest(r, r.proposal, r.runner)
               \/ CommitExecutionRequest(r, r.proposal, r.runner)
               \/ CommitUserRequest(r, r.runner)
            /\ UNCHANGED notifications
         \/ CommitWithdrawal(r, r.runner)
    /\ Finish(t)

Commit(t) ==
    /\ request[t] # NoRequest
    /\ LET r == request[t] IN
         \/ /\ \/ CommitProposalRequest(r, r.proposal, r.runner)
               \/ CommitReportRequest(r, r.proposal, r.runner)
               \/ CommitOfferRequest(r, r.proposal, r.runner)
               \/ CommitExecutionRequest(r, r.proposal, r.runner)
               \/ CommitUserRequest(r, r.runner)
            /\ Publish(r.notes)
         \/ CommitWithdrawal(r, r.runner)
    /\ Finish(t)

Abort(t) == request[t] # NoRequest /\ Finish(t) /\ UNCHANGED vars

SessionNext ==
    \E t \in Threads :
        \/ \E p \in Proposals, u \in Users :
              \/ BeginProposalRequest(t, p, u)
              \/ BeginReportRequest(t, p, u)
              \/ BeginOfferRequest(t, p, u)
              \/ BeginExecutionRequest(t, p, u)
        \/ \E u \in Users : BeginUserRequest(t, u)
        \/ Commit(t)
        \/ Abort(t)

SessionSpec == SessionInit /\ [][SessionNext]_sessionVars

================================================================================
