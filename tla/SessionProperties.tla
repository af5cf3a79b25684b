--------------------------- MODULE SessionProperties ---------------------------
(* What overlapping requests keep true, and what they do not.                  *)
EXTENDS RequestSessions

(* With one thread the sessions implement the serial marketplace: a request    *)
(* takes effect when it commits, and reading it or losing it changes nothing.  *)
SerialSpec == Spec

(* However the confirmations, disputes and repeated requests interleave, no    *)
(* completed execution is missing from its runner's level: the level is raised *)
(* by the database, in the transaction that completes the two records.         *)
LevelAtLeastCompletions ==
    \A u \in Users :
        level[u] >= Cardinality({p \in Proposals : offerStatus[p][u] = "ALL_COMPLETED"})

(* No interleaving completes an execution on one side's word: an ALL_COMPLETED *)
(* record carries the time of both confirmations.                              *)
CompletedMeansBothConfirmed ==
    \A p \in Proposals :
        /\ proposalStatus[p] = "ALL_COMPLETED" =>
             \A side \in Sides : proposalStamps[p][side] # "null"
        /\ \A u \in Users : offerStatus[p][u] = "ALL_COMPLETED" =>
             \A side \in Sides :
                proposalStamps[p][side] # "null" /\ offerStamps[p][u][side] # "null"

(* No interleaving leaves an offer in dispute, or resolved, without a reason:  *)
(* the evidence is committed with the statuses.                                *)
DisputeHasEvidence ==
    \A p \in Proposals, u \in Users :
        offerStatus[p][u] \in {"DISPUTED", "RESOLVED"} =>
            \E e \in evidences : e.proposal = p /\ e.runner = u

(* No interleaving makes a proposal public before some payment was confirmed,  *)
(* though perhaps not the payment of the fee it now shows.                     *)
PublicMeansPaid ==
    \A p \in Proposals :
        proposalStatus[p] \in OpenProposalStatuses \cup MatchedProposalStatuses
            => paidFee[p] # NoFee

(* While at most two requests are under way, an orderer who waits for the      *)
(* answer to each of hers cannot engage a second runner while the execution of *)
(* the first runs or stands completed, whatever the runners repeat: accept     *)
(* looks at the other offers, and the status of the proposal alone would not   *)
(* be enough. A third request can break it: a confirmation that was sent       *)
(* before a dispute was raised and resolved revives the first execution.       *)
SingleActiveExecution ==
    \A p \in Proposals : orderer[p] \notin Impatient =>
        \A u, v \in Users : IsExecutionOffer(p, u) /\ IsExecutionOffer(p, v) => u = v

--------------------------------------------------------------------------------
(* What SessionProofs shows for any number of requests at a time.              *)

(* What no request takes back.                                                 *)
Grows ==
    /\ \A p \in Proposals :
        /\ proposalStatus[p] # "ABSENT" => proposalStatus'[p] # "ABSENT"
        /\ paidFee[p] # NoFee => paidFee'[p] # NoFee
        /\ \A side \in Sides :
            /\ proposalStamps[p][side] # "null" => proposalStamps'[p][side] # "null"
            /\ \A u \in Users :
                offerStamps[p][u][side] # "null" => offerStamps'[p][u][side] # "null"
    /\ evidences \subseteq evidences'

Patient == Users \ Impatient

(* No dispute of p has been resolved. *)
Unresolved(p) == \A u \in Users : offerStatus[p][u] # "RESOLVED"

(* An orderer who waits for her answers has one execution on p, as far as the  *)
(* runners wait for theirs.                                                    *)
OneAmongPatient(p) ==
    orderer[p] \notin Impatient =>
        \A u, v \in Patient : IsExecutionOffer(p, u) /\ IsExecutionOffer(p, v) => u = v

(* The evidence of a dispute shows whether a proposal may have been resolved,  *)
(* and it stays: without it, nothing has been.                                 *)
Undisputed(p) == \A e \in evidences : e.proposal # p
SingleBeforeDispute == \A p \in Proposals : Undisputed(p) => OneAmongPatient(p)

--------------------------------------------------------------------------------
(* What the documents and the tests say, and overlapping requests break.       *)

(* docs/domain.md: when the confirmations of both sides have been received the *)
(* execution becomes ALL_COMPLETED (or somebody has opened a dispute).         *)
BothConfirmedCompletes ==
    \A p \in Proposals, u \in Users :
        /\ offerStatus[p][u] = "RUNNER_COMPLETED"
        /\ proposalStatus[p] = "ORDER_COMPLETED"
        => \E t \in Threads : request[t] # NoRequest

(* docs/domains/user-auth/withdrawal-policy.md: who has a running execution    *)
(* cannot withdraw.                                                            *)
WithdrawnHasNoExecution ==
    \A u \in Users, p \in Proposals : deleted[u] =>
        /\ orderer[p] = u => proposalStatus[p] \notin WithdrawalBlockingProposalStatuses
        /\ offerStatus[p][u] \notin WithdrawalBlockingOfferStatuses

================================================================================
