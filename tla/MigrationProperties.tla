-------------------------- MODULE MigrationProperties ---------------------------
(* What deployments reach and preserve, whatever interrupts them.  The         *)
(* exceptions name the scripts of alembic/versions that are not safe to repeat.*)
EXTENDS Migrations

Migration == [revision : Revisions, way : {"up", "down"}]

(* The types of the variables; between two scripts alembic's connection has    *)
(* nothing uncommitted, and a revision is applied only on top of its parents.  *)
TypeOK ==
    /\ found \in Histories
    /\ version \in SUBSET Revisions
    /\ script # NoScript => Running \in Migration
    /\ refusal \in Migration \cup {NoScript}
    /\ cut \in SUBSET Migration
    /\ undone \in SUBSET Revisions
    /\ served \in SUBSET Writes
    /\ crashes \in 0..MaxCrashes
    /\ Idle => work = db
    /\ \A r \in version : Parents[r] \subseteq version

Up(r) == [revision |-> r, way |-> "up"]
Down(r) == [revision |-> r, way |-> "down"]

(* An applied revision whose downgrade was interrupted: alembic_version names  *)
(* it, some of its tables and columns are gone, and no upgrade restores them.  *)
HalfwayDown == \E c \in cut : c.way = "down"

(* The upgrades that do not repair what a first attempt left out: 0001, 0005   *)
(* and 0015 test for the table only, and create its indexes and rows in later  *)
(* statements.                                                                 *)
Unrepaired(t) ==
    \/ Up(1) \in cut /\ t \in ToSet(BaselineTables)
    \/ Up(5) \in cut /\ t = "notifications"
    \/ Up(15) \in cut /\ t \in {"proposal_reports", "proposal_report_reason_questions"}

(* Indexes the models declare (index=True) and no migration creates: 0002,     *)
(* 0005 and 0016 name the other indexes of these tables only.                  *)
NeverCreated == {"ix_terms_agreements_user_id", "ix_notifications_id", "ix_dispute_evidences_id"}

(* At the head the database serves the models of src/app/models: each table    *)
(* and column is there, no column refuses a value the code stores, a column    *)
(* the models do not know accepts to be left out, and each index that some     *)
(* migration creates is there, with the reasons of 0015 - from whatever        *)
(* database the deployment found, however often alembic was cut short, after   *)
(* any downgrades. Excepted are what a downgrade left halfway has dropped, and *)
(* the indexes and rows of a table whose creation was cut short.               *)
HeadServesTheModels ==
    AtHead /\ ~HalfwayDown =>
        /\ \A t \in DOMAIN Models :
              /\ Has(db, t)
              /\ \A c \in DOMAIN Models[t].columns :
                    c \in Columns(db, t) /\ db[t].columns[c] \subseteq Models[t].columns[c]
              /\ \A c \in Columns(db, t) \ DOMAIN Models[t].columns : db[t].columns[c] = Nullable
              /\ ~Unrepaired(t) => Models[t].indexes \ NeverCreated \subseteq db[t].indexes
        /\ ~Unrepaired("proposal_report_reason_questions") =>
              db["proposal_report_reason_questions"].rows # <<>>

(* What the missions recorded before Alembic is still known at the head: the   *)
(* confirmations of both parties, the decision of a dispute, and its reason as *)
(* evidence - once, unless the script that copies it was interrupted - through *)
(* renames, merges, crashes and downgrades down to 0006.                       *)
RowOf(t, id) == SelectSeq(db[t].rows, LAMBDA r : r.id = id)[1]
Reasons(text) == SelectSeq(db["dispute_evidences"].rows, LAMBDA r : r.reason = text)
Resolved(status) == IF status = "REFUNDED" THEN "RESOLVED" ELSE status
MissionFactsSurvive ==
    AtHead /\ ~HalfwayDown /\ found.legacy /\ undone \cap {1, 6} = {} =>
        /\ \A t \in {"proposals", "offers"} :
              /\ RowOf(t, "1").runner_confirmed_at = found.delivered
              /\ RowOf(t, "1").orderer_confirmed_at = found.received
              /\ RowOf(t, "1").status = Resolved(found.status)
        /\ RowOf("proposals", "1").matched_at = "created"
        /\ RowOf("offers", "1").accepted_at = "created"
        /\ found.reason # NULL =>
              /\ Reasons(found.reason) # <<>>
              /\ Up(6) \notin cut => Len(Reasons(found.reason)) = 1

(* A migration that was cut short can be run again: an upgrade is refused only *)
(* when 0010 finds the table its own first attempt created, a downgrade only   *)
(* when the upgrade 0015 was left without its indexes, or when 0014 and 0015   *)
(* meet a withdrawn user or a REPORTED proposal - as long as nobody rolls back *)
(* what an interrupted migration has half changed.                             *)
RolledPastHalfway == \E r \in Revisions \ version : Up(r) \in cut /\ undone \cap 1..(r - 1) # {}
OnlyKnownScriptsStop ==
    [][refusal' # NoScript /\ refusal' # refusal =>
        \/ HalfwayDown \/ RolledPastHalfway
        \/ refusal' = Up(10) /\ Up(10) \in cut
        \/ refusal' = Down(15) /\ Up(15) \in cut
        \/ refusal' = Down(14) /\ "withdrawn" \in served
        \/ refusal' = Down(15) /\ "reported" \in served]_vars

(* Deploying again and again ends at the head, unless 0010 was cut short after *)
(* it created its table: that deployment is refused for ever. (So may be one   *)
(* after a downgrade that was left halfway or passed such a migration.)        *)
StuckAt0010 == 9 \in version /\ 10 \notin version /\ Has(db, "dispute_survey_questions")
DeploymentsReachTheHead == <>[](AtHead \/ StuckAt0010 \/ HalfwayDown \/ RolledPastHalfway)
=================================================================================
