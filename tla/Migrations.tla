------------------------------- MODULE Migrations -------------------------------
(* The Alembic migrations 0001-0017 and the way deploy.sh runs them: each      *)
(* revision is a script of statements, chosen from the schema it finds; MySQL  *)
(* commits with every statement on the schema, so a script that is cut short   *)
(* or refused leaves its first statements behind, and alembic_version still    *)
(* names the revisions before it: the next deployment runs the script again.   *)
EXTENDS Schema, FiniteSets

CONSTANTS
    Histories,    \* the databases a deployment may find: records, see Legacy
    Writes,       \* what the application may write at the head (see Serve)
    MaxCrashes,   \* bound: how often a run of alembic is cut short
    MaxServed     \* bound: how many of Writes happen

ASSUME BoundsAssumption == MaxCrashes \in Nat /\ MaxServed \in Nat

VARIABLES
    db,          \* the committed database
    work,        \* the database as the connection of alembic sees it
    version,     \* the revisions that are applied: the heads in alembic_version and what is below
    script,      \* the migration under way, or NoScript
    refusal,     \* the migration MySQL refused last, or NoScript
    cut,         \* history: the migrations cut short or refused since their tables were dropped
    undone,      \* history: the revisions that were downgraded
    found,       \* history: the database the first deployment found
    served,      \* the writes of the application at the head
    crashes      \* how often alembic has been cut short

vars == <<db, work, version, script, refusal, cut, undone, found, served, crashes>>

(* Mutant: 0012 names the branch of 0011 only as its parent.                   *)
ParentsOneBranch == [r \in 1..18 |->
    CASE r = 1  -> {}         [] r = 18 -> {6}
      [] r = 12 -> {11}       [] OTHER -> {r - 1}]
Parents == [r \in 1..18 |->
    CASE r = 1  -> {}         [] r = 18 -> {6}      \* 18: 0007_remove_settlement_bank_code_and_holder
      [] r = 12 -> {11, 18}   [] OTHER -> {r - 1}]
Revisions == DOMAIN Parents

----------------------------------------------------------------------------------
(* The tables the models declare: the columns that a migration touches, and    *)
(* every index, those of index=True by the name SQLAlchemy gives them. (The    *)
(* named unique constraints are part of CREATE TABLE.)                         *)
Timestamps(names) == [c \in names |-> Nullable]
Declared(columns, indexes) == [columns |-> columns, indexes |-> indexes]
NoColumns == Timestamps({})

UserModel == Declared(
    [name |-> Nullable, alarm_enabled |-> Nullable, level |-> Required,
     deleted |-> Required, deleted_at |-> Nullable],
    {"ix_users_phone"})
PhoneVerificationModel == Declared(NoColumns,
    {"ix_auth_phone_verifications_purpose", "ix_auth_phone_verifications_phone",
     "ix_auth_phone_verifications_expires_at",
     "idx_auth_phone_verifications_purpose_phone_status",
     "idx_auth_phone_verifications_purpose_phone_status_expires_at"})
FCMTokenModel == Declared(NoColumns, {"ix_user_fcm_tokens_user_id"})
ProposalModel == Declared(
    [status |-> {NULL, "REFUNDED"}] @@
    Timestamps({"id", "matched_at", "runner_confirmed_at", "orderer_confirmed_at",
                "disputed_at", "resolved_at"}),
    {"ix_proposals_orderer_id", "ix_proposals_status", "idx_proposals_orderer_id"})
OfferModel == Declared(
    [status |-> {NULL, "REFUNDED", "REPORTED"}] @@
    Timestamps({"id", "open_chat_url", "accepted_at", "runner_confirmed_at",
                "orderer_confirmed_at", "disputed_at", "resolved_at"}),
    {"ix_offers_id", "ix_offers_proposal_id", "ix_offers_runner_id", "ix_offers_status"})
SettlementModel == Declared([account_holder |-> Required], {"ix_settlement_accounts_user_id"})
TermsModel == Declared(NoColumns, {"ix_terms_agreements_user_id", "idx_terms_agreements_user_id"})
NotificationModel == Declared(
    [notification_type |-> Required, status |-> Required, retry_count |-> Required],
    {"ix_notifications_id", "ix_notifications_user_id", "ix_notifications_notification_type",
     "ix_notifications_status", "ix_notifications_created_at"})
SurveyQuestionModel == Declared(NoColumns, {"idx_dispute_survey_questions_lookup"})
EvidenceModel == Declared(
    [reason |-> Required, survey_question_id |-> Required],
    {"ix_dispute_evidences_id", "ix_dispute_evidences_proposal_id", "ix_dispute_evidences_offer_id",
     "ix_dispute_evidences_actor_id", "idx_dispute_evidences_survey_question_id"})
ReportReasonModel == Declared(
    [question_text |-> Required], {"idx_proposal_report_reason_questions_lookup"})
ReportModel == Declared(NoColumns,
    {"idx_proposal_reports_proposal_status", "idx_proposal_reports_reporter_id",
     "idx_proposal_reports_status_created"})

Models == [
    users |-> UserModel, auth_phone_verifications |-> PhoneVerificationModel,
    user_fcm_tokens |-> FCMTokenModel, proposals |-> ProposalModel, offers |-> OfferModel,
    settlement_accounts |-> SettlementModel, terms_agreements |-> TermsModel,
    notifications |-> NotificationModel, dispute_survey_questions |-> SurveyQuestionModel,
    dispute_evidences |-> EvidenceModel, proposal_report_reason_questions |-> ReportReasonModel,
    proposal_reports |-> ReportModel]

(* The database of the staging server before Alembic: a user, her proposal and *)
(* its offer, and the mission that records what happened to them. history says *)
(* what that was, and whether the notifications table exists already. The      *)
(* tables were made from the models, with their indexes.                       *)
NarrowTypes == {NULL, "offer_submitted", "meeting_confirmed", "dispute_raised"}  \* not in 0004's ENUM
Legacy(history) ==
    LET Table(columns, indexes, row) == [columns |-> columns, indexes |-> indexes, rows |-> <<row>>]
        Made(t, columns, row) == Table(columns, Models[t].indexes, row) IN
    [users |-> Made("users", [name |-> Required, alarm_enabled |-> Required],
                    [name |-> "name", alarm_enabled |-> "on"]),
     auth_phone_verifications |-> Made("auth_phone_verifications", NoColumns, <<>>),
     user_fcm_tokens |-> Made("user_fcm_tokens", NoColumns, <<>>),
     proposals |-> Made("proposals", [id |-> Nullable, status |-> {NULL, "REPORTED"}],
                        [id |-> "1", status |-> history.status]),
     offers |-> Made("offers", [id |-> Nullable, status |-> {NULL, "REPORTED"}],
                     [id |-> "1", status |-> history.status]),
     settlement_accounts |-> Made("settlement_accounts",
                                  [bank_code |-> Required, account_holder |-> Required],
                                  [bank_code |-> "004", account_holder |-> "holder"]),
     missions |-> Table(
        [contract_amount |-> Required, run_fee |-> Required, item_price |-> Required,
         total_amount |-> Required] @@
        Timestamps({"proposal_id", "offer_id", "created_at", "delivery_completed_at",
                    "received_confirmed_at", "settled_at", "delivery_proof_image_url", "dispute_reason"}),
        {},
        [contract_amount |-> "9", run_fee |-> "1", item_price |-> "8", total_amount |-> "9",
         proposal_id |-> "1", offer_id |-> "1", created_at |-> "created",
         delivery_completed_at |-> history.delivered, received_confirmed_at |-> history.received,
         settled_at |-> history.settled, delivery_proof_image_url |-> history.image,
         dispute_reason |-> history.reason])] @@
    (IF history.notifications
     THEN [notifications |-> Made("notifications", [notification_type |-> NarrowTypes, status |-> Required],
                                  [notification_type |-> "custom", status |-> "sent"])]
     ELSE <<>>)

----------------------------------------------------------------------------------
(* The scripts: upgrade() and downgrade() of each revision, as the statements  *)
(* they send when they find the schema s.                                      *)
BaselineTables == <<"users", "auth_phone_verifications", "user_fcm_tokens", "proposals", "offers",
                    "settlement_accounts">>
CreateDeclared(t) ==
    <<CreateTable(t, Models[t].columns)>> \o CreateIndexes(t, SetToSeq(Models[t].indexes))

Upgrade0001(s) ==
    LET New(t) == When(~Has(s, t), CreateDeclared(t)) IN
    FlattenSeq([i \in DOMAIN BaselineTables |-> New(BaselineTables[i])])
Downgrade0001(s) ==
    LET old == SelectSeq(BaselineTables, LAMBDA t : Has(s, t)) IN
    [i \in DOMAIN old |-> DropTable(old[i])]

Upgrade0002(s) ==
    When(~Has(s, "terms_agreements"), <<CreateTable("terms_agreements", NoColumns)>>) \o
    CreateIndexes("terms_agreements",
                  Missing(<<"idx_terms_agreements_user_id">>, Indexes(s, "terms_agreements")))
Downgrade0002(s) ==
    DropIndexes("terms_agreements",
                Existing(<<"idx_terms_agreements_user_id">>, Indexes(s, "terms_agreements"))) \o
    When(Has(s, "terms_agreements"), <<DropTable("terms_agreements")>>)

AmountColumns == <<"contract_amount", "run_fee", "item_price", "total_amount">>
Upgrade0003(s) == DropColumns("missions", Existing(AmountColumns, Columns(s, "missions")))
Downgrade0003(s) ==
    When(Has(s, "missions"),
         AddColumns("missions", Missing(AmountColumns, Columns(s, "missions")), Required, "0"))

Upgrade0004(s) ==
    When(Has(s, "notifications"),
         AddColumns("notifications", Missing(<<"retry_count">>, Columns(s, "notifications")), Required, "0")
         \o <<Modify("notifications", "notification_type", Required),
              Modify("notifications", "status", Required)>>)
Downgrade0004(s) ==
    When(Has(s, "notifications"),
         <<Modify("notifications", "status", Required),
           DeleteIn("notifications", "notification_type", {"offer_submitted", "meeting_confirmed"}),
           Modify("notifications", "notification_type", NarrowTypes)>>
         \o DropColumns("notifications", Existing(<<"retry_count">>, Columns(s, "notifications"))))

NotificationIndexes == <<"ix_notifications_user_id", "ix_notifications_notification_type",
                         "ix_notifications_status", "ix_notifications_created_at">>
Upgrade0005(s) ==
    When(~Has(s, "notifications"),
         <<CreateTable("notifications", NotificationModel.columns)>> \o
         CreateIndexes("notifications", NotificationIndexes))
Downgrade0005(s) == <<DropTable("notifications")>>

ProposalTimestamps == <<"matched_at", "delivery_reported_at", "received_confirmed_at", "settled_at",
                        "disputed_at", "refunded_at">>
OfferTimestamps == <<"accepted_at", "delivery_completed_at", "receipt_confirmed_at", "settled_at",
                     "disputed_at", "refunded_at">>
MissionIndexes == <<"ix_missions_id", "ix_missions_proposal_id", "ix_missions_orderer_id",
                    "ix_missions_runner_id">>
ProofIndexes == <<"ix_proofs_proposal_id", "ix_proofs_offer_id", "ix_proofs_proof_type">>
MissionColumns == Timestamps({"proposal_id", "offer_id", "created_at", "delivery_completed_at",
                              "received_confirmed_at", "settled_at", "delivery_proof_image_url",
                              "dispute_reason"})
ProofColumns == [proof_type |-> Required, image_url |-> Nullable, reason |-> Nullable]

CopyMissionTimes ==
    LET FromMission(t, key, c, from) == Backfill(t, c, "missions", key, from) IN
    <<FromMission("proposals", "proposal_id", "matched_at", "created_at"),
      FromMission("offers", "offer_id", "accepted_at", "created_at"),
      FromMission("proposals", "proposal_id", "delivery_reported_at", "delivery_completed_at"),
      FromMission("offers", "offer_id", "delivery_completed_at", "delivery_completed_at"),
      FromMission("proposals", "proposal_id", "received_confirmed_at", "received_confirmed_at"),
      FromMission("offers", "offer_id", "receipt_confirmed_at", "received_confirmed_at"),
      FromMission("proposals", "proposal_id", "settled_at", "settled_at"),
      FromMission("offers", "offer_id", "settled_at", "settled_at")>>
CopyMissionProofs ==
    LET Proof(type) == [proof_type |-> type, image_url |-> NULL, reason |-> NULL] IN
    <<InsertFrom("proofs", Proof("DELIVERY"), "image_url", "missions", "delivery_proof_image_url"),
      InsertFrom("proofs", Proof("DISPUTE"), "reason", "missions", "dispute_reason")>>

Upgrade0006(s) ==
    When(~Has(s, "proofs"),
         <<CreateTable("proofs", ProofColumns)>> \o CreateIndexes("proofs", ProofIndexes))
    \o AddColumns("proposals", Missing(ProposalTimestamps, Columns(s, "proposals")), Nullable, NULL)
    \o AddColumns("offers", Missing(OfferTimestamps, Columns(s, "offers")), Nullable, NULL)
    \o When(Has(s, "missions"),
            CopyMissionTimes \o CopyMissionProofs \o <<DropTable("missions")>>)
Downgrade0006(s) ==
    When(~Has(s, "missions"),
         <<CreateTable("missions", MissionColumns)>> \o CreateIndexes("missions", MissionIndexes))
    \o When(Has(s, "proofs"), <<DropTable("proofs")>>)
    \o DropColumns("offers", Existing(Reverse(OfferTimestamps), Columns(s, "offers")))
    \o DropColumns("proposals", Existing(Reverse(ProposalTimestamps), Columns(s, "proposals")))

Upgrade0007Level(s) == AddColumns("users", Missing(<<"level">>, Columns(s, "users")), Required, "0")
Downgrade0007Level(s) == DropColumns("users", Existing(<<"level">>, Columns(s, "users")))

Upgrade0007Holder(s) ==
    DropColumns("settlement_accounts",
                Existing(<<"bank_code", "account_holder">>, Columns(s, "settlement_accounts")))
Downgrade0007Holder(s) ==
    LET existing == Columns(s, "settlement_accounts") IN
    AddColumns("settlement_accounts", Missing(<<"bank_code">>, existing), Required, "000") \o
    AddColumns("settlement_accounts", Missing(<<"account_holder">>, existing), Required, "Unknown")

Upgrade0008(s) == AddColumns("offers", Missing(<<"open_chat_url">>, Columns(s, "offers")), Nullable, NULL)
Downgrade0008(s) == DropColumns("offers", Existing(<<"open_chat_url">>, Columns(s, "offers")))

RenameTimestamp(s, t, old, new) ==
    When(old \in Columns(s, t),
         IF new \in Columns(s, t) THEN <<Fill(t, new, old), DropColumn(t, old)>>
                                  ELSE <<RenameColumn(t, old, new)>>)
SetStatuses(names) ==     \* ALTER TABLE ... MODIFY status ENUM(...) of both tables, without names
    <<Modify("proposals", "status", {NULL, "REPORTED"} \cup names),
      Modify("offers", "status", {NULL, "REPORTED"} \cup names)>>
RenameStatus(old, new) ==
    <<Replace("proposals", "status", old, new), Replace("offers", "status", old, new)>>

Upgrade0009(s) ==
    RenameTimestamp(s, "proposals", "refunded_at", "resolved_at") \o
    RenameTimestamp(s, "offers", "refunded_at", "resolved_at") \o
    SetStatuses({}) \o RenameStatus("REFUNDED", "RESOLVED") \o SetStatuses({"REFUNDED"})
Downgrade0009(s) ==
    SetStatuses({}) \o RenameStatus("RESOLVED", "REFUNDED") \o SetStatuses({"RESOLVED"}) \o
    RenameTimestamp(s, "proposals", "resolved_at", "refunded_at") \o
    RenameTimestamp(s, "offers", "resolved_at", "refunded_at")

Upgrade0010(s) == CreateDeclared("dispute_survey_questions")
Downgrade0010(s) ==
    <<DropIndex("dispute_survey_questions", "idx_dispute_survey_questions_lookup"),
      DropTable("dispute_survey_questions")>>

(* Mutant: the index is created without looking whether it exists.             *)
Upgrade0011Unguarded(s) ==
    AddColumns("proofs", Missing(<<"survey_question_id">>, Columns(s, "proofs")), Nullable, NULL) \o
    <<CreateIndex("proofs", "idx_proofs_survey_question_id")>>
Upgrade0011(s) ==
    AddColumns("proofs", Missing(<<"survey_question_id">>, Columns(s, "proofs")), Nullable, NULL) \o
    CreateIndexes("proofs", Missing(<<"idx_proofs_survey_question_id">>, Indexes(s, "proofs")))
Downgrade0011(s) ==
    DropIndexes("proofs", Existing(<<"idx_proofs_survey_question_id">>, Indexes(s, "proofs"))) \o
    DropColumns("proofs", Existing(<<"survey_question_id">>, Columns(s, "proofs")))

SnapshotIndexes == <<"idx_withdrawn_user_snapshots_user_id", "idx_withdrawn_user_snapshots_phone",
                     "idx_withdrawn_user_snapshots_withdrawn_at",
                     "idx_withdrawn_user_snapshots_anonymize_after">>
(* Mutant: the table is created without looking whether it exists.             *)
Upgrade0012Unguarded(s) ==
    AddColumns("users", Missing(<<"deleted">>, Columns(s, "users")), Required, "0") \o
    AddColumns("users", Missing(<<"deleted_at">>, Columns(s, "users")), Nullable, NULL) \o
    CreateIndexes("users", Missing(<<"idx_users_deleted">>, Indexes(s, "users"))) \o
    <<CreateTable("withdrawn_user_snapshots", NoColumns)>> \o
    CreateIndexes("withdrawn_user_snapshots",
                  Missing(SnapshotIndexes, Indexes(s, "withdrawn_user_snapshots")))
Upgrade0012(s) ==
    AddColumns("users", Missing(<<"deleted">>, Columns(s, "users")), Required, "0") \o
    AddColumns("users", Missing(<<"deleted_at">>, Columns(s, "users")), Nullable, NULL) \o
    CreateIndexes("users", Missing(<<"idx_users_deleted">>, Indexes(s, "users"))) \o
    When(~Has(s, "withdrawn_user_snapshots"), <<CreateTable("withdrawn_user_snapshots", NoColumns)>>) \o
    CreateIndexes("withdrawn_user_snapshots",
                  Missing(SnapshotIndexes, Indexes(s, "withdrawn_user_snapshots")))
Downgrade0012(s) ==
    DropIndexes("withdrawn_user_snapshots",
                Existing(Reverse(SnapshotIndexes), Indexes(s, "withdrawn_user_snapshots"))) \o
    When(Has(s, "withdrawn_user_snapshots"), <<DropTable("withdrawn_user_snapshots")>>) \o
    DropIndexes("users", Existing(<<"idx_users_deleted">>, Indexes(s, "users"))) \o
    DropColumns("users", Existing(<<"deleted_at", "deleted">>, Columns(s, "users")))

Upgrade0013(s) ==
    AddColumns("settlement_accounts",
               Missing(<<"account_holder">>, Columns(s, "settlement_accounts")), Required, "Unknown")
Downgrade0013(s) ==
    DropColumns("settlement_accounts",
                Existing(<<"account_holder">>, Columns(s, "settlement_accounts")))

Upgrade0014(s) ==
    <<Modify("users", "name", Nullable), Modify("users", "alarm_enabled", Nullable)>> \o
    When(Has(s, "withdrawn_user_snapshots"), <<DropTable("withdrawn_user_snapshots")>>)
Downgrade0014(s) ==
    When(~Has(s, "withdrawn_user_snapshots"), <<CreateTable("withdrawn_user_snapshots", NoColumns)>>) \o
    <<Modify("users", "name", Required), Modify("users", "alarm_enabled", Required)>>

Upgrade0015(s) ==
    When(Has(s, "proposals"), <<Modify("proposals", "status", {NULL, "REFUNDED"})>>) \o
    When(~Has(s, "proposal_report_reason_questions"),
         CreateDeclared("proposal_report_reason_questions") \o
         <<InsertRows("proposal_report_reason_questions", <<[question_text |-> "reasons"]>>)>>) \o
    When(~Has(s, "proposal_reports"), CreateDeclared("proposal_reports"))
Downgrade0015(s) ==
    LET Drop(t) == When(Has(s, t), DropIndexes(t, SetToSeq(Models[t].indexes)) \o <<DropTable(t)>>) IN
    Drop("proposal_reports") \o Drop("proposal_report_reason_questions") \o
    When(Has(s, "proposals"), <<Modify("proposals", "status", {NULL, "REFUNDED", "REPORTED"})>>)

AllProofIndexes == Append(ProofIndexes, "idx_proofs_survey_question_id")
EvidenceIndexes == <<"ix_dispute_evidences_proposal_id", "ix_dispute_evidences_offer_id",
                     "ix_dispute_evidences_actor_id", "idx_dispute_evidences_survey_question_id">>
Upgrade0016(s) ==
    LET renames == Has(s, "proofs") /\ ~Has(s, "dispute_evidences")
        t == IF renames THEN "proofs" ELSE "dispute_evidences"     \* the table that is reshaped
        Tighten(c, value) ==
            When(c \in Columns(s, t), <<Replace("dispute_evidences", c, NULL, value),
                                       Modify("dispute_evidences", c, Required)>>)
    IN When("proof_type" \in Columns(s, "proofs"), <<DeleteOthers("proofs", "proof_type", "DISPUTE")>>)
       \o When(renames, <<RenameTable("proofs", "dispute_evidences")>>)
       \o When(Has(s, t),
            DropIndexes("dispute_evidences", Existing(AllProofIndexes, Indexes(s, t))) \o
            DropColumns("dispute_evidences", Existing(<<"proof_type", "image_url">>, Columns(s, t))) \o
            Tighten("reason", "empty") \o Tighten("survey_question_id", "0") \o
            CreateIndexes("dispute_evidences", Missing(EvidenceIndexes, Indexes(s, t))))
Downgrade0016(s) ==
    LET renames == Has(s, "dispute_evidences") /\ ~Has(s, "proofs")
        t == IF renames THEN "dispute_evidences" ELSE "proofs"
        columns == Columns(s, "dispute_evidences")
        loose == Existing(<<"reason", "survey_question_id">>, columns)
    IN When(Has(s, "dispute_evidences"),
            AddColumns("dispute_evidences", Missing(<<"proof_type">>, columns), Required, "DISPUTE") \o
            AddColumns("dispute_evidences", Missing(<<"image_url">>, columns), Nullable, NULL) \o
            [i \in DOMAIN loose |-> Modify("dispute_evidences", loose[i], Nullable)])
       \o When(renames, <<RenameTable("dispute_evidences", "proofs")>>)
       \o When(Has(s, t),
            DropIndexes("proofs", Existing(EvidenceIndexes, Indexes(s, t))) \o
            CreateIndexes("proofs", Missing(AllProofIndexes, Indexes(s, t))))

(* Mutant: 0017 gives the runner's time of confirmation the orderer's name.    *)
ConfirmationNamesSwapped == <<
    <<"offers", "delivery_completed_at", "orderer_confirmed_at">>,
    <<"offers", "receipt_confirmed_at", "runner_confirmed_at">>,
    <<"proposals", "delivery_reported_at", "runner_confirmed_at">>,
    <<"proposals", "received_confirmed_at", "orderer_confirmed_at">>>>
ConfirmationNames == <<
    <<"offers", "delivery_completed_at", "runner_confirmed_at">>,
    <<"offers", "receipt_confirmed_at", "orderer_confirmed_at">>,
    <<"proposals", "delivery_reported_at", "runner_confirmed_at">>,
    <<"proposals", "received_confirmed_at", "orderer_confirmed_at">>>>
RenameIfFree(s, t, old, new) ==
    When(old \in Columns(s, t) /\ new \notin Columns(s, t), <<RenameColumn(t, old, new)>>)
Upgrade0017(s) ==
    LET Confirmations(i) == RenameIfFree(s, ConfirmationNames[i][1], ConfirmationNames[i][2],
                                         ConfirmationNames[i][3])
        Settled(t) == DropColumns(t, Existing(<<"settled_at">>, Columns(s, t)))
    IN Confirmations(1) \o Confirmations(2) \o Settled("offers") \o
       Confirmations(3) \o Confirmations(4) \o Settled("proposals")
Downgrade0017(s) ==
    LET Confirmations(i) == RenameIfFree(s, ConfirmationNames[i][1], ConfirmationNames[i][3],
                                         ConfirmationNames[i][2])
        Settled(t) == When(Has(s, t), AddColumns(t, Missing(<<"settled_at">>, Columns(s, t)), Nullable, NULL))
    IN Settled("proposals") \o Confirmations(3) \o Confirmations(4) \o
       Settled("offers") \o Confirmations(1) \o Confirmations(2)

Upgrade(r, s) ==
    CASE r = 1  -> Upgrade0001(s) [] r = 2  -> Upgrade0002(s) [] r = 3  -> Upgrade0003(s)
      [] r = 4  -> Upgrade0004(s) [] r = 5  -> Upgrade0005(s) [] r = 6  -> Upgrade0006(s)
      [] r = 7  -> Upgrade0007Level(s) [] r = 18 -> Upgrade0007Holder(s)
      [] r = 8  -> Upgrade0008(s) [] r = 9  -> Upgrade0009(s) [] r = 10 -> Upgrade0010(s)
      [] r = 11 -> Upgrade0011(s) [] r = 12 -> Upgrade0012(s) [] r = 13 -> Upgrade0013(s)
      [] r = 14 -> Upgrade0014(s) [] r = 15 -> Upgrade0015(s) [] r = 16 -> Upgrade0016(s)
      [] r = 17 -> Upgrade0017(s)
Downgrade(r, s) ==
    CASE r = 1  -> Downgrade0001(s) [] r = 2  -> Downgrade0002(s) [] r = 3  -> Downgrade0003(s)
      [] r = 4  -> Downgrade0004(s) [] r = 5  -> Downgrade0005(s) [] r = 6  -> Downgrade0006(s)
      [] r = 7  -> Downgrade0007Level(s) [] r = 18 -> Downgrade0007Holder(s)
      [] r = 8  -> Downgrade0008(s) [] r = 9  -> Downgrade0009(s) [] r = 10 -> Downgrade0010(s)
      [] r = 11 -> Downgrade0011(s) [] r = 12 -> Downgrade0012(s) [] r = 13 -> Downgrade0013(s)
      [] r = 14 -> Downgrade0014(s) [] r = 15 -> Downgrade0015(s) [] r = 16 -> Downgrade0016(s)
      [] r = 17 -> Downgrade0017(s)

----------------------------------------------------------------------------------
NoScript == [revision |-> 0, way |-> "none", todo |-> <<>>]     \* no migration is under way
Idle == script = NoScript
AtHead == Idle /\ version = Revisions
Running == [revision |-> script.revision, way |-> script.way]

Init ==
    /\ found \in Histories
    /\ db = IF found.legacy THEN Legacy(found) ELSE <<>>
    /\ work = db
    /\ version = {}
    /\ script = NoScript
    /\ refusal = NoScript
    /\ cut = {}
    /\ undone = {}
    /\ served = {}
    /\ crashes = 0

Begin(r, way, todo) ==
    /\ Idle
    /\ script' = [revision |-> r, way |-> way, todo |-> todo]
    /\ refusal' = NoScript
    /\ UNCHANGED <<db, work, version, cut, undone, found, served, crashes>>

(* Mutant: the revisions are not ordered by down_revision.                     *)
BeginUpgradeAnyOrder(r) == r \notin version /\ Begin(r, "up", Upgrade(r, db))

(* alembic upgrade head: the next revision whose parents are applied.          *)
BeginUpgrade(r) ==
    /\ r \notin version /\ Parents[r] \subseteq version
    /\ Begin(r, "up", Upgrade(r, db))

(* alembic downgrade, after the head was reached: an applied revision no       *)
(* applied one builds on. Bounds: each is taken back once, and a downgrade     *)
(* that has just been refused is not tried at once again.                      *)
BeginDowngrade(r) ==
    /\ r \in version /\ \A q \in version : r \notin Parents[q]
    /\ version \cup undone = Revisions
    /\ r \notin undone /\ refusal # [revision |-> r, way |-> "down"]
    /\ Begin(r, "down", Downgrade(r, db))

(* One statement. MySQL commits with a statement on the schema.                *)
Send ==
    /\ ~Idle /\ script.todo # <<>> /\ ~Refused(work, Head(script.todo))
    /\ work' = Apply(work, Head(script.todo))
    /\ db' = IF IsDDL(Head(script.todo)) THEN work' ELSE db
    /\ script' = [script EXCEPT !.todo = Tail(@)]
    /\ UNCHANGED <<version, refusal, cut, undone, found, served, crashes>>

(* The statement fails: the exception rolls back what is not committed, and    *)
(* ends alembic and deploy.sh. What came before it had been committed first.   *)
Refuse ==
    /\ ~Idle /\ script.todo # <<>> /\ Refused(work, Head(script.todo))
    /\ db' = work /\ work' = work
    /\ script' = NoScript
    /\ refusal' = Running
    /\ cut' = cut \cup {Running}
    /\ UNCHANGED <<version, undone, found, served, crashes>>

(* The script is through: alembic writes alembic_version and commits. What was *)
(* cut before no longer matters once the revision has been taken back.         *)
Stamp ==
    /\ ~Idle /\ script.todo = <<>>
    /\ db' = work /\ work' = work
    /\ version' = IF script.way = "up" THEN version \cup {script.revision}
                                       ELSE version \ {script.revision}
    /\ undone' = IF script.way = "up" THEN undone ELSE undone \cup {script.revision}
    /\ cut' = IF script.way = "up" THEN cut ELSE {c \in cut : c.revision # script.revision}
    /\ script' = NoScript
    /\ UNCHANGED <<refusal, found, served, crashes>>

(* The container or the server dies: rows changed since the last statement on  *)
(* the schema are lost, unless the next one had just committed them.           *)
Crash ==
    /\ ~Idle /\ crashes < MaxCrashes
    /\ db' \in {db} \cup (IF script.todo # <<>> /\ IsDDL(Head(script.todo)) THEN {work} ELSE {})
    /\ work' = db'
    /\ script' = NoScript
    /\ cut' = cut \cup {Running}
    /\ crashes' = crashes + 1
    /\ UNCHANGED <<version, refusal, undone, found, served>>

(* The application at the head: a proposal whose report was accepted, a user   *)
(* who withdrew, a dispute that was raised.                                    *)
Row(t, values) ==
    [c \in Columns(db, t) |->
        IF c \in DOMAIN values THEN values[c] ELSE IF NULL \in db[t].columns[c] THEN "0" ELSE NULL]
Written(w) ==
    CASE w = "reported"  -> [table |-> "proposals", values |-> [id |-> "2", status |-> "REPORTED"]]
      [] w = "withdrawn" -> [table |-> "users", values |-> [deleted |-> "1"]]
      [] w = "disputed"  -> [table |-> "dispute_evidences",
                             values |-> [reason |-> "later", survey_question_id |-> "1"]]
Serve(w) ==
    LET t == Written(w).table IN
    /\ AtHead
    /\ w \notin served /\ Cardinality(served) < MaxServed
    /\ Has(db, t)
    /\ db' = Apply(db, InsertRows(t, <<Row(t, Written(w).values)>>)) /\ work' = db'
    /\ served' = served \cup {w}
    /\ UNCHANGED <<version, script, refusal, cut, undone, found, crashes>>

Deploy == (\E r \in Revisions : BeginUpgrade(r)) \/ Send \/ Refuse \/ Stamp
RollBack == \E r \in Revisions : BeginDowngrade(r)

Next ==
    \/ Deploy
    \/ RollBack
    \/ Crash
    \/ \E w \in Writes : Serve(w)

(* deploy.sh runs alembic upgrade head with every deployment, and a server     *)
(* that runs a script answers: upgrades are begun and statements are sent.     *)
Fairness == WF_vars(Deploy)

Spec == Init /\ [][Next]_vars /\ Fairness
=================================================================================
