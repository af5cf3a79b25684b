------------------------------ MODULE MCMigrations ------------------------------
EXTENDS MigrationProperties

(* The databases a first deployment may find: an empty one, and two with a     *)
(* mission: confirmed by both, and refunded after a dispute.                   *)
Mission(delivered, received, settled, image, reason, status, notifications) ==
    [legacy |-> TRUE, delivered |-> delivered, received |-> received, settled |-> settled,
     image |-> image, reason |-> reason, status |-> status, notifications |-> notifications]
MCHistories == {
    [legacy |-> FALSE],
    Mission("delivered", "received", "settled", "photo", NULL, "ALL_COMPLETED", FALSE),
    Mission("delivered", NULL, NULL, "photo", "late", "REFUNDED", TRUE)}
MCWrites == {"reported", "withdrawn", "disputed"}
=================================================================================
