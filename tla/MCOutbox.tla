-------------------------------- MODULE MCOutbox --------------------------------
(* Instances of NotificationOutbox and its properties for TLC. *)
EXTENDS OutboxRefinement, Functions

(* Every account has a notification. *)
MCRecipient == CHOOSE recipient \in [Rows -> Users] : Range(recipient) = Users

================================================================================
