------------------------------ MODULE MCSessions -------------------------------
(* Instances of RequestSessions and its properties for TLC. *)
EXTENDS SessionProperties, TLC

(* Accounts of one kind are alike, and so are proposals, fees and threads. *)
Symmetry == Permutations(Impatient) \cup Permutations(Users \ Impatient)
              \cup Permutations(Proposals) \cup Permutations(Fees) \cup Permutations(Threads)

(* Bound: executions are followed to their end while the alarms are off, and   *)
(* up to this many notifications when one is on.                               *)
FewNotifications == Cardinality(notifications) <= 1

================================================================================
