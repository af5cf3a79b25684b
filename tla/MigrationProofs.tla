---------------------------- MODULE MigrationProofs ----------------------------
(* The order of the revisions, for any databases a deployment finds, any       *)
(* writes of the application and any number of crashes and refusals.           *)
EXTENDS MigrationProperties, TLAPS

(* The script under way was begun when its turn had come, and it still is its  *)
(* turn: an upgrade stands on all its parents, a downgrade under none of the   *)
(* applied revisions.                                                          *)
TurnKept ==
    ~Idle =>
        /\ {"revision", "way", "todo"} \subseteq DOMAIN script
        /\ script.way = "up" => Parents[script.revision] \subseteq version
        /\ script.way = "down" => \A q \in version : script.revision \notin Parents[q]

MigrationInv == TypeOK /\ TurnKept

(* There are eighteen revisions, and NoScript has none of their numbers.       *)
LEMMA RevisionNumbers == Revisions = 1..18 /\ 0 \notin Revisions
BY DEF Revisions, Parents

(* A script that has begun is not NoScript.                                    *)
LEMMA ScriptsAreReal ==
    ASSUME NEW r \in Revisions, NEW way, NEW todo
    PROVE  [revision |-> r, way |-> way, todo |-> todo] # NoScript
BY RevisionNumbers DEF NoScript

(* Nothing is under way at first, and no revision applied.                     *)
LEMMA MigrationStart == Init => MigrationInv
BY BoundsAssumption DEF Init, MigrationInv, TypeOK, TurnKept, Idle

(* A script begins when no other is under way; it is in turn by the guards of  *)
(* the caller.                                                                 *)
LEMMA BeginKeeps ==
    ASSUME MigrationInv, NEW r \in Revisions, NEW way \in {"up", "down"}, NEW todo,
           Begin(r, way, todo),
           way = "up" => Parents[r] \subseteq version,
           way = "down" => \A q \in version : r \notin Parents[q]
    PROVE  MigrationInv'
<1>1. script' = [revision |-> r, way |-> way, todo |-> todo] /\ script' # NoScript
  BY ScriptsAreReal DEF Begin
<1>2. Running' \in Migration
  BY <1>1 DEF Running, Migration
<1>3. TypeOK'
  BY <1>1, <1>2 DEF MigrationInv, TypeOK, Begin, Idle
<1>4. TurnKept'
  BY <1>1 DEF TurnKept, Begin, Idle
<1> QED BY <1>3, <1>4 DEF MigrationInv

(* A statement changes the database and what is left of the script, not whose  *)
(* turn it is.                                                                 *)
LEMMA SendKeeps == ASSUME MigrationInv, Send PROVE MigrationInv'
<1> USE DEF MigrationInv
<1>1. /\ script'.revision = script.revision /\ script'.way = script.way
      /\ DOMAIN script' = DOMAIN script
  BY DEF Send, TurnKept
<1>2. Running' = Running /\ Running \in Migration
  BY <1>1 DEF Running, TypeOK, Send, Idle
<1>3. script.revision \in Revisions
  BY <1>2 DEF Running, Migration
<1>4. script' # NoScript
  BY <1>1, <1>3, RevisionNumbers DEF NoScript
<1>5. TypeOK'
  BY <1>2, <1>4 DEF TypeOK, Send, Idle
<1>6. TurnKept'
  BY <1>1 DEF TurnKept, Send, Idle
<1> QED BY <1>5, <1>6

(* A refusal and a crash end the script and leave the versions alone.          *)
LEMMA EndKeeps == ASSUME MigrationInv, Refuse \/ Crash PROVE MigrationInv'
<1> USE DEF MigrationInv
<1>1. ~Idle /\ Running \in Migration
  BY DEF Refuse, Crash, TypeOK, Idle
<1>2. script' = NoScript
  BY DEF Refuse, Crash
<1>3. CASE Refuse
  BY <1>1, <1>2, <1>3 DEF Refuse, TypeOK, TurnKept, Idle
<1>4. CASE Crash
  BY <1>1, <1>2, <1>4, BoundsAssumption DEF Crash, TypeOK, TurnKept, Idle
<1> QED BY <1>3, <1>4

(* The stamp adds a revision whose parents are applied, or takes one away that *)
(* no applied revision builds on.                                              *)
LEMMA StampKeeps == ASSUME MigrationInv, Stamp PROVE MigrationInv'
<1> USE DEF MigrationInv
<1>1. ~Idle /\ script.revision \in Revisions /\ script.way \in {"up", "down"}
  BY DEF Stamp, TypeOK, Idle, Running, Migration
<1>2. version' \in SUBSET Revisions /\ undone' \in SUBSET Revisions /\ cut' \in SUBSET Migration
  BY <1>1 DEF Stamp, TypeOK
<1>3. \A r \in version' : Parents[r] \subseteq version'
  <2>1. CASE script.way = "up"
    BY <1>1, <2>1 DEF Stamp, TypeOK, TurnKept
  <2>2. CASE script.way = "down"
    BY <1>1, <2>2 DEF Stamp, TypeOK, TurnKept
  <2> QED BY <1>1, <2>1, <2>2
<1>4. TypeOK'
  BY <1>2, <1>3 DEF Stamp, TypeOK, Idle
<1>5. TurnKept'
  BY DEF Stamp, TurnKept, Idle
<1> QED BY <1>4, <1>5

(* The application writes at the head only, when no script is under way.       *)
LEMMA ServeKeeps ==
    ASSUME MigrationInv, NEW w \in Writes, Serve(w) PROVE MigrationInv'
BY DEF MigrationInv, TypeOK, TurnKept, Serve, AtHead, Idle, Running

(* Every step keeps the turn of the script under way.                          *)
LEMMA MigrationStep == MigrationInv /\ [Next]_vars => MigrationInv'
<1> SUFFICES ASSUME MigrationInv, [Next]_vars PROVE MigrationInv'
  OBVIOUS
<1>1. ASSUME NEW r \in Revisions, BeginUpgrade(r) PROVE MigrationInv'
  BY <1>1, BeginKeeps DEF BeginUpgrade
<1>2. ASSUME NEW r \in Revisions, BeginDowngrade(r) PROVE MigrationInv'
  BY <1>2, BeginKeeps DEF BeginDowngrade
<1>3. CASE UNCHANGED vars
  BY <1>3 DEF vars, MigrationInv, TypeOK, TurnKept, Idle, Running
<1> QED
  BY <1>1, <1>2, <1>3, SendKeeps, EndKeeps, StampKeeps, ServeKeeps DEF Next, Deploy, RollBack

(* Alembic applies a revision on its parents and takes one back from under     *)
(* none, through both branches and their merge, whatever is refused or cut     *)
(* short in between; and between two scripts nothing is left uncommitted.      *)
THEOREM MigrationTypeCorrect == Spec => []TypeOK
<1>1. MigrationInv => TypeOK
  BY DEF MigrationInv
<1> QED
  BY MigrationStart, MigrationStep, <1>1, PTL DEF Spec

================================================================================
