--------------------------- MODULE AccountProperties ----------------------------
(* What the accounts and the codes of Accounts must satisfy.  A patient phone  *)
(* is one whose requests are answered before the next one is sent; requests of *)
(* other phones overlap with it all the same.                                  *)
EXTENDS Accounts

Patient == Phones \ impatient

(* The types of the rows; no code counts more attempts than the limit.         *)
TypeOK ==
    /\ \A a \in DOMAIN accounts :
          accounts[a] \in [phone : Phones \cup {NoPhone}, deleted : BOOLEAN, profile : BOOLEAN,
                           rows : SUBSET Rows, born : Phones]
    /\ \A c \in DOMAIN codes :
          /\ codes[c] \in [purpose : Purposes, phone : Phones, status : Stored \cup {"ABSENT"},
                           attempts : 0..MaxAttempts, live : BOOLEAN,
                           text : {"NONE", "QUEUED", "SENT", "LOST"}, wrong : Nat]
    /\ \A s \in Sessions : session[s] # NoRequest =>
          session[s] \in [op : Operations, phone : Phones, account : 0..Len(accounts),
                          code : 0..Len(codes), attempts : 0..MaxAttempts,
                          gives : SUBSET Rows, saw : SUBSET Rows]

(* A phone has one account at most, however many confirmations of it overlap,  *)
(* and a withdrawn account holds no phone, so that the number can sign up      *)
(* again: confirm_signup looks for the user, then inserts, and only the unique *)
(* key lies between (user_auth_service.py:84-103, models/user.py:35).          *)
OneAccountPerPhone ==
    /\ \A a, b \in DOMAIN accounts :
          accounts[a].phone = accounts[b].phone => a = b \/ accounts[a].phone = NoPhone
    /\ \A a \in DOMAIN accounts : accounts[a].deleted <=> accounts[a].phone = NoPhone

(* What is withdrawn stays so: no name, no device token and no settlement      *)
(* account is stored for an account that a patient phone has withdrawn, only   *)
(* the agreement to the terms (user_withdrawal_service.py:52-57,               *)
(* docs/domains/user-auth/withdrawal-policy.md).                               *)
WithdrawnLeavesNothing ==
    \A a \in DOMAIN accounts :
        accounts[a].deleted /\ accounts[a].born \in Patient =>
            ~accounts[a].profile /\ accounts[a].rows \subseteq {"terms"}

(* Every refused try of a patient phone's code counts, through crashes,        *)
(* expiry, withdrawal and a second sign-up: it is refused MaxAttempts times at *)
(* most, and then tried no more. verify() commits the attempt before it raises *)
(* (phone_verification_service.py:117-122).                                    *)
PatientGuessesBounded ==
    \A c \in DOMAIN codes : codes[c].phone \in Patient =>
        /\ codes[c].wrong <= MaxAttempts
        /\ codes[c].status = "PENDING" => codes[c].wrong < MaxAttempts

(* The policy, of every phone: five failures are allowed (docs/exec-plans/     *)
(* completed/user-auth/auth/requirements.md:9). The code does not keep it: the *)
(* counter is read from the snapshot and stored plus one, so that tries that   *)
(* overlap count once, and a late one sets the counter back.                   *)
GuessesBounded == \A c \in DOMAIN codes : codes[c].wrong <= MaxAttempts

(* The code a patient phone can still use is the one that verify() compares:   *)
(* no older or newer row of the phone hides it, for the two purposes apart     *)
(* (phone_verification_service.py:47, 99-108).                                 *)
LiveCodeIsTried ==
    \A p \in Patient, purpose \in Purposes :
        \A c \in Pending(purpose, p) : codes[c].live => Tried(purpose, p) = {c}

(* A patient phone has an account exactly when one SIGNUP code of it is        *)
(* verified, one that was delivered; without an account it has no LOGIN code.  *)
(* Signup marks the code and makes the account in one commit, withdrawal       *)
(* deletes both (user_auth_service.py:78-103, user_withdrawal_service.py:48).  *)
CodesMatchAccounts ==
    \A p \in Patient :
        LET verified == {c \in DOMAIN codes :
                codes[c].phone = p /\ codes[c].purpose = "SIGNUP" /\ codes[c].status = "VERIFIED"} IN
        /\ Cardinality(verified) = Cardinality(FindUserByPhone(p))
        /\ \A c \in verified : codes[c].text = "SENT"
        /\ FindUserByPhone(p) = {} =>
              ~\E c \in DOMAIN codes :
                  codes[c].phone = p /\ codes[c].purpose = "LOGIN" /\ codes[c].status \in Stored

==================================================================================
