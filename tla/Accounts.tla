-------------------------------- MODULE Accounts --------------------------------
(* Phone verification, signup, login, the profile of an account, its device    *)
(* token, its settlement account, its agreement to the terms, and withdrawal.  *)
(*                                                                             *)
(* Every endpoint runs in a database session of its own, at REPEATABLE READ:   *)
(* what it decides it decides on the snapshot of its first SELECT (Begin...),  *)
(* what it writes takes effect at its commit (Commit), where a unique key or   *)
(* an UPDATE of a row that is gone loses the request, and where the codes of   *)
(* the withdrawn phone are deleted whatever the snapshot held (Abort, Crash).  *)
EXTENDS Naturals, Sequences, FiniteSets

CONSTANTS
    Phones,          \* phone numbers
    NoPhone,         \* NULL: the phone of a withdrawn account
    Sessions,        \* bound: how many requests overlap
    NoRequest,       \* the session is idle
    MaxAttempts,     \* VERIFICATION_CODE_MAX_ATTEMPTS
    TestCodeAllowed, \* the configuration has a test code for the login
    MaxCodes,        \* bound: rows of auth_phone_verifications
    MaxOverlapCodes, \* the same bound where the requests of the phone overlap
    MaxRows,         \* bound: rows of other tables that an account owns
    MaxAccounts,     \* bound: rows of users
    MaxCrashes       \* bound: how often the process dies

ASSUME AccountsAssumption ==
    /\ NoPhone \notin Phones
    /\ MaxAttempts \in Nat \ {0}
    /\ TestCodeAllowed \in BOOLEAN

VARIABLES
    accounts,   \* the rows of users, in the order of their commits
    codes,      \* the rows of auth_phone_verifications, in the order of sent_at
    session,    \* by session: the request under way, with what it has read
    impatient,  \* the phones whose requests may overlap: chosen once
    crashes

vars == <<accounts, codes, session, impatient, crashes>>

----------------------------------------------------------------------------------
(* The tables.  A row that belongs to an account (user_fcm_tokens,             *)
(* settlement_accounts, terms_agreements: one for each user_id) is a member of *)
(* its rows.  A code whose status is ABSENT has no row: its INSERT is not      *)
(* committed, never will be, or the row was deleted.                           *)
Purposes == {"SIGNUP", "LOGIN"}
Stored == {"PENDING", "VERIFIED", "EXPIRED"}
Rows == {"token", "settlement", "terms"}

NewAccount(p) ==
    [phone |-> p, deleted |-> FALSE, profile |-> TRUE,   \* profile: a name is stored
     rows |-> {}, born |-> p]                            \* born: history, the phone it was made for

NewCode(purpose, p) ==
    [purpose |-> purpose, phone |-> p, status |-> "ABSENT", attempts |-> 0,
     live |-> TRUE,                                      \* expires_at > now
     text |-> "NONE",                                    \* its text message: NONE, QUEUED, SENT or LOST
     wrong |-> 0]                                        \* history: the mismatches it answered

FindUserByPhone(p) == {a \in DOMAIN accounts : accounts[a].phone = p /\ ~accounts[a].deleted}

(* Mutant: get_current_user finds withdrawn users too.                         *)
CurrentUserAny(a) == a \in DOMAIN accounts
GetCurrentUser(a) == a \in DOMAIN accounts /\ ~accounts[a].deleted

Pending(purpose, p) ==
    {c \in DOMAIN codes : /\ codes[c].purpose = purpose
                          /\ codes[c].phone = p
                          /\ codes[c].status = "PENDING"}

(* Mutant: the oldest pending code is compared, not the newest.                *)
TriedOldest(purpose, p) ==
    {c \in Pending(purpose, p) : \A d \in Pending(purpose, p) : c <= d}
(* The code that verify() compares, if there is one.                           *)
Tried(purpose, p) ==
    {c \in Pending(purpose, p) : \A d \in Pending(purpose, p) : d <= c}

HasActivePending(purpose, p) == \E c \in Pending(purpose, p) : codes[c].live

----------------------------------------------------------------------------------
(* A request: what it does at its commit, for which phone, account and code,   *)
(* the attempts it has read, the rows it writes and those of them it has seen. *)
Operations == {"send", "expire", "mismatch", "signup", "login", "update", "profile", "withdraw"}

Request(op, p, a, c, gives) ==
    [op |-> op, phone |-> p, account |-> a, code |-> c,
     attempts |-> IF c = 0 THEN 0 ELSE codes[c].attempts,
     gives |-> gives,
     saw |-> IF a = 0 THEN {} ELSE gives \cap accounts[a].rows]

Quiet(p) == \A s \in Sessions : session[s] # NoRequest => session[s].phone # p

Begin(s, request) ==
    /\ session[s] = NoRequest
    /\ request.phone \in impatient \/ Quiet(request.phone)
    /\ request.gives # {} => Cardinality(request.gives \cup accounts[request.account].rows) <= MaxRows
    /\ session' = [session EXCEPT ![s] = request]
    /\ UNCHANGED <<accounts, impatient, crashes>>

(* The new row takes its place in the order of sent_at before it is committed. *)
BeginSend(s, purpose, p) ==
    /\ ~HasActivePending(purpose, p)
    /\ Len(codes) < IF p \in impatient THEN MaxOverlapCodes ELSE MaxCodes
    /\ codes' = Append(codes, NewCode(purpose, p))
    /\ Begin(s, [op |-> "send", phone |-> p, account |-> 0, code |-> Len(codes) + 1,
                 attempts |-> 0, gives |-> {}, saw |-> {}])

SendSignup(s, p) == FindUserByPhone(p) = {} /\ BeginSend(s, "SIGNUP", p)

SendLogin(s, p) == FindUserByPhone(p) # {} /\ BeginSend(s, "LOGIN", p)

(* verify() when it refuses the code: too late, or not the one that was sent.  *)
BeginRefused(s, purpose, p) ==
    /\ purpose = "LOGIN" => FindUserByPhone(p) # {}
    /\ \E c \in Tried(purpose, p) :
         Begin(s, Request(IF codes[c].live THEN "mismatch" ELSE "expire", p, 0, c, {}))
    /\ UNCHANGED codes

IsLoginTestCodeAllowed == TestCodeAllowed

(* A code is entered by someone who was sent it.                               *)
Known(c) == codes[c].live /\ codes[c].text = "SENT"

BeginConfirmSignup(s, p) ==
    /\ FindUserByPhone(p) = {}
    /\ \E c \in Tried("SIGNUP", p) : Known(c) /\ Begin(s, Request("signup", p, 0, c, {}))
    /\ UNCHANGED codes

(* The device token is optional; the test code is compared with no row.        *)
BeginConfirmLogin(s, p) ==
    \E a \in FindUserByPhone(p), gives \in {{}, {"token"}} :
        /\ \/ \E c \in Tried("LOGIN", p) : Known(c) /\ Begin(s, Request("login", p, a, c, gives))
           \/ IsLoginTestCodeAllowed /\ Begin(s, Request("login", p, a, 0, gives))
        /\ UNCHANGED codes

BeginUpdateProfile(s, a) ==
    GetCurrentUser(a) /\ Begin(s, Request("profile", accounts[a].phone, a, 0, {})) /\ UNCHANGED codes

BeginUpdateFcmToken(s, a) ==
    GetCurrentUser(a) /\ Begin(s, Request("update", accounts[a].phone, a, 0, {"token"})) /\ UNCHANGED codes

BeginSaveAccount(s, a) ==
    GetCurrentUser(a) /\ Begin(s, Request("update", accounts[a].phone, a, 0, {"settlement"})) /\ UNCHANGED codes

BeginAgree(s, a) ==
    GetCurrentUser(a) /\ Begin(s, Request("update", accounts[a].phone, a, 0, {"terms"})) /\ UNCHANGED codes

BeginWithdraw(s, a) ==
    GetCurrentUser(a) /\ Begin(s, Request("withdraw", accounts[a].phone, a, 0, {})) /\ UNCHANGED codes

----------------------------------------------------------------------------------
(* The commits.                                                                *)

(* Mutant: users.phone has no unique key.                                      *)
ConflictsPhoneFree(r) ==
    \/ r.code # 0 /\ r.op # "send" /\ codes[r.code].status = "ABSENT"
    \/ r.account # 0 /\ accounts[r.account].rows \cap r.gives # r.saw
(* What the database refuses: a second account for the phone, the UPDATE of a  *)
(* code or a row that was deleted, a second row for the user_id.               *)
Conflicts(r) ==
    \/ r.op = "signup" /\ \E a \in DOMAIN accounts : accounts[a].phone = r.phone
    \/ r.code # 0 /\ r.op # "send" /\ codes[r.code].status = "ABSENT"
    \/ r.account # 0 /\ accounts[r.account].rows \cap r.gives # r.saw

CommitSend(r) ==
    /\ r.op = "send"
    /\ codes' = [codes EXCEPT ![r.code].status = "PENDING", ![r.code].text = "QUEUED"]
    /\ UNCHANGED accounts

CommitExpired(r) ==
    /\ r.op = "expire"
    /\ codes' = [codes EXCEPT ![r.code].status = "EXPIRED"]
    /\ UNCHANGED accounts

(* Mutant: the attempt is not committed before the error is raised.            *)
CommitMismatchUncounted(r) ==
    /\ r.op = "mismatch"
    /\ codes' = [codes EXCEPT ![r.code].wrong = @ + 1]
    /\ UNCHANGED accounts
(* Mutant: the limit is tested with > instead of >=.                           *)
CommitMismatchOneMore(r) ==
    /\ r.op = "mismatch"
    /\ codes' = [codes EXCEPT ![r.code].attempts = r.attempts + 1,
                              ![r.code].status = IF r.attempts + 1 > MaxAttempts THEN "EXPIRED" ELSE @,
                              ![r.code].wrong = @ + 1]
    /\ UNCHANGED accounts
(* The counter is incremented in the application, from the snapshot; the       *)
(* status is written when it changes only.                                     *)
CommitMismatch(r) ==
    /\ r.op = "mismatch"
    /\ codes' = [codes EXCEPT ![r.code].attempts = r.attempts + 1,
                              ![r.code].status = IF r.attempts + 1 >= MaxAttempts THEN "EXPIRED" ELSE @,
                              ![r.code].wrong = @ + 1]
    /\ UNCHANGED accounts

CommitSignup(r) ==
    /\ r.op = "signup"
    /\ Len(accounts) < MaxAccounts
    /\ codes' = [codes EXCEPT ![r.code].status = "VERIFIED"]
    /\ accounts' = Append(accounts, NewAccount(r.phone))

CommitLogin(r) ==
    /\ r.op = "login"
    /\ codes' = [c \in DOMAIN codes |->
          IF c = r.code THEN [codes[c] EXCEPT !.status = "VERIFIED"] ELSE codes[c]]
    /\ accounts' = [accounts EXCEPT ![r.account].rows = @ \cup r.gives]

CommitUpdate(r) ==
    /\ r.op = "update"
    /\ accounts' = [accounts EXCEPT ![r.account].rows = @ \cup r.gives]
    /\ UNCHANGED codes

(* update_name and update_alarm write their column, and test deleted no more.  *)
CommitProfile(r) ==
    /\ r.op = "profile"
    /\ accounts' = [accounts EXCEPT ![r.account].profile = TRUE]
    /\ UNCHANGED codes

(* The account as the withdrawal leaves it: the agreement to the terms stays.  *)
Withdrawn(account) ==
    [account EXCEPT !.phone = NoPhone, !.deleted = TRUE, !.profile = FALSE, !.rows = @ \cap {"terms"}]

(* The row is deleted, and nothing of it matters any more.                     *)
Deleted(code) == [code EXCEPT !.status = "ABSENT", !.attempts = 0, !.live = FALSE, !.text = "NONE"]

(* Mutant: the codes of the phone are kept.                                    *)
CommitWithdrawKeepsCodes(r) ==
    /\ r.op = "withdraw"
    /\ accounts' = [accounts EXCEPT ![r.account] = Withdrawn(@)]
    /\ UNCHANGED codes
CommitWithdraw(r) ==
    /\ r.op = "withdraw"
    /\ accounts' = [accounts EXCEPT ![r.account] = Withdrawn(@)]
    /\ codes' = [c \in DOMAIN codes |->
          IF codes[c].phone = r.phone /\ codes[c].status \in Stored
          THEN Deleted(codes[c]) ELSE codes[c]]

Finish(s) == session' = [session EXCEPT ![s] = NoRequest] /\ UNCHANGED <<impatient, crashes>>

Commit(s) ==
    /\ session[s] # NoRequest
    /\ ~Conflicts(session[s])
    /\ \/ CommitSend(session[s])
       \/ CommitExpired(session[s])
       \/ CommitMismatch(session[s])
       \/ CommitSignup(session[s])
       \/ CommitLogin(session[s])
       \/ CommitUpdate(session[s])
       \/ CommitProfile(session[s])
       \/ CommitWithdraw(session[s])
    /\ Finish(s)

(* A conflict, a deadlock or a lost connection: get_db closes the session,     *)
(* which rolls back.                                                           *)
Abort(s) ==
    /\ session[s] # NoRequest
    /\ codes' = [c \in DOMAIN codes |->
          IF session[s].op = "send" /\ c = session[s].code THEN Deleted(codes[c]) ELSE codes[c]]
    /\ Finish(s)
    /\ UNCHANGED accounts

----------------------------------------------------------------------------------
(* The text message is a background task of the process: its errors are        *)
(* logged, and a crash loses it.                                               *)
SendSmsSafely(c) ==
    /\ codes[c].text = "QUEUED"
    /\ \E outcome \in {"SENT", "LOST"} : codes' = [codes EXCEPT ![c].text = outcome]
    /\ UNCHANGED <<accounts, session, impatient, crashes>>

(* Every code has the same VERIFICATION_CODE_TTL: they end in their order.     *)
TtlEnds(c) ==
    /\ codes[c].live
    /\ \A d \in 1..(c - 1) : ~codes[d].live
    /\ codes' = [codes EXCEPT ![c].live = FALSE]
    /\ UNCHANGED <<accounts, session, impatient, crashes>>

Crash ==
    /\ crashes < MaxCrashes
    /\ crashes' = crashes + 1
    /\ session' = [s \in Sessions |-> NoRequest]
    /\ codes' = [c \in DOMAIN codes |->
          IF codes[c].text = "QUEUED" THEN [codes[c] EXCEPT !.text = "LOST"] ELSE codes[c]]
    /\ UNCHANGED <<accounts, impatient>>

----------------------------------------------------------------------------------
Init ==
    /\ accounts = <<>>
    /\ codes = <<>>
    /\ session = [s \in Sessions |-> NoRequest]
    /\ impatient \in SUBSET Phones
    /\ crashes = 0

Next ==
    \/ \E s \in Sessions, p \in Phones :
          \/ SendSignup(s, p) \/ SendLogin(s, p)
          \/ \E purpose \in Purposes : BeginRefused(s, purpose, p)
          \/ BeginConfirmSignup(s, p) \/ BeginConfirmLogin(s, p)
    \/ \E s \in Sessions, a \in DOMAIN accounts :
          \/ BeginUpdateProfile(s, a) \/ BeginUpdateFcmToken(s, a) \/ BeginSaveAccount(s, a)
          \/ BeginAgree(s, a) \/ BeginWithdraw(s, a)
    \/ \E s \in Sessions : Commit(s) \/ Abort(s)
    \/ \E c \in DOMAIN codes : SendSmsSafely(c) \/ TtlEnds(c)
    \/ Crash

Spec == Init /\ [][Next]_vars

==================================================================================
