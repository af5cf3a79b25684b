----------------------------- MODULE AccountProofs ------------------------------
(* The accounts and the codes, for any phones, sessions, limits and bounds:    *)
(* what holds for every phone, and what a phone gains by waiting for answers.  *)
EXTENDS AccountProperties, TLAPS, FiniteSetTheorems, SequenceTheorems

AccountRows == [phone : Phones \cup {NoPhone}, deleted : BOOLEAN, profile : BOOLEAN,
                rows : SUBSET Rows, born : Phones]
CodeRows == [purpose : Purposes, phone : Phones, status : Stored \cup {"ABSENT"},
             attempts : 0..MaxAttempts, live : BOOLEAN,
             text : {"NONE", "QUEUED", "SENT", "LOST"}, wrong : Nat]
RequestRows == [op : Operations, phone : Phones, account : Nat, code : Nat,
                attempts : 0..MaxAttempts, gives : SUBSET Rows, saw : SUBSET Rows]

Typed ==
    /\ accounts \in Seq(AccountRows) /\ codes \in Seq(CodeRows)
    /\ session \in [Sessions -> RequestRows \cup {NoRequest}]
    /\ impatient \subseteq Phones

CodeOps == {"send", "expire", "mismatch", "signup"}    \* they are about a code
AccountOps == {"login", "update", "profile", "withdraw"}   \* about an account

(* What any request under way knows of the rows it names. *)
Knows(r) ==
    /\ r.account \in DOMAIN accounts \cup {0} /\ r.code \in DOMAIN codes \cup {0}
    /\ r.op \in AccountOps => r.account # 0
    /\ r.op \in CodeOps => r.code # 0 /\ r.account = 0
    /\ r.op \in {"update", "profile", "withdraw"} => r.code = 0
    /\ r.account # 0 => accounts[r.account].born = r.phone
    /\ r.code # 0 => codes[r.code].phone = r.phone
    /\ r.op = "mismatch" => r.attempts < MaxAttempts
    /\ r.op = "send" => /\ codes[r.code].status = "ABSENT"
                        /\ codes[r.code].attempts = 0 /\ codes[r.code].wrong = 0
    /\ r.op = "signup" => codes[r.code].purpose = "SIGNUP"
    /\ r.op = "login" /\ r.code # 0 => codes[r.code].purpose = "LOGIN"

(* What the only request of a phone knows besides: its rows are as they were.  *)
StillReads(r) ==
    /\ r.account # 0 => ~accounts[r.account].deleted
    /\ r.op = "send" =>
        /\ \A c \in DOMAIN codes : codes[c].phone = r.phone => c <= r.code
        /\ \A c \in Pending(codes[r.code].purpose, r.phone) : ~codes[c].live
        /\ codes[r.code].purpose = "LOGIN" => FindUserByPhone(r.phone) # {}
    /\ r.op # "send" /\ r.code # 0 =>
        codes[r.code].status = "PENDING" /\ r.attempts = codes[r.code].attempts
    /\ r.op = "signup" => FindUserByPhone(r.phone) = {} /\ codes[r.code].text = "SENT"

RequestsKnow ==
    \A s \in Sessions : session[s] # NoRequest =>
        Knows(session[s]) /\ (session[s].phone \in Patient => StillReads(session[s]))

(* No two requests insert the same code, or are of the same patient phone.     *)
RequestsApart ==
    \A s, t \in Sessions : session[s] # NoRequest /\ session[t] # NoRequest /\ s # t =>
        /\ session[s].op = "send" /\ session[t].op = "send" => session[s].code # session[t].code
        /\ session[s].phone = session[t].phone => session[s].phone \notin Patient

AccountsKept ==
    /\ OneAccountPerPhone /\ WithdrawnLeavesNothing
    /\ \A a \in DOMAIN accounts : accounts[a].phone \in {accounts[a].born, NoPhone}

(* A code that can be tried has attempts left; a patient phone's code counts   *)
(* each of its mismatches.                                                     *)
CodesCount ==
    \A c \in DOMAIN codes :
        /\ codes[c].status \in {"PENDING", "ABSENT"} => codes[c].attempts < MaxAttempts
        /\ codes[c].phone \in Patient =>
            /\ codes[c].status \in Stored => codes[c].wrong = codes[c].attempts
            /\ codes[c].wrong <= MaxAttempts

VerifiedSignups(p) ==
    {c \in DOMAIN codes :
        codes[c].phone = p /\ codes[c].purpose = "SIGNUP" /\ codes[c].status = "VERIFIED"}

(* The codes of a patient phone and its account. *)
PhoneKept(p) ==
    /\ VerifiedSignups(p) = {} <=> FindUserByPhone(p) = {}
    /\ \A c, d \in VerifiedSignups(p) : c = d
    /\ \A c \in VerifiedSignups(p) : codes[c].text = "SENT"
    /\ FindUserByPhone(p) = {} =>
        ~\E c \in DOMAIN codes :
            codes[c].phone = p /\ codes[c].purpose = "LOGIN" /\ codes[c].status \in Stored
    /\ \A purpose \in Purposes : \A c, d \in Pending(purpose, p) : codes[c].live => d <= c

PhonesKept == \A p \in Patient : PhoneKept(p)

AccountInv ==
    /\ Typed /\ RequestsKnow /\ RequestsApart
    /\ AccountsKept /\ CodesCount /\ PhonesKept

--------------------------------------------------------------------------------
(* Steps.  What no step changes of a row, and a step that is about no phone    *)
(* but one.                                                                    *)

HistoryKept ==
    /\ DOMAIN accounts \subseteq DOMAIN accounts' /\ DOMAIN codes \subseteq DOMAIN codes'
    /\ \A a \in DOMAIN accounts : accounts'[a].born = accounts[a].born
    /\ \A c \in DOMAIN codes : /\ codes'[c].phone = codes[c].phone
                              /\ codes'[c].purpose = codes[c].purpose

Untouched(p) ==
    /\ \A a \in DOMAIN accounts' : accounts'[a].born = p =>
          a \in DOMAIN accounts /\ accounts'[a] = accounts[a]
    /\ \A c \in DOMAIN codes' : codes'[c].phone = p =>
          c \in DOMAIN codes /\ codes'[c] = codes[c]

OnlyPhone(p) == HistoryKept /\ \A q \in Phones \ {p} : Untouched(q)

(* No row is stored under the feet of the request that is about to insert it.  *)
InsertsKept(r) ==
    \A c \in DOMAIN codes : codes[c].status = "ABSENT" /\ (r.op = "send" => c # r.code) =>
        /\ codes'[c].status = "ABSENT"
        /\ codes'[c].attempts = codes[c].attempts /\ codes'[c].wrong = codes[c].wrong

LEMMA TablesTyped ==
  ASSUME Typed
  PROVE  /\ \A a \in DOMAIN accounts : accounts[a] \in AccountRows
         /\ \A c \in DOMAIN codes : codes[c] \in CodeRows
         /\ Len(accounts) \in Nat /\ DOMAIN accounts = 1..Len(accounts)
         /\ Len(codes) \in Nat /\ DOMAIN codes = 1..Len(codes)
  BY LenProperties, ElementOfSeq DEF Typed

(* A table whose rows are rewritten in place.                                  *)
LEMMA Rewritten ==
  ASSUME NEW S, NEW s \in Seq(S), NEW f \in [DOMAIN s -> S]
  PROVE  f \in Seq(S) /\ Len(f) = Len(s) /\ DOMAIN f = DOMAIN s
<1>1. Len(s) \in Nat /\ DOMAIN s = 1..Len(s)
  BY LenProperties
<1>2. f \in [1..Len(s) -> S]
  BY <1>1
<1>3. f \in Seq(S)
  BY <1>1, <1>2
<1>4. DOMAIN f = 1..Len(s) /\ DOMAIN f = 1..Len(f) /\ Len(f) \in Nat
  BY <1>2, <1>3, LenProperties
<1>5. QED
  BY <1>1, <1>3, <1>4

LEMMA FoundKept ==
  ASSUME Typed, Typed', AccountsKept, AccountsKept', HistoryKept,
         NEW p \in Phones, Untouched(p)
  PROVE  FindUserByPhone(p)' = FindUserByPhone(p)
<1>1. p # NoPhone
  BY AccountsAssumption
<1>2. QED
  BY <1>1 DEF FindUserByPhone, AccountsKept, HistoryKept, Untouched

LEMMA PhoneKeptLater ==
  ASSUME Typed, Typed', AccountsKept, AccountsKept', HistoryKept,
         NEW p \in Phones, Untouched(p), PhoneKept(p)
  PROVE  PhoneKept(p)'
<1>1. FindUserByPhone(p)' = FindUserByPhone(p)
  BY FoundKept
<1>2. VerifiedSignups(p)' = VerifiedSignups(p)
  BY DEF VerifiedSignups, HistoryKept, Untouched
<1>3. \A purpose \in Purposes : Pending(purpose, p)' = Pending(purpose, p)
  BY DEF Pending, HistoryKept, Untouched
<1>4. \A c \in DOMAIN codes' : codes'[c].phone = p => c \in DOMAIN codes /\ codes'[c] = codes[c]
  BY DEF Untouched
<1>5. QED
  BY <1>1, <1>2, <1>3, <1>4 DEF PhoneKept, VerifiedSignups, Pending

LEMMA StillReadsLater ==
  ASSUME Typed, Typed', AccountsKept, AccountsKept', HistoryKept,
         NEW r \in RequestRows, Knows(r), Untouched(r.phone), StillReads(r)
  PROVE  StillReads(r)'
<1>1. r.phone \in Phones /\ r.account \in Nat /\ r.code \in Nat
  BY DEF RequestRows
<1>2. FindUserByPhone(r.phone)' = FindUserByPhone(r.phone)
  BY <1>1, FoundKept
<1>3. \A purpose \in Purposes : Pending(purpose, r.phone)' = Pending(purpose, r.phone)
  BY DEF Pending, HistoryKept, Untouched
<1>4. r.account # 0 => /\ r.account \in DOMAIN accounts /\ r.account \in DOMAIN accounts'
                       /\ accounts'[r.account] = accounts[r.account]
  BY DEF Knows, HistoryKept, Untouched
<1>5. r.code # 0 => /\ r.code \in DOMAIN codes /\ r.code \in DOMAIN codes'
                    /\ codes'[r.code] = codes[r.code]
  BY DEF Knows, HistoryKept, Untouched
<1>6. r.op \in {"send", "signup"} => r.code # 0
  BY DEF Knows, CodeOps
<1>7. r.op = "send" => codes[r.code].purpose \in Purposes
  BY <1>5, <1>6, TablesTyped DEF CodeRows
<1>8. \A c \in DOMAIN codes' : codes'[c].phone = r.phone =>
        c \in DOMAIN codes /\ codes'[c] = codes[c]
  BY DEF Untouched
<1>9. r.op = "send" => StillReads(r)'
  BY <1>2, <1>3, <1>4, <1>5, <1>6, <1>7, <1>8 DEF StillReads, Pending
<1>10. r.op # "send" => StillReads(r)'
  BY <1>2, <1>4, <1>5, <1>6 DEF StillReads
<1>11. QED
  BY <1>9, <1>10

LEMMA KnowsLater ==
  ASSUME Typed, Typed', HistoryKept, NEW r \in RequestRows, Knows(r),
         r.op = "send" => /\ codes'[r.code].status = "ABSENT"
                          /\ codes'[r.code].attempts = 0 /\ codes'[r.code].wrong = 0
  PROVE  Knows(r)'
<1>1. r.account \in Nat /\ r.code \in Nat
  BY DEF RequestRows
<1>2. QED
  BY <1>1 DEF Knows, HistoryKept, CodeOps

--------------------------------------------------------------------------------
(* The end of a request.  A commit or a rollback that is about its own phone   *)
(* takes nothing away that another request has read.                           *)

Ends(s) == session' = [session EXCEPT ![s] = NoRequest] /\ impatient' = impatient

LEMMA EndKeeps ==
  ASSUME AccountInv, Typed', AccountsKept', CodesCount', NEW s \in Sessions, Ends(s),
         NEW o, o = session[s], o # NoRequest, OnlyPhone(o.phone), InsertsKept(o),
         o.phone \in Patient => PhoneKept(o.phone)'
  PROVE  AccountInv'
<1> USE DEF AccountInv
<1>1. session[s] \in RequestRows /\ Patient' = Patient
  BY DEF Typed, Ends, Patient
<1>2. \A t \in Sessions : session'[t] # NoRequest =>
        t # s /\ session'[t] = session[t] /\ session[t] \in RequestRows
  BY DEF Typed, Ends
<1>3. HistoryKept
  BY DEF OnlyPhone
<1>4. ASSUME NEW t \in Sessions, session'[t] # NoRequest
      PROVE  Knows(session[t])' /\ (session[t].phone \in Patient => StillReads(session[t])')
  <2>1. PICK r : r = session[t]
    OBVIOUS
  <2>2. /\ r \in RequestRows /\ Knows(r) /\ t # s
        /\ r.phone \in Patient => StillReads(r) /\ r.phone # o.phone
    BY <1>2, <1>4, <2>1 DEF RequestsKnow, RequestsApart
  <2>3. r.op = "send" => /\ codes'[r.code].status = "ABSENT"
                         /\ codes'[r.code].attempts = 0 /\ codes'[r.code].wrong = 0
    <3>1. SUFFICES ASSUME r.op = "send"
                   PROVE  /\ r.code \in DOMAIN codes /\ codes[r.code].status = "ABSENT"
                          /\ codes[r.code].attempts = 0 /\ codes[r.code].wrong = 0
                          /\ o.op = "send" => r.code # o.code
      BY DEF InsertsKept
    <3>2. QED
      BY <2>1, <2>2, <3>1, <1>2, <1>4 DEF Knows, CodeOps, RequestsApart
  <2>4. Knows(r)'
    BY <1>3, <2>2, <2>3, KnowsLater
  <2>5. r.phone \in Patient => StillReads(r)'
    BY <1>3, <2>2, StillReadsLater DEF OnlyPhone, Patient
  <2>6. session'[t] = r
    BY <1>2, <1>4, <2>1
  <2>7. QED
    BY <2>1, <2>4, <2>5, <2>6, <1>1, <1>2, <1>4
<1>5. RequestsKnow'
  BY <1>1, <1>2, <1>4 DEF RequestsKnow
<1>6. RequestsApart'
  BY <1>1, <1>2 DEF RequestsApart
<1>7. PhonesKept'
  <2>1. ASSUME NEW p \in Patient, p # o.phone PROVE PhoneKept(p)'
    BY <1>3, <2>1, PhoneKeptLater DEF PhonesKept, OnlyPhone, Patient
  <2>2. QED
    BY <1>1, <2>1 DEF PhonesKept
<1>8. QED
  BY <1>5, <1>6, <1>7

LEMMA RewriteTyped ==
  ASSUME Typed, NEW s \in Sessions, Ends(s), NEW p \in Phones,
         accounts' \in [DOMAIN accounts -> AccountRows], codes' \in [DOMAIN codes -> CodeRows],
         \A a \in DOMAIN accounts : /\ accounts'[a].born = accounts[a].born
                                    /\ accounts[a].born # p => accounts'[a] = accounts[a],
         \A c \in DOMAIN codes : /\ codes'[c].phone = codes[c].phone
                                 /\ codes'[c].purpose = codes[c].purpose
                                 /\ codes[c].phone # p => codes'[c] = codes[c]
  PROVE  /\ Typed' /\ OnlyPhone(p)
         /\ DOMAIN accounts' = DOMAIN accounts /\ DOMAIN codes' = DOMAIN codes
<1>1. accounts' \in Seq(AccountRows) /\ codes' \in Seq(CodeRows)
  BY Rewritten DEF Typed
<1>2. Typed'
  BY <1>1 DEF Typed, Ends, AccountRows, CodeRows, RequestRows
<1>3. DOMAIN accounts' = DOMAIN accounts /\ DOMAIN codes' = DOMAIN codes
  OBVIOUS
<1>4. OnlyPhone(p)
  BY <1>3 DEF OnlyPhone, HistoryKept, Untouched
<1>5. QED
  BY <1>2, <1>3, <1>4

(* What an ending request is known to know.                                    *)
LEMMA EndingKnows ==
  ASSUME AccountInv, NEW s \in Sessions, NEW o, o = session[s], o # NoRequest
  PROVE  /\ o \in RequestRows /\ o.phone \in Phones /\ Knows(o)
         /\ o.phone \in Patient => StillReads(o)
  BY DEF AccountInv, Typed, RequestRows, RequestsKnow

(* The codes alone are rewritten: the accounts are kept as they are. *)
LEMMA AccountsStay ==
  ASSUME AccountsKept, accounts' = accounts, impatient' = impatient
  PROVE  AccountsKept' /\ \A p \in Phones : FindUserByPhone(p)' = FindUserByPhone(p)
  BY DEF AccountsKept, OneAccountPerPhone, WithdrawnLeavesNothing, FindUserByPhone, Patient

(* One code is rewritten by the request that names it. *)
LEMMA CodeRewritten ==
  ASSUME Typed, NEW s \in Sessions, Ends(s), accounts' = accounts,
         NEW k \in DOMAIN codes, NEW new \in CodeRows, codes' = [codes EXCEPT ![k] = new],
         new.phone = codes[k].phone, new.purpose = codes[k].purpose
  PROVE  /\ Typed' /\ OnlyPhone(new.phone) /\ DOMAIN codes' = DOMAIN codes
         /\ codes'[k] = new /\ \A c \in DOMAIN codes : c # k => codes'[c] = codes[c]
         /\ \A c \in DOMAIN codes :
               codes'[c].phone = codes[c].phone /\ codes'[c].purpose = codes[c].purpose
<1>1. codes'[k] = new /\ \A c \in DOMAIN codes : c # k => codes'[c] = codes[c]
  OBVIOUS
<1>2. new.phone \in Phones
  BY DEF CodeRows
<1>3. codes' \in [DOMAIN codes -> CodeRows] /\ accounts' \in [DOMAIN accounts -> AccountRows]
  BY TablesTyped DEF Typed
<1>4. \A c \in DOMAIN codes : /\ codes'[c].phone = codes[c].phone
                              /\ codes'[c].purpose = codes[c].purpose
                              /\ codes[c].phone # new.phone => codes'[c] = codes[c]
  BY <1>1
<1>5. QED
  BY <1>1, <1>2, <1>3, <1>4, RewriteTyped

LEMMA CommitSendKeeps ==
  ASSUME AccountInv, NEW s \in Sessions, Ends(s),
         NEW o, o = session[s], o # NoRequest, CommitSend(o)
  PROVE  AccountInv'
<1> DEFINE k == o.code
           new == [codes[k] EXCEPT !.status = "PENDING", !.text = "QUEUED"]
<1> USE DEF AccountInv
<1>1. /\ o \in RequestRows /\ o.phone \in Phones /\ Knows(o) /\ o.op = "send"
      /\ o.phone \in Patient => StillReads(o)
  BY EndingKnows DEF CommitSend
<1>2. /\ k \in DOMAIN codes /\ codes[k] \in CodeRows /\ codes[k].phone = o.phone
      /\ codes[k].status = "ABSENT" /\ codes[k].attempts = 0 /\ codes[k].wrong = 0
  BY <1>1, TablesTyped DEF Knows, CodeOps
<1>3. /\ new \in CodeRows /\ new.phone = o.phone /\ new.purpose = codes[k].purpose
      /\ new.status = "PENDING" /\ new.attempts = 0 /\ new.wrong = 0
  BY <1>2 DEF CodeRows, Stored
<1>4. accounts' = accounts /\ codes' = [codes EXCEPT ![k] = new]
  BY <1>2 DEF CommitSend, CodeRows
<1> HIDE DEF k, new
<1>5. /\ Typed' /\ OnlyPhone(o.phone) /\ DOMAIN codes' = DOMAIN codes
      /\ codes'[k] = new /\ \A c \in DOMAIN codes : c # k => codes'[c] = codes[c]
      /\ \A c \in DOMAIN codes :
            codes'[c].phone = codes[c].phone /\ codes'[c].purpose = codes[c].purpose
  BY <1>2, <1>3, <1>4, CodeRewritten
<1>6. InsertsKept(o)
  BY <1>1, <1>5 DEF InsertsKept, k
<1>7. AccountsKept' /\ FindUserByPhone(o.phone)' = FindUserByPhone(o.phone)
  BY <1>1, <1>4, AccountsStay DEF Ends
<1>8. CodesCount'
  BY <1>2, <1>3, <1>5, AccountsAssumption DEF CodesCount, Stored, Ends, Patient
<1>9. ASSUME o.phone \in Patient PROVE PhoneKept(o.phone)'
  <2>1. StillReads(o) /\ PhoneKept(o.phone)
    BY <1>1, <1>9 DEF PhonesKept
  <2>2. VerifiedSignups(o.phone)' = VerifiedSignups(o.phone)
    BY <1>2, <1>3, <1>5 DEF VerifiedSignups
  <2>3. \A c \in VerifiedSignups(o.phone) : codes'[c].text = codes[c].text
    BY <1>2, <1>5 DEF VerifiedSignups
  <2>4. \A purpose \in Purposes : \A c, d \in Pending(purpose, o.phone)' :
           codes'[c].live => d <= c
    <3> SUFFICES ASSUME NEW purpose \in Purposes, NEW c \in Pending(purpose, o.phone)',
                        NEW d \in Pending(purpose, o.phone)', codes'[c].live
                 PROVE  d <= c
      OBVIOUS
    <3>1. /\ c \in DOMAIN codes /\ d \in DOMAIN codes /\ c \in Nat /\ d \in Nat
          /\ codes[c].phone = o.phone /\ codes[d].phone = o.phone
          /\ codes[c].purpose = purpose /\ codes[d].purpose = purpose
      BY <1>5, TablesTyped DEF Pending
    <3>2. d <= k
      BY <1>1, <2>1, <3>1 DEF StillReads, k
    <3>3. c # k => c \in Pending(purpose, o.phone) /\ codes[c].live
      BY <1>5, <3>1 DEF Pending
    <3>4. c # k => codes[k].purpose # purpose
      BY <1>1, <2>1, <3>3 DEF StillReads, k
    <3>5. c # k => d \in Pending(purpose, o.phone)
      BY <1>5, <3>1, <3>4 DEF Pending
    <3>6. QED
      BY <3>1, <3>2, <3>3, <3>5, <2>1 DEF PhoneKept
  <2>5. FindUserByPhone(o.phone)' = {} =>
          ~\E c \in DOMAIN codes' : /\ codes'[c].phone = o.phone /\ codes'[c].purpose = "LOGIN"
                                    /\ codes'[c].status \in Stored
    <3>1. codes[k].purpose = "LOGIN" => FindUserByPhone(o.phone) # {}
      BY <1>1, <2>1 DEF StillReads, k
    <3>2. QED
      BY <1>3, <1>5, <1>7, <2>1, <3>1 DEF PhoneKept
  <2>6. QED
    BY <1>7, <2>1, <2>2, <2>3, <2>4, <2>5 DEF PhoneKept
<1>10. QED
  BY <1>1, <1>5, <1>6, <1>7, <1>8, <1>9, EndKeeps

(* A code that is tried and refused may end, and then is pending no more.      *)
LEMMA TriedKeeps ==
  ASSUME NEW p \in Phones, PhoneKept(p), FindUserByPhone(p)' = FindUserByPhone(p),
         NEW k \in DOMAIN codes, codes[k].status = "PENDING", DOMAIN codes' = DOMAIN codes,
         codes'[k].phone = codes[k].phone, codes'[k].purpose = codes[k].purpose,
         codes'[k].live = codes[k].live, codes'[k].status \in {"PENDING", "EXPIRED"},
         \A c \in DOMAIN codes : c # k => codes'[c] = codes[c]
  PROVE  PhoneKept(p)'
<1>1. VerifiedSignups(p)' = VerifiedSignups(p) /\ \A c \in VerifiedSignups(p) : c # k
  BY DEF VerifiedSignups
<1>2. \A purpose \in Purposes : Pending(purpose, p)' \subseteq Pending(purpose, p)
  BY DEF Pending
<1>3. \A c \in DOMAIN codes : codes'[c].status \in Stored => codes[c].status \in Stored
  BY DEF Stored
<1>4. \A c \in VerifiedSignups(p) : codes'[c].text = codes[c].text
  BY <1>1 DEF VerifiedSignups
<1>5. \A purpose \in Purposes : \A c, d \in Pending(purpose, p)' : codes'[c].live => d <= c
  BY <1>2 DEF PhoneKept, Pending
<1>6. FindUserByPhone(p)' = {} =>
        ~\E c \in DOMAIN codes' : /\ codes'[c].phone = p /\ codes'[c].purpose = "LOGIN"
                                  /\ codes'[c].status \in Stored
  BY <1>3 DEF PhoneKept
<1>7. QED
  BY <1>1, <1>4, <1>5, <1>6 DEF PhoneKept

LEMMA CommitExpiredKeeps ==
  ASSUME AccountInv, NEW s \in Sessions, Ends(s),
         NEW o, o = session[s], o # NoRequest, ~Conflicts(o), CommitExpired(o)
  PROVE  AccountInv'
<1> DEFINE k == o.code
           new == [codes[k] EXCEPT !.status = "EXPIRED"]
<1> USE DEF AccountInv
<1>1. /\ o \in RequestRows /\ o.phone \in Phones /\ Knows(o) /\ o.op = "expire"
      /\ o.phone \in Patient => StillReads(o)
  BY EndingKnows DEF CommitExpired
<1>2. /\ k \in DOMAIN codes /\ k # 0 /\ codes[k] \in CodeRows /\ codes[k].phone = o.phone
      /\ codes[k].status # "ABSENT"
  BY <1>1, TablesTyped DEF Knows, CodeOps, Conflicts
<1>3. /\ new \in CodeRows /\ new.phone = o.phone /\ new.purpose = codes[k].purpose
      /\ new.status = "EXPIRED" /\ new.attempts = codes[k].attempts /\ new.wrong = codes[k].wrong
      /\ new.live = codes[k].live
  BY <1>2 DEF CodeRows, Stored
<1>4. accounts' = accounts /\ codes' = [codes EXCEPT ![k] = new]
  BY <1>2 DEF CommitExpired
<1>5. o.phone \in Patient => codes[k].status = "PENDING"
  BY <1>1, <1>2 DEF StillReads
<1> HIDE DEF k, new
<1>6. /\ Typed' /\ OnlyPhone(o.phone) /\ DOMAIN codes' = DOMAIN codes
      /\ codes'[k] = new /\ \A c \in DOMAIN codes : c # k => codes'[c] = codes[c]
  BY <1>2, <1>3, <1>4, CodeRewritten
<1>7. InsertsKept(o)
  BY <1>1, <1>2, <1>6 DEF InsertsKept
<1>8. AccountsKept' /\ FindUserByPhone(o.phone)' = FindUserByPhone(o.phone)
  BY <1>1, <1>4, AccountsStay DEF Ends
<1>9. CodesCount'
  BY <1>2, <1>3, <1>5, <1>6, AccountsAssumption DEF CodesCount, Stored, Ends, Patient
<1>10. o.phone \in Patient => PhoneKept(o.phone)'
  BY <1>1, <1>2, <1>3, <1>5, <1>6, <1>8, TriedKeeps DEF PhonesKept
<1>11. QED
  BY <1>1, <1>6, <1>7, <1>8, <1>9, <1>10, EndKeeps

LEMMA CommitMismatchKeeps ==
  ASSUME AccountInv, NEW s \in Sessions, Ends(s),
         NEW o, o = session[s], o # NoRequest, ~Conflicts(o), CommitMismatch(o)
  PROVE  AccountInv'
<1> DEFINE k == o.code
           ends == o.attempts + 1 >= MaxAttempts
           new == [codes[k] EXCEPT !.attempts = o.attempts + 1,
                                   !.status = IF ends THEN "EXPIRED" ELSE @,
                                   !.wrong = @ + 1]
<1> USE DEF AccountInv
<1>1. /\ o \in RequestRows /\ o.phone \in Phones /\ Knows(o) /\ o.op = "mismatch"
      /\ o.phone \in Patient => StillReads(o)
      /\ o.attempts \in Nat /\ o.attempts < MaxAttempts
  BY EndingKnows DEF CommitMismatch, Knows, RequestRows
<1>2. /\ k \in DOMAIN codes /\ k # 0 /\ codes[k] \in CodeRows /\ codes[k].phone = o.phone
      /\ codes[k].status # "ABSENT" /\ codes[k].wrong \in Nat
  BY <1>1, TablesTyped DEF Knows, CodeOps, Conflicts, CodeRows
<1>3. /\ new.phone = o.phone /\ new.purpose = codes[k].purpose /\ new.live = codes[k].live
      /\ new.status = (IF ends THEN "EXPIRED" ELSE codes[k].status)
      /\ new.attempts = o.attempts + 1 /\ new.wrong = codes[k].wrong + 1
  BY <1>2 DEF CodeRows
<1>4. new \in CodeRows
  <2>1. o.attempts + 1 \in 0..MaxAttempts /\ codes[k].wrong + 1 \in Nat
    BY <1>1, <1>2, AccountsAssumption
  <2>2. (IF ends THEN "EXPIRED" ELSE codes[k].status) \in Stored \cup {"ABSENT"}
    BY <1>2 DEF CodeRows, Stored
  <2> HIDE DEF k, ends
  <2>3. QED
    BY <1>2, <2>1, <2>2 DEF CodeRows
<1>5. accounts' = accounts /\ codes' = [codes EXCEPT ![k] = new]
  BY <1>2 DEF CommitMismatch, CodeRows
<1>6. o.phone \in Patient => codes[k].status = "PENDING" /\ o.attempts = codes[k].attempts
  BY <1>1, <1>2 DEF StillReads
<1> HIDE DEF k, new
<1>7. /\ Typed' /\ OnlyPhone(o.phone) /\ DOMAIN codes' = DOMAIN codes
      /\ codes'[k] = new /\ \A c \in DOMAIN codes : c # k => codes'[c] = codes[c]
  BY <1>2, <1>3, <1>4, <1>5, CodeRewritten
<1>8. InsertsKept(o)
  BY <1>1, <1>2, <1>7 DEF InsertsKept
<1>9. AccountsKept' /\ FindUserByPhone(o.phone)' = FindUserByPhone(o.phone)
  BY <1>1, <1>5, AccountsStay DEF Ends
<1>10. CodesCount'
  <2>1. new.status \in {"PENDING", "ABSENT"} => new.attempts < MaxAttempts
    BY <1>1, <1>3, AccountsAssumption
  <2>2. o.phone \in Patient => new.wrong = new.attempts /\ new.wrong <= MaxAttempts
    BY <1>1, <1>2, <1>3, <1>6, AccountsAssumption DEF CodesCount, Stored
  <2>3. QED
    BY <1>3, <1>7, <2>1, <2>2 DEF CodesCount, Ends, Patient
<1>11. o.phone \in Patient => PhoneKept(o.phone)'
  BY <1>1, <1>2, <1>3, <1>6, <1>7, <1>9, TriedKeeps DEF PhonesKept
<1>12. QED
  BY <1>1, <1>7, <1>8, <1>9, <1>10, <1>11, EndKeeps

(* One account is rewritten; it stays alive or withdrawn, as it was.           *)
LEMMA AccountRewritten ==
  ASSUME Typed, AccountsKept, impatient' = impatient,
         NEW k \in DOMAIN accounts, NEW new \in AccountRows, accounts' = [accounts EXCEPT ![k] = new],
         new.phone = accounts[k].phone, new.deleted = accounts[k].deleted,
         new.born = accounts[k].born, new.born \in Patient => ~new.deleted
  PROVE  /\ accounts' \in [DOMAIN accounts -> AccountRows] /\ AccountsKept'
         /\ \A p \in Phones : FindUserByPhone(p)' = FindUserByPhone(p)
         /\ \A a \in DOMAIN accounts : /\ accounts'[a].born = accounts[a].born
                                       /\ accounts[a].born # new.born => accounts'[a] = accounts[a]
<1>1. /\ DOMAIN accounts' = DOMAIN accounts /\ accounts'[k] = new
      /\ \A a \in DOMAIN accounts : a # k => accounts'[a] = accounts[a]
  OBVIOUS
<1>2. accounts' \in [DOMAIN accounts -> AccountRows]
  BY TablesTyped DEF Typed
<1>3. \A a \in DOMAIN accounts : /\ accounts'[a].phone = accounts[a].phone
                                 /\ accounts'[a].deleted = accounts[a].deleted
                                 /\ accounts'[a].born = accounts[a].born
  BY <1>1
<1>4. Patient' = Patient
  BY DEF Patient
<1>5. OneAccountPerPhone'
  BY <1>1, <1>3 DEF AccountsKept, OneAccountPerPhone
<1>6. WithdrawnLeavesNothing'
  BY <1>1, <1>4 DEF AccountsKept, WithdrawnLeavesNothing
<1>7. \A a \in DOMAIN accounts' : accounts'[a].phone \in {accounts'[a].born, NoPhone}
  BY <1>1, <1>3 DEF AccountsKept
<1>8. \A p \in Phones : FindUserByPhone(p)' = FindUserByPhone(p)
  BY <1>1, <1>3 DEF FindUserByPhone
<1>9. QED
  BY <1>1, <1>2, <1>3, <1>5, <1>6, <1>7, <1>8 DEF AccountsKept

(* An update of the rows or the profile of the account, and of no code.        *)
LEMMA AccountOnlyKeeps ==
  ASSUME AccountInv, NEW s \in Sessions, Ends(s),
         NEW o, o = session[s], o # NoRequest, o.op \in {"update", "profile"},
         NEW new \in AccountRows, accounts' = [accounts EXCEPT ![o.account] = new],
         new.phone = accounts[o.account].phone, new.deleted = accounts[o.account].deleted,
         new.born = accounts[o.account].born, codes' = codes
  PROVE  AccountInv'
<1> DEFINE k == o.account
<1> USE DEF AccountInv
<1>1. /\ o \in RequestRows /\ o.phone \in Phones /\ Knows(o)
      /\ o.phone \in Patient => StillReads(o)
  BY EndingKnows
<1>2. /\ k \in DOMAIN accounts /\ k # 0 /\ accounts[k].born = o.phone
  BY <1>1 DEF Knows, AccountOps
<1>3. o.phone \in Patient => ~new.deleted
  BY <1>1, <1>2 DEF StillReads
<1> HIDE DEF k
<1>4. /\ accounts' \in [DOMAIN accounts -> AccountRows] /\ AccountsKept'
      /\ \A p \in Phones : FindUserByPhone(p)' = FindUserByPhone(p)
      /\ \A a \in DOMAIN accounts : /\ accounts'[a].born = accounts[a].born
                                    /\ accounts[a].born # o.phone => accounts'[a] = accounts[a]
  BY <1>2, <1>3, AccountRewritten DEF Ends, k
<1>5. codes' \in [DOMAIN codes -> CodeRows]
  BY TablesTyped DEF Typed
<1>6. Typed' /\ OnlyPhone(o.phone)
  BY <1>1, <1>4, <1>5, RewriteTyped
<1>7. InsertsKept(o)
  BY DEF InsertsKept
<1>8. CodesCount'
  BY DEF CodesCount, Ends, Patient
<1>9. o.phone \in Patient => PhoneKept(o.phone)'
  BY <1>1, <1>4 DEF PhonesKept, PhoneKept, VerifiedSignups, Pending
<1>10. QED
  BY <1>1, <1>4, <1>6, <1>7, <1>8, <1>9, EndKeeps

LEMMA CommitUpdateKeeps ==
  ASSUME AccountInv, NEW s \in Sessions, Ends(s),
         NEW o, o = session[s], o # NoRequest, CommitUpdate(o)
  PROVE  AccountInv'
<1> DEFINE k == o.account
           new == [accounts[k] EXCEPT !.rows = @ \cup o.gives]
<1>1. o \in RequestRows /\ Knows(o) /\ o.op = "update"
  BY EndingKnows DEF CommitUpdate
<1>2. k \in DOMAIN accounts /\ accounts[k] \in AccountRows /\ o.gives \subseteq Rows
  BY <1>1, TablesTyped DEF AccountInv, Knows, AccountOps, RequestRows
<1>3. /\ new \in AccountRows /\ new.phone = accounts[k].phone
      /\ new.deleted = accounts[k].deleted /\ new.born = accounts[k].born
  BY <1>2 DEF AccountRows
<1>4. accounts' = [accounts EXCEPT ![k] = new] /\ codes' = codes
  BY <1>2 DEF CommitUpdate
<1> HIDE DEF new
<1>5. QED
  BY <1>1, <1>3, <1>4, AccountOnlyKeeps

LEMMA CommitProfileKeeps ==
  ASSUME AccountInv, NEW s \in Sessions, Ends(s),
         NEW o, o = session[s], o # NoRequest, CommitProfile(o)
  PROVE  AccountInv'
<1> DEFINE k == o.account
           new == [accounts[k] EXCEPT !.profile = TRUE]
<1>1. o \in RequestRows /\ Knows(o) /\ o.op = "profile"
  BY EndingKnows DEF CommitProfile
<1>2. k \in DOMAIN accounts /\ accounts[k] \in AccountRows
  BY <1>1, TablesTyped DEF AccountInv, Knows, AccountOps
<1>3. /\ new \in AccountRows /\ new.phone = accounts[k].phone
      /\ new.deleted = accounts[k].deleted /\ new.born = accounts[k].born
  BY <1>2 DEF AccountRows
<1>4. accounts' = [accounts EXCEPT ![k] = new] /\ codes' = codes
  BY <1>2 DEF CommitProfile
<1> HIDE DEF new
<1>5. QED
  BY <1>1, <1>3, <1>4, AccountOnlyKeeps

(* A code that is verified is pending no more, and nothing else of it changes. *)
LEMMA CommitLoginKeeps ==
  ASSUME AccountInv, NEW s \in Sessions, Ends(s),
         NEW o, o = session[s], o # NoRequest, ~Conflicts(o), CommitLogin(o)
  PROVE  AccountInv'
<1> DEFINE k == o.account
           new == [accounts[k] EXCEPT !.rows = @ \cup o.gives]
<1> USE DEF AccountInv
<1>1. /\ o \in RequestRows /\ o.phone \in Phones /\ Knows(o) /\ o.op = "login"
      /\ o.phone \in Patient => StillReads(o)
  BY EndingKnows DEF CommitLogin
<1>2. /\ k \in DOMAIN accounts /\ k # 0 /\ accounts[k] \in AccountRows /\ accounts[k].born = o.phone
      /\ o.gives \subseteq Rows
  BY <1>1, TablesTyped DEF Knows, AccountOps, RequestRows
<1>3. /\ new \in AccountRows /\ new.phone = accounts[k].phone
      /\ new.deleted = accounts[k].deleted /\ new.born = accounts[k].born
  BY <1>2 DEF AccountRows
<1>4. accounts' = [accounts EXCEPT ![k] = new]
  BY <1>2 DEF CommitLogin
<1>5. o.phone \in Patient => ~new.deleted
  BY <1>1, <1>2, <1>3 DEF StillReads
<1> HIDE DEF k, new
<1>6. /\ accounts' \in [DOMAIN accounts -> AccountRows] /\ AccountsKept'
      /\ \A p \in Phones : FindUserByPhone(p)' = FindUserByPhone(p)
      /\ \A a \in DOMAIN accounts : /\ accounts'[a].born = accounts[a].born
                                    /\ accounts[a].born # o.phone => accounts'[a] = accounts[a]
  BY <1>2, <1>3, <1>4, <1>5, AccountRewritten DEF Ends
<1>7. \A c \in DOMAIN codes :
        /\ codes'[c].phone = codes[c].phone /\ codes'[c].purpose = codes[c].purpose
        /\ codes'[c].live = codes[c].live /\ codes'[c].text = codes[c].text
        /\ codes'[c].attempts = codes[c].attempts /\ codes'[c].wrong = codes[c].wrong
        /\ c # o.code => codes'[c] = codes[c]
        /\ c = o.code => /\ codes'[c].status = "VERIFIED" /\ codes[c].phone = o.phone
                         /\ codes[c].purpose = "LOGIN" /\ codes[c].status # "ABSENT"
  <2>1. ASSUME NEW c \in DOMAIN codes
        PROVE  /\ codes[c] \in CodeRows
               /\ c = o.code => /\ codes[c].phone = o.phone /\ codes[c].purpose = "LOGIN"
                                /\ codes[c].status # "ABSENT"
    BY <1>1, TablesTyped DEF Knows, Conflicts
  <2>2. QED
    BY <2>1 DEF CommitLogin, CodeRows
<1>8. codes' \in [DOMAIN codes -> CodeRows]
  BY TablesTyped DEF CommitLogin, CodeRows, Stored
<1>9. /\ Typed' /\ OnlyPhone(o.phone)
      /\ DOMAIN accounts' = DOMAIN accounts /\ DOMAIN codes' = DOMAIN codes
  BY <1>1, <1>6, <1>7, <1>8, RewriteTyped
<1>10. InsertsKept(o)
  BY <1>7 DEF InsertsKept
<1>11. CodesCount'
  <2>1. \A c \in DOMAIN codes : codes[c].status # "ABSENT" => codes[c].status \in Stored
    BY TablesTyped DEF CodeRows
  <2>2. QED
    BY <1>7, <1>9, <2>1 DEF CodesCount, Ends, Patient
<1>12. ASSUME o.phone \in Patient PROVE PhoneKept(o.phone)'
  <2>1. PhoneKept(o.phone) /\ StillReads(o) /\ FindUserByPhone(o.phone)' = FindUserByPhone(o.phone)
    BY <1>1, <1>6, <1>12 DEF PhonesKept
  <2>2. VerifiedSignups(o.phone)' = VerifiedSignups(o.phone)
    BY <1>7, <1>9 DEF VerifiedSignups
  <2>3. \A c \in VerifiedSignups(o.phone) : codes'[c].text = codes[c].text
    BY <1>7 DEF VerifiedSignups
  <2>4. \A purpose \in Purposes : Pending(purpose, o.phone)' \subseteq Pending(purpose, o.phone)
    BY <1>7, <1>9 DEF Pending
  <2>5. \A purpose \in Purposes : \A c, d \in Pending(purpose, o.phone)' :
           codes'[c].live => d <= c
    BY <1>7, <2>1, <2>4 DEF PhoneKept, Pending
  <2>6. FindUserByPhone(o.phone) = {} =>
          ~\E c \in DOMAIN codes' : /\ codes'[c].phone = o.phone /\ codes'[c].purpose = "LOGIN"
                                    /\ codes'[c].status \in Stored
    <3>2. \A c \in DOMAIN codes : codes[c].status # "ABSENT" => codes[c].status \in Stored
      BY TablesTyped DEF CodeRows
    <3>3. \A c \in DOMAIN codes : codes'[c].status \in Stored => codes[c].status \in Stored
      BY <1>7, <3>2
    <3>4. QED
      BY <1>7, <1>9, <2>1, <3>3 DEF PhoneKept
  <2>7. QED
    BY <2>1, <2>2, <2>3, <2>5, <2>6 DEF PhoneKept
<1>13. QED
  BY <1>1, <1>6, <1>9, <1>10, <1>11, <1>12, EndKeeps

LEMMA CommitSignupKeeps ==
  ASSUME AccountInv, NEW s \in Sessions, Ends(s),
         NEW o, o = session[s], o # NoRequest, ~Conflicts(o), CommitSignup(o)
  PROVE  AccountInv'
<1> DEFINE k == o.code
           n == Len(accounts) + 1
           new == [codes[k] EXCEPT !.status = "VERIFIED"]
           made == NewAccount(o.phone)
<1> USE DEF AccountInv
<1>1. /\ o \in RequestRows /\ o.phone \in Phones /\ Knows(o) /\ o.op = "signup"
      /\ o.phone \in Patient => StillReads(o)
  BY EndingKnows DEF CommitSignup
<1>2. /\ k \in DOMAIN codes /\ k # 0 /\ codes[k] \in CodeRows /\ codes[k].phone = o.phone
      /\ codes[k].status \in Stored /\ codes[k].purpose = "SIGNUP"
  BY <1>1, TablesTyped DEF Knows, CodeOps, Conflicts, CodeRows
<1>3. /\ new \in CodeRows /\ new.phone = o.phone /\ new.purpose = "SIGNUP"
      /\ new.status = "VERIFIED" /\ new.attempts = codes[k].attempts /\ new.wrong = codes[k].wrong
      /\ new.live = codes[k].live /\ new.text = codes[k].text
  BY <1>2 DEF CodeRows, Stored
<1>4. /\ made \in AccountRows /\ made.phone = o.phone /\ made.born = o.phone /\ ~made.deleted
  BY <1>1 DEF NewAccount, AccountRows
<1>5. accounts' = Append(accounts, made) /\ codes' = [codes EXCEPT ![k] = new]
  BY <1>2 DEF CommitSignup
<1>6. /\ o.phone # NoPhone /\ \A a \in DOMAIN accounts : accounts[a].phone # o.phone
  BY <1>1, AccountsAssumption DEF Conflicts
<1> HIDE DEF k, new, made
<1>7. /\ accounts' \in Seq(AccountRows) /\ n \notin DOMAIN accounts
      /\ DOMAIN accounts' = DOMAIN accounts \cup {n} /\ accounts'[n] = made
      /\ \A a \in DOMAIN accounts : accounts'[a] = accounts[a] /\ a # n
  BY <1>4, <1>5, TablesTyped DEF Typed
<1> HIDE DEF n
<1>8. /\ codes' \in [DOMAIN codes -> CodeRows] /\ codes'[k] = new
      /\ \A c \in DOMAIN codes : c # k => codes'[c] = codes[c]
  BY <1>2, <1>3, <1>5, TablesTyped
<1>9. codes' \in Seq(CodeRows) /\ DOMAIN codes' = DOMAIN codes
  BY <1>8, Rewritten DEF Typed
<1>10. Typed'
  BY <1>7, <1>9 DEF Typed, Ends
<1>11. OnlyPhone(o.phone)
  <2>1. HistoryKept
    BY <1>2, <1>3, <1>7, <1>8, <1>9 DEF HistoryKept
  <2>2. ASSUME NEW q \in Phones \ {o.phone} PROVE Untouched(q)
    BY <1>2, <1>3, <1>4, <1>7, <1>8, <1>9 DEF Untouched
  <2>3. QED
    BY <2>1, <2>2 DEF OnlyPhone
<1>12. InsertsKept(o)
  BY <1>2, <1>8 DEF InsertsKept, Stored
<1>13. AccountsKept'
  <2>1. OneAccountPerPhone'
    BY <1>4, <1>6, <1>7 DEF AccountsKept, OneAccountPerPhone
  <2>2. WithdrawnLeavesNothing'
    BY <1>4, <1>7 DEF AccountsKept, WithdrawnLeavesNothing, Patient, Ends
  <2>3. \A a \in DOMAIN accounts' : accounts'[a].phone \in {accounts'[a].born, NoPhone}
    BY <1>4, <1>7 DEF AccountsKept
  <2>4. QED
    BY <2>1, <2>2, <2>3 DEF AccountsKept
<1>14. CodesCount'
  BY <1>2, <1>3, <1>8, <1>9 DEF CodesCount, Ends, Patient
<1>15. ASSUME o.phone \in Patient PROVE PhoneKept(o.phone)'
  <2>1. PhoneKept(o.phone) /\ StillReads(o)
    BY <1>1, <1>15 DEF PhonesKept
  <2>2. FindUserByPhone(o.phone) = {} /\ codes[k].text = "SENT"
    BY <1>1, <2>1 DEF StillReads, k
  <2>3. n \in FindUserByPhone(o.phone)'
    BY <1>4, <1>7 DEF FindUserByPhone
  <2>4. VerifiedSignups(o.phone)' = {k}
    BY <1>2, <1>3, <1>8, <1>9, <2>1, <2>2 DEF VerifiedSignups, PhoneKept
  <2>5. \A purpose \in Purposes : Pending(purpose, o.phone)' \subseteq Pending(purpose, o.phone)
    BY <1>3, <1>8, <1>9 DEF Pending
  <2>6. \A purpose \in Purposes : \A c, d \in Pending(purpose, o.phone)' :
           codes'[c].live => d <= c
    BY <1>3, <1>8, <2>1, <2>5 DEF PhoneKept, Pending
  <2>7. codes'[k].text = "SENT"
    BY <1>3, <1>8, <2>2
  <2>8. QED
    BY <2>3, <2>4, <2>6, <2>7 DEF PhoneKept
<1>16. QED
  BY <1>1, <1>10, <1>11, <1>12, <1>13, <1>14, <1>15, EndKeeps

LEMMA DeletedRow ==
  ASSUME NEW code \in CodeRows
  PROVE  /\ Deleted(code) \in CodeRows
         /\ Deleted(code).phone = code.phone /\ Deleted(code).purpose = code.purpose
         /\ Deleted(code).status = "ABSENT" /\ Deleted(code).attempts = 0
         /\ Deleted(code).wrong = code.wrong
<1> DEFINE d == Deleted(code)
<1>1. d = [code EXCEPT !.status = "ABSENT", !.attempts = 0, !.live = FALSE, !.text = "NONE"]
  BY DEF Deleted
<1>2. /\ d.purpose = code.purpose /\ d.phone = code.phone /\ d.status = "ABSENT"
      /\ d.attempts = 0 /\ d.live = FALSE /\ d.text = "NONE" /\ d.wrong = code.wrong
  BY <1>1 DEF CodeRows
<1>3. d = [purpose |-> code.purpose, phone |-> code.phone, status |-> "ABSENT", attempts |-> 0,
           live |-> FALSE, text |-> "NONE", wrong |-> code.wrong]
  BY <1>1 DEF CodeRows
<1>4. d \in CodeRows
  BY <1>3, AccountsAssumption DEF CodeRows
<1>5. QED
  BY <1>2, <1>4

LEMMA CommitWithdrawKeeps ==
  ASSUME AccountInv, NEW s \in Sessions, Ends(s),
         NEW o, o = session[s], o # NoRequest, CommitWithdraw(o)
  PROVE  AccountInv'
<1> DEFINE k == o.account
           new == Withdrawn(accounts[k])
           gone(c) == codes[c].phone = o.phone /\ codes[c].status \in Stored
<1> USE DEF AccountInv
<1>1. /\ o \in RequestRows /\ o.phone \in Phones /\ Knows(o) /\ o.op = "withdraw"
      /\ o.phone \in Patient => StillReads(o)
  BY EndingKnows DEF CommitWithdraw
<1>2. /\ k \in DOMAIN accounts /\ k # 0 /\ accounts[k] \in AccountRows /\ accounts[k].born = o.phone
      /\ o.phone # NoPhone
  BY <1>1, TablesTyped, AccountsAssumption DEF Knows, AccountOps
<1>3. /\ new \in AccountRows /\ new.phone = NoPhone /\ new.deleted /\ new.born = o.phone
      /\ ~new.profile /\ new.rows \subseteq {"terms"}
  BY <1>2 DEF AccountRows, Withdrawn, Rows
<1>4. accounts' = [accounts EXCEPT ![k] = new]
  BY <1>2 DEF CommitWithdraw
<1> HIDE DEF k, new
<1>5. /\ accounts' \in [DOMAIN accounts -> AccountRows] /\ accounts'[k] = new
      /\ \A a \in DOMAIN accounts : a # k => accounts'[a] = accounts[a]
  BY <1>2, <1>3, <1>4, TablesTyped
<1>6. \A c \in DOMAIN codes :
        /\ codes'[c].phone = codes[c].phone /\ codes'[c].purpose = codes[c].purpose
        /\ ~gone(c) => codes'[c] = codes[c]
        /\ gone(c) => /\ codes'[c].status = "ABSENT" /\ codes'[c].attempts = 0
                      /\ codes'[c].wrong = codes[c].wrong
  BY TablesTyped DEF CommitWithdraw, Deleted, CodeRows
<1>7. codes' \in [DOMAIN codes -> CodeRows]
  <2>1. \A c \in DOMAIN codes : Deleted(codes[c]) \in CodeRows
    BY TablesTyped, DeletedRow
  <2>2. QED
    BY <2>1, TablesTyped DEF CommitWithdraw
<1>8. /\ Typed' /\ OnlyPhone(o.phone)
      /\ DOMAIN accounts' = DOMAIN accounts /\ DOMAIN codes' = DOMAIN codes
  BY <1>1, <1>2, <1>3, <1>5, <1>6, <1>7, RewriteTyped
<1>9. InsertsKept(o)
  BY <1>6 DEF InsertsKept, Stored
<1>10. AccountsKept'
  <2>1. OneAccountPerPhone'
    BY <1>2, <1>3, <1>5, <1>8 DEF AccountsKept, OneAccountPerPhone
  <2>2. WithdrawnLeavesNothing'
    BY <1>3, <1>5, <1>8 DEF AccountsKept, WithdrawnLeavesNothing, Patient, Ends
  <2>3. \A a \in DOMAIN accounts' : accounts'[a].phone \in {accounts'[a].born, NoPhone}
    BY <1>3, <1>5, <1>8 DEF AccountsKept
  <2>4. QED
    BY <2>1, <2>2, <2>3 DEF AccountsKept
<1>11. CodesCount'
  BY <1>6, <1>8, AccountsAssumption DEF CodesCount, Ends, Patient, Stored
<1>12. ASSUME o.phone \in Patient PROVE PhoneKept(o.phone)'
  <2>1. ~accounts[k].deleted /\ accounts[k].phone = o.phone
    BY <1>1, <1>2, <1>12 DEF StillReads, AccountsKept, OneAccountPerPhone, k
  <2>2. FindUserByPhone(o.phone)' = {}
    BY <1>2, <1>3, <1>5, <1>8, <2>1 DEF FindUserByPhone, AccountsKept, OneAccountPerPhone
  <2>3. \A c \in DOMAIN codes' : codes'[c].phone = o.phone => codes'[c].status \notin Stored
    BY <1>6, <1>8 DEF Stored
  <2>4. VerifiedSignups(o.phone)' = {} /\ \A purpose \in Purposes : Pending(purpose, o.phone)' = {}
    BY <2>3 DEF VerifiedSignups, Pending, Stored
  <2>5. QED
    BY <2>2, <2>3, <2>4 DEF PhoneKept
<1>13. QED
  BY <1>1, <1>8, <1>9, <1>10, <1>11, <1>12, EndKeeps

LEMMA AbortKeeps ==
  ASSUME AccountInv, NEW s \in Sessions, Abort(s)
  PROVE  AccountInv'
<1> DEFINE o == session[s]
           k == o.code
<1> USE DEF AccountInv
<1>1. Ends(s) /\ o # NoRequest
  BY DEF Abort, Finish, Ends
<1>2. /\ o \in RequestRows /\ o.phone \in Phones /\ Knows(o)
  BY <1>1, EndingKnows
<1>3. o.op = "send" => /\ k \in DOMAIN codes /\ codes[k].phone = o.phone /\ codes[k].status = "ABSENT"
                       /\ codes[k].attempts = 0 /\ codes[k].wrong = 0
  BY <1>2 DEF Knows, CodeOps
<1>4. accounts' = accounts /\ accounts' \in [DOMAIN accounts -> AccountRows]
  BY TablesTyped DEF Abort, Typed
<1>5. \A c \in DOMAIN codes :
        /\ codes'[c].phone = codes[c].phone /\ codes'[c].purpose = codes[c].purpose
        /\ codes'[c].status = codes[c].status /\ codes'[c].wrong = codes[c].wrong
        /\ codes'[c].attempts = codes[c].attempts
        /\ codes'[c] = codes[c] \/ (o.op = "send" /\ c = k)
  <2>1. ASSUME NEW c \in DOMAIN codes, o.op = "send", c = k
        PROVE  codes'[c] = Deleted(codes[c]) /\ codes[c] \in CodeRows
    BY <2>1, TablesTyped DEF Abort
  <2>2. ASSUME NEW c \in DOMAIN codes, ~(o.op = "send" /\ c = k) PROVE codes'[c] = codes[c]
    BY <2>2 DEF Abort
  <2>3. ASSUME NEW c \in DOMAIN codes, o.op = "send", c = k
        PROVE  /\ codes'[c].phone = codes[c].phone /\ codes'[c].purpose = codes[c].purpose
               /\ codes'[c].status = "ABSENT" /\ codes'[c].wrong = codes[c].wrong
               /\ codes'[c].attempts = 0
    BY <2>1, <2>3, DeletedRow
  <2>4. QED
    BY <1>3, <2>2, <2>3
<1>6. codes' \in [DOMAIN codes -> CodeRows]
  <2>1. \A c \in DOMAIN codes : Deleted(codes[c]) \in CodeRows
    BY TablesTyped, DeletedRow
  <2>2. QED
    BY <2>1, TablesTyped DEF Abort
<1>7. Typed' /\ OnlyPhone(o.phone) /\ DOMAIN codes' = DOMAIN codes
  BY <1>1, <1>2, <1>3, <1>4, <1>5, <1>6, RewriteTyped
<1>8. InsertsKept(o)
  BY <1>5 DEF InsertsKept
<1>9. AccountsKept' /\ \A p \in Phones : FindUserByPhone(p)' = FindUserByPhone(p)
  BY <1>1, <1>4, AccountsStay DEF Ends
<1>10. CodesCount'
  BY <1>1, <1>5, <1>7 DEF CodesCount, Ends, Patient
<1>11. PICK r : r = o
  OBVIOUS
<1>12. ASSUME r.phone \in Patient PROVE PhoneKept(r.phone)'
  <2>1. PhoneKept(r.phone) /\ FindUserByPhone(r.phone)' = FindUserByPhone(r.phone)
    BY <1>2, <1>9, <1>11, <1>12 DEF PhonesKept
  <2>2. VerifiedSignups(r.phone)' = VerifiedSignups(r.phone)
    BY <1>5, <1>7 DEF VerifiedSignups
  <2>3. \A purpose \in Purposes : Pending(purpose, r.phone)' = Pending(purpose, r.phone)
    BY <1>5, <1>7 DEF Pending
  <2>4. \A c \in DOMAIN codes : codes[c].status # "ABSENT" => codes'[c] = codes[c]
    BY <1>3, <1>5
  <2>5. QED
    BY <1>5, <1>7, <2>1, <2>2, <2>3, <2>4 DEF PhoneKept, VerifiedSignups, Pending
<1>13. QED
  BY <1>1, <1>2, <1>7, <1>8, <1>9, <1>10, <1>11, <1>12, EndKeeps

LEMMA CommitKeeps ==
  ASSUME AccountInv, NEW s \in Sessions, Commit(s)
  PROVE  AccountInv'
<1>1. Ends(s) /\ session[s] # NoRequest /\ ~Conflicts(session[s])
  BY DEF Commit, Finish, Ends
<1>2. QED
  BY <1>1, CommitSendKeeps, CommitExpiredKeeps, CommitMismatchKeeps, CommitSignupKeeps,
     CommitLoginKeeps, CommitUpdateKeeps, CommitProfileKeeps, CommitWithdrawKeeps DEF Commit

--------------------------------------------------------------------------------
(* The beginning of a request: what it reads is what it knows.                 *)

LEMMA BeginKeeps ==
  ASSUME AccountInv, NEW s \in Sessions, NEW r \in RequestRows, Begin(s, r), codes' = codes,
         r.op # "send", Knows(r), r.phone \in Patient => StillReads(r)
  PROVE  AccountInv'
<1> USE DEF AccountInv
<1>1. /\ accounts' = accounts /\ impatient' = impatient /\ session[s] = NoRequest
      /\ session' = [session EXCEPT ![s] = r] /\ Patient' = Patient
      /\ r.phone \in Patient => Quiet(r.phone)
  BY DEF Begin, Patient
<1>2. Typed'
  BY <1>1 DEF Typed
<1>3. AccountsKept' /\ CodesCount' /\ PhonesKept'
  BY <1>1 DEF AccountsKept, OneAccountPerPhone, WithdrawnLeavesNothing, CodesCount, PhonesKept,
       PhoneKept, VerifiedSignups, FindUserByPhone, Pending
<1>4. \A t \in Sessions : session'[t] = IF t = s THEN r ELSE session[t]
  BY <1>1 DEF Typed
<1>5. RequestsKnow'
  <2> SUFFICES ASSUME NEW t \in Sessions, session'[t] # NoRequest
               PROVE  /\ Knows(session[t])'
                      /\ (session'[t].phone \in Patient' => StillReads(session[t])')
    BY DEF RequestsKnow
  <2>1. PICK q : q = session'[t]
    OBVIOUS
  <2>2. Knows(q) /\ (q.phone \in Patient => StillReads(q))
    BY <1>4, <2>1 DEF RequestsKnow
  <2>3. Knows(q)' /\ (q.phone \in Patient => StillReads(q)')
    BY <1>1, <2>2 DEF Knows, StillReads, FindUserByPhone, Pending
  <2>4. QED
    BY <1>1, <2>1, <2>3
<1>6. RequestsApart'
  BY <1>1, <1>4 DEF RequestsApart, Quiet
<1>7. QED
  BY <1>2, <1>3, <1>5, <1>6

LEMMA BeginRefusedKeeps ==
  ASSUME AccountInv, NEW s \in Sessions, NEW purpose \in Purposes, NEW p \in Phones,
         BeginRefused(s, purpose, p)
  PROVE  AccountInv'
<1>1. PICK c \in Tried(purpose, p) :
        Begin(s, Request(IF codes[c].live THEN "mismatch" ELSE "expire", p, 0, c, {}))
  BY DEF BeginRefused
<1> DEFINE op == IF codes[c].live THEN "mismatch" ELSE "expire"
           r == Request(op, p, 0, c, {})
<1>2. /\ c \in DOMAIN codes /\ c # 0 /\ c \in Nat /\ codes[c].phone = p
      /\ codes[c].status = "PENDING" /\ codes[c].attempts \in 0..MaxAttempts
      /\ codes[c].attempts < MaxAttempts
  BY TablesTyped DEF AccountInv, Tried, Pending, CodeRows, CodesCount
<1>3. /\ r.op = op /\ r.phone = p /\ r.account = 0 /\ r.code = c /\ r.attempts = codes[c].attempts
      /\ r \in RequestRows
  BY <1>2 DEF Request, RequestRows, Operations
<1>4. op \in {"mismatch", "expire"}
  OBVIOUS
<1>5. codes' = codes
  BY DEF BeginRefused
<1>6. Begin(s, r)
  BY <1>1
<1> HIDE DEF r, op
<1>7. Knows(r) /\ StillReads(r)
  BY <1>2, <1>3, <1>4 DEF Knows, StillReads, CodeOps, AccountOps
<1>8. QED
  BY <1>3, <1>4, <1>5, <1>6, <1>7, BeginKeeps

LEMMA BeginConfirmSignupKeeps ==
  ASSUME AccountInv, NEW s \in Sessions, NEW p \in Phones, BeginConfirmSignup(s, p)
  PROVE  AccountInv'
<1>1. PICK c \in Tried("SIGNUP", p) : Known(c) /\ Begin(s, Request("signup", p, 0, c, {}))
  BY DEF BeginConfirmSignup
<1> DEFINE r == Request("signup", p, 0, c, {})
<1>2. /\ c \in DOMAIN codes /\ c # 0 /\ c \in Nat /\ codes[c].phone = p /\ codes[c].text = "SENT"
      /\ codes[c].purpose = "SIGNUP" /\ codes[c].status = "PENDING"
      /\ codes[c].attempts \in 0..MaxAttempts
  BY <1>1, TablesTyped DEF AccountInv, Tried, Pending, CodeRows, Known
<1>3. /\ r.op = "signup" /\ r.phone = p /\ r.account = 0 /\ r.code = c
      /\ r.attempts = codes[c].attempts /\ r \in RequestRows
  BY <1>2 DEF Request, RequestRows, Operations
<1>4. codes' = codes /\ FindUserByPhone(p) = {} /\ Begin(s, r)
  BY <1>1 DEF BeginConfirmSignup
<1> HIDE DEF r
<1>5. Knows(r) /\ StillReads(r)
  BY <1>2, <1>3, <1>4 DEF Knows, StillReads, CodeOps, AccountOps
<1>6. QED
  BY <1>3, <1>4, <1>5, BeginKeeps

(* A request about an account that is not withdrawn, and about no code.        *)
LEMMA BeginOnAccountKeeps ==
  ASSUME AccountInv, NEW s \in Sessions, NEW op \in AccountOps, NEW a \in DOMAIN accounts,
         ~accounts[a].deleted, NEW gives \in SUBSET Rows, NEW p, p = accounts[a].phone,
         Begin(s, Request(op, p, a, 0, gives)), codes' = codes
  PROVE  AccountInv'
<1> DEFINE r == Request(op, p, a, 0, gives)
<1>1. /\ accounts[a] \in AccountRows /\ a \in Nat /\ a # 0
      /\ accounts[a].born = p /\ p \in Phones
  BY TablesTyped DEF AccountInv, AccountsKept, OneAccountPerPhone, AccountRows
<1>2. /\ r.op = op /\ r.phone = p /\ r.account = a /\ r.code = 0
      /\ r \in RequestRows
  BY <1>1, AccountsAssumption DEF Request, RequestRows, Operations, AccountOps, AccountRows
<1> HIDE DEF r
<1>3. Knows(r) /\ StillReads(r)
  BY <1>1, <1>2 DEF Knows, StillReads, CodeOps, AccountOps
<1>4. QED
  BY <1>2, <1>3, BeginKeeps DEF AccountOps, r

LEMMA BeginConfirmLoginKeeps ==
  ASSUME AccountInv, NEW s \in Sessions, NEW p \in Phones, BeginConfirmLogin(s, p)
  PROVE  AccountInv'
<1>1. PICK a \in FindUserByPhone(p), gives \in {{}, {"token"}} :
        /\ \/ \E c \in Tried("LOGIN", p) : Known(c) /\ Begin(s, Request("login", p, a, c, gives))
           \/ IsLoginTestCodeAllowed /\ Begin(s, Request("login", p, a, 0, gives))
        /\ UNCHANGED codes
  BY DEF BeginConfirmLogin
<1>2. a \in DOMAIN accounts /\ accounts[a].phone = p /\ ~accounts[a].deleted /\ gives \in SUBSET Rows
  BY DEF FindUserByPhone, Rows
<1>3. CASE IsLoginTestCodeAllowed /\ Begin(s, Request("login", p, a, 0, gives))
  BY <1>1, <1>2, <1>3, BeginOnAccountKeeps DEF AccountOps
<1>4. ASSUME NEW c \in Tried("LOGIN", p), Begin(s, Request("login", p, a, c, gives))
      PROVE  AccountInv'
  <2> DEFINE r == Request("login", p, a, c, gives)
  <2>1. /\ c \in DOMAIN codes /\ c # 0 /\ c \in Nat /\ codes[c].phone = p
        /\ codes[c].purpose = "LOGIN" /\ codes[c].status = "PENDING"
        /\ codes[c].attempts \in 0..MaxAttempts
    BY TablesTyped DEF AccountInv, Tried, Pending, CodeRows
  <2>2. accounts[a] \in AccountRows /\ a \in Nat /\ a # 0 /\ accounts[a].born = p
    BY <1>2, TablesTyped DEF AccountInv, AccountsKept, OneAccountPerPhone
  <2>3. /\ r.op = "login" /\ r.phone = p /\ r.account = a /\ r.code = c
        /\ r.attempts = codes[c].attempts /\ r \in RequestRows
    BY <1>2, <2>1, <2>2 DEF Request, RequestRows, Operations, AccountRows
  <2> HIDE DEF r
  <2>4. Knows(r) /\ StillReads(r)
    BY <1>2, <2>1, <2>2, <2>3 DEF Knows, StillReads, CodeOps, AccountOps
  <2>5. QED
    BY <1>1, <1>4, <2>3, <2>4, BeginKeeps DEF r
<1>5. QED
  BY <1>1, <1>3, <1>4

LEMMA BeginProfileKeeps ==
  ASSUME AccountInv, NEW s \in Sessions, NEW a \in DOMAIN accounts,
         \/ BeginUpdateProfile(s, a) \/ BeginUpdateFcmToken(s, a) \/ BeginSaveAccount(s, a)
         \/ BeginAgree(s, a) \/ BeginWithdraw(s, a)
  PROVE  AccountInv'
<1>1. ~accounts[a].deleted /\ codes' = codes
  BY DEF BeginUpdateProfile, BeginUpdateFcmToken, BeginSaveAccount, BeginAgree, BeginWithdraw,
       GetCurrentUser
<1>2. PICK op \in {"update", "profile", "withdraw"}, gives \in SUBSET Rows :
        Begin(s, Request(op, accounts[a].phone, a, 0, gives))
  BY DEF BeginUpdateProfile, BeginUpdateFcmToken, BeginSaveAccount, BeginAgree, BeginWithdraw, Rows
<1>3. QED
  BY <1>1, <1>2, BeginOnAccountKeeps DEF AccountOps

(* A code is made: nobody tries it before its request commits.                 *)
LEMMA BeginSendKeeps ==
  ASSUME AccountInv, NEW s \in Sessions, NEW purpose \in Purposes, NEW p \in Phones,
         purpose = "LOGIN" => FindUserByPhone(p) # {}, BeginSend(s, purpose, p)
  PROVE  AccountInv'
<1>0. PICK n : n = Len(codes) + 1
  OBVIOUS
<1> DEFINE made == NewCode(purpose, p)
           r == [op |-> "send", phone |-> p, account |-> 0, code |-> n,
                 attempts |-> 0, gives |-> {}, saw |-> {}]
<1> USE DEF AccountInv
<1>1. /\ accounts' = accounts /\ impatient' = impatient /\ session[s] = NoRequest
      /\ session' = [session EXCEPT ![s] = r] /\ Patient' = Patient
      /\ p \in Patient => Quiet(p)
  BY <1>0 DEF BeginSend, Begin, Patient
<1>2. /\ made \in CodeRows /\ made.purpose = purpose /\ made.phone = p
      /\ made.status = "ABSENT" /\ made.attempts = 0 /\ made.wrong = 0
  BY AccountsAssumption DEF NewCode, CodeRows
<1>3. codes' = Append(codes, made) /\ \A c \in Pending(purpose, p) : ~codes[c].live
  BY DEF BeginSend, HasActivePending
<1> HIDE DEF made
<1>4. /\ codes' \in Seq(CodeRows) /\ n \notin DOMAIN codes /\ n \in Nat /\ n # 0
      /\ DOMAIN codes' = DOMAIN codes \cup {n} /\ codes'[n] = made
      /\ \A c \in DOMAIN codes : codes'[c] = codes[c] /\ c # n /\ c <= n
  BY <1>0, <1>2, <1>3, TablesTyped DEF Typed
<1>5. /\ r.op = "send" /\ r.phone = p /\ r.account = 0 /\ r.code = n /\ r \in RequestRows
  BY <1>4, AccountsAssumption DEF RequestRows, Operations
<1> HIDE DEF r
<1>6. Typed'
  BY <1>1, <1>4, <1>5 DEF Typed
<1>7. HistoryKept /\ \A q \in Phones \ {p} : Untouched(q)
  BY <1>1, <1>2, <1>4 DEF HistoryKept, Untouched
<1>8. AccountsKept' /\ \A q \in Phones : FindUserByPhone(q)' = FindUserByPhone(q)
  BY <1>1, AccountsStay
<1>9. CodesCount'
  BY <1>1, <1>2, <1>4, AccountsAssumption DEF CodesCount, Stored
<1>10. \A purp \in Purposes : \A q \in Phones : Pending(purp, q)' = Pending(purp, q)
  BY <1>2, <1>4 DEF Pending
<1>11. PhonesKept'
  <2> SUFFICES ASSUME NEW q \in Patient PROVE PhoneKept(q)'
    BY <1>1 DEF PhonesKept
  <2>1. PhoneKept(q) /\ q \in Phones
    BY DEF PhonesKept, Patient
  <2>2. VerifiedSignups(q)' = VerifiedSignups(q)
    BY <1>2, <1>4 DEF VerifiedSignups
  <2>3. \A c \in DOMAIN codes' : codes'[c].status \in Stored => c \in DOMAIN codes /\ codes'[c] = codes[c]
    BY <1>2, <1>4 DEF Stored
  <2>4. QED
    BY <1>8, <1>10, <2>1, <2>2, <2>3 DEF PhoneKept, VerifiedSignups, Pending, Stored
<1>12. \A t \in Sessions : session'[t] = IF t = s THEN r ELSE session[t]
  BY <1>1 DEF Typed
<1>13. ASSUME NEW q \in RequestRows, NEW t \in Sessions, t # s, session[t] = q, q # NoRequest
       PROVE  Knows(q)' /\ (q.phone \in Patient => StillReads(q)')
  <2>1. Knows(q) /\ (q.phone \in Patient => StillReads(q) /\ q.phone # p)
    BY <1>1, <1>13 DEF RequestsKnow, Quiet
  <2>2. q.op = "send" => /\ codes'[q.code].status = "ABSENT"
                         /\ codes'[q.code].attempts = 0 /\ codes'[q.code].wrong = 0
    BY <1>4, <2>1 DEF Knows, CodeOps
  <2>3. QED
    BY <1>6, <1>7, <1>8, <2>1, <2>2, KnowsLater, StillReadsLater DEF Patient
<1>14. Knows(r)'
  BY <1>2, <1>4, <1>5 DEF Knows, CodeOps, AccountOps
<1>15. StillReads(r)'
  <2>1. \A c \in DOMAIN codes' : codes'[c].phone = p => c <= n
    BY <1>4
  <2>2. codes'[n].purpose = purpose /\ \A c \in Pending(purpose, p)' : ~codes'[c].live
    BY <1>2, <1>3, <1>4, <1>10 DEF Pending
  <2>3. purpose = "LOGIN" => FindUserByPhone(p)' # {}
    BY <1>8
  <2>4. QED
    BY <1>5, <2>1, <2>2, <2>3 DEF StillReads
<1>16. RequestsKnow'
  <2> SUFFICES ASSUME NEW t \in Sessions, session'[t] # NoRequest
               PROVE  /\ Knows(session[t])'
                      /\ (session'[t].phone \in Patient' => StillReads(session[t])')
    BY DEF RequestsKnow
  <2>1. PICK q : q = session'[t]
    OBVIOUS
  <2>2. q \in RequestRows /\ (t # s => session[t] = q) /\ (t = s => q = r)
    BY <1>5, <1>12, <2>1 DEF Typed
  <2>3. Knows(q)' /\ (q.phone \in Patient => StillReads(q)')
    BY <1>13, <1>14, <1>15, <2>1, <2>2
  <2>4. QED
    BY <1>1, <2>1, <2>3
<1>17. RequestsApart'
  <2>1. \A t \in Sessions : session[t] # NoRequest /\ session[t].op = "send" => session[t].code # n
    BY <1>4 DEF RequestsKnow, Knows, CodeOps
  <2>2. QED
    BY <1>1, <1>5, <1>12, <2>1 DEF RequestsApart, Quiet
<1>18. QED
  BY <1>6, <1>8, <1>9, <1>11, <1>16, <1>17

--------------------------------------------------------------------------------
(* Time, the text messages and crashes: a code is delivered at most, and ends. *)

LEMMA AgingKeeps ==
  ASSUME AccountInv, accounts' = accounts, impatient' = impatient,
         session' \in [Sessions -> RequestRows \cup {NoRequest}],
         \A t \in Sessions : session'[t] \in {session[t], NoRequest},
         codes' \in [DOMAIN codes -> CodeRows],
         \A c \in DOMAIN codes :
            /\ codes'[c].phone = codes[c].phone /\ codes'[c].purpose = codes[c].purpose
            /\ codes'[c].status = codes[c].status /\ codes'[c].attempts = codes[c].attempts
            /\ codes'[c].wrong = codes[c].wrong
            /\ codes'[c].live => codes[c].live
            /\ codes[c].text = "SENT" => codes'[c].text = "SENT"
  PROVE  AccountInv'
<1> USE DEF AccountInv
<1>1. DOMAIN codes' = DOMAIN codes /\ codes' \in Seq(CodeRows) /\ Patient' = Patient
  BY Rewritten DEF Typed, Patient
<1>2. Typed'
  BY <1>1 DEF Typed
<1>3. AccountsKept' /\ \A p \in Phones : FindUserByPhone(p)' = FindUserByPhone(p)
  BY AccountsStay
<1>4. CodesCount'
  BY <1>1 DEF CodesCount
<1>5. \A purpose \in Purposes : \A p \in Phones : Pending(purpose, p)' = Pending(purpose, p)
  BY <1>1 DEF Pending
<1>6. PhonesKept'
  <2> SUFFICES ASSUME NEW p \in Patient PROVE PhoneKept(p)'
    BY <1>1 DEF PhonesKept
  <2>1. PhoneKept(p) /\ p \in Phones
    BY DEF PhonesKept, Patient
  <2>2. VerifiedSignups(p)' = VerifiedSignups(p)
    BY <1>1 DEF VerifiedSignups
  <2>3. QED
    BY <1>1, <1>3, <1>5, <2>1, <2>2 DEF PhoneKept, VerifiedSignups, Pending
<1>7. ASSUME NEW q \in RequestRows, Knows(q), q.phone \in Patient => StillReads(q)
      PROVE  Knows(q)' /\ (q.phone \in Patient => StillReads(q)')
  <2>1. Knows(q)'
    BY <1>1, <1>7 DEF Knows, CodeOps
  <2>2. q.op = "send" => codes[q.code].purpose \in Purposes /\ q.code \in DOMAIN codes
    BY <1>7, TablesTyped DEF Knows, CodeOps, CodeRows
  <2>3. \A purpose \in Purposes : \A c \in Pending(purpose, q.phone) : c \in DOMAIN codes
    BY DEF Pending
  <2>4. q.phone \in Phones
    BY DEF RequestRows
  <2>5. ASSUME StillReads(q) PROVE StillReads(q)'
    <3>1. q.code # 0 => q.code \in DOMAIN codes
      BY <1>7 DEF Knows
    <3>2. q.op \in {"send", "signup"} => q.code # 0
      BY <1>7 DEF Knows, CodeOps
    <3>3. q.op = "send" => StillReads(q)'
      BY <1>1, <1>3, <1>5, <2>2, <2>3, <2>4, <2>5, <3>1, <3>2 DEF StillReads
    <3>4. q.op # "send" => StillReads(q)'
      BY <1>1, <1>3, <2>4, <2>5, <3>1, <3>2 DEF StillReads
    <3>5. QED
      BY <3>3, <3>4
  <2>6. QED
    BY <1>7, <2>1, <2>5
<1>8. RequestsKnow'
  <2> SUFFICES ASSUME NEW t \in Sessions, session'[t] # NoRequest
               PROVE  /\ Knows(session[t])'
                      /\ (session'[t].phone \in Patient' => StillReads(session[t])')
    BY DEF RequestsKnow
  <2>1. PICK q : q = session'[t]
    OBVIOUS
  <2>2. q \in RequestRows /\ session[t] = q /\ q # NoRequest
    BY <2>1
  <2>3. Knows(q)' /\ (q.phone \in Patient => StillReads(q)')
    BY <1>7, <2>2 DEF RequestsKnow
  <2>4. QED
    BY <1>1, <2>1, <2>3
<1>9. RequestsApart'
  BY <1>1 DEF RequestsApart
<1>10. QED
  BY <1>2, <1>3, <1>4, <1>6, <1>8, <1>9

LEMMA TimeKeeps ==
  ASSUME AccountInv, \/ \E c \in DOMAIN codes : SendSmsSafely(c) \/ TtlEnds(c)
                     \/ Crash
  PROVE  AccountInv'
<1>1. /\ accounts' = accounts /\ impatient' = impatient
      /\ session' \in [Sessions -> RequestRows \cup {NoRequest}]
      /\ \A t \in Sessions : session'[t] \in {session[t], NoRequest}
  BY DEF SendSmsSafely, TtlEnds, Crash, AccountInv, Typed
<1>2. \A c \in DOMAIN codes : codes[c] \in CodeRows
  BY TablesTyped DEF AccountInv
<1>3. ASSUME NEW c \in DOMAIN codes, SendSmsSafely(c) PROVE AccountInv'
  <2>1. PICK outcome \in {"SENT", "LOST"} : codes' = [codes EXCEPT ![c].text = outcome]
    BY <1>3 DEF SendSmsSafely
  <2> DEFINE new == [codes[c] EXCEPT !.text = outcome]
  <2>2. /\ new \in CodeRows /\ new.phone = codes[c].phone /\ new.purpose = codes[c].purpose
        /\ new.status = codes[c].status /\ new.attempts = codes[c].attempts
        /\ new.wrong = codes[c].wrong /\ new.live = codes[c].live
    BY <1>2 DEF CodeRows
  <2>3. codes' = [codes EXCEPT ![c] = new] /\ codes[c].text = "QUEUED"
    BY <1>3, <2>1 DEF SendSmsSafely
  <2> HIDE DEF new
  <2>4. /\ codes' \in [DOMAIN codes -> CodeRows] /\ codes'[c] = new
        /\ \A d \in DOMAIN codes : d # c => codes'[d] = codes[d]
    BY <1>2, <2>2, <2>3, TablesTyped DEF AccountInv
  <2>5. QED
    BY <1>1, <2>2, <2>3, <2>4, AgingKeeps
<1>4. ASSUME NEW c \in DOMAIN codes, TtlEnds(c) PROVE AccountInv'
  <2> DEFINE new == [codes[c] EXCEPT !.live = FALSE]
  <2>1. /\ new \in CodeRows /\ new.phone = codes[c].phone /\ new.purpose = codes[c].purpose
        /\ new.status = codes[c].status /\ new.attempts = codes[c].attempts
        /\ new.wrong = codes[c].wrong /\ new.text = codes[c].text /\ ~new.live
    BY <1>2 DEF CodeRows
  <2>2. codes' = [codes EXCEPT ![c] = new]
    BY <1>4 DEF TtlEnds
  <2> HIDE DEF new
  <2>3. /\ codes' \in [DOMAIN codes -> CodeRows] /\ codes'[c] = new
        /\ \A d \in DOMAIN codes : d # c => codes'[d] = codes[d]
    BY <1>2, <2>1, <2>2, TablesTyped DEF AccountInv
  <2>4. QED
    BY <1>1, <2>1, <2>3, AgingKeeps
<1>5. ASSUME Crash PROVE AccountInv'
  <2>1. \A c \in DOMAIN codes :
          /\ codes'[c] \in CodeRows
          /\ codes'[c].phone = codes[c].phone /\ codes'[c].purpose = codes[c].purpose
          /\ codes'[c].status = codes[c].status /\ codes'[c].attempts = codes[c].attempts
          /\ codes'[c].wrong = codes[c].wrong /\ codes'[c].live = codes[c].live
          /\ codes[c].text = "SENT" => codes'[c].text = "SENT"
    BY <1>2, <1>5 DEF Crash, CodeRows
  <2>2. codes' \in [DOMAIN codes -> CodeRows]
    BY <1>5, <2>1 DEF Crash
  <2>3. QED
    BY <1>1, <2>1, <2>2, AgingKeeps
<1>6. QED
  BY <1>3, <1>4, <1>5

--------------------------------------------------------------------------------
(* What every state keeps.                                                     *)

LEMMA InitAccounts ==
  ASSUME Init
  PROVE  AccountInv
<1>1. Typed
  BY EmptySeq DEF Init, Typed
<1>2. DOMAIN accounts = {} /\ DOMAIN codes = {}
  BY DEF Init
<1>3. RequestsKnow /\ RequestsApart
  BY DEF Init, RequestsKnow, RequestsApart
<1>4. AccountsKept /\ CodesCount
  BY <1>2 DEF AccountsKept, OneAccountPerPhone, WithdrawnLeavesNothing, CodesCount
<1>5. PhonesKept
  BY <1>2 DEF PhonesKept, PhoneKept, VerifiedSignups, FindUserByPhone, Pending
<1>6. QED
  BY <1>1, <1>3, <1>4, <1>5 DEF AccountInv

LEMMA NextAccounts ==
  ASSUME AccountInv, [Next]_vars
  PROVE  AccountInv'
<1>1. ASSUME NEW s \in Sessions, NEW p \in Phones, SendSignup(s, p) \/ SendLogin(s, p)
      PROVE  AccountInv'
  BY <1>1, BeginSendKeeps DEF SendSignup, SendLogin, Purposes
<1>2. ASSUME NEW s \in Sessions, NEW p \in Phones,
             \/ \E purpose \in Purposes : BeginRefused(s, purpose, p)
             \/ BeginConfirmSignup(s, p) \/ BeginConfirmLogin(s, p)
      PROVE  AccountInv'
  BY <1>2, BeginRefusedKeeps, BeginConfirmSignupKeeps, BeginConfirmLoginKeeps
<1>3. CASE UNCHANGED vars
  <2>1. /\ accounts' = accounts /\ codes' = codes /\ session' = session /\ impatient' = impatient
        /\ Patient' = Patient
    BY <1>3 DEF vars, Patient
  <2>2. Typed' /\ AccountsKept' /\ CodesCount' /\ PhonesKept' /\ RequestsApart'
    BY <2>1 DEF AccountInv, Typed, AccountsKept, OneAccountPerPhone, WithdrawnLeavesNothing,
         CodesCount, PhonesKept, PhoneKept, VerifiedSignups, FindUserByPhone, Pending,
         RequestsApart
  <2>3. RequestsKnow'
    BY <2>1 DEF AccountInv, RequestsKnow, Knows, StillReads, FindUserByPhone, Pending
  <2>4. QED
    BY <2>2, <2>3 DEF AccountInv
<1>4. QED
  BY <1>1, <1>2, <1>3, BeginProfileKeeps, CommitKeeps, AbortKeeps, TimeKeeps DEF Next

LEMMA AccountsCorrect == Spec => []AccountInv
<1>1. Init => AccountInv
  BY InitAccounts
<1>2. AccountInv /\ [Next]_vars => AccountInv'
  BY NextAccounts
<1>3. QED
  BY <1>1, <1>2, PTL DEF Spec

(* The rows keep their types and no code counts more attempts than the limit,  *)
(* for any number of requests that overlap.                                    *)
THEOREM AccountTypeCorrect == Spec => []TypeOK
<1>1. ASSUME AccountInv PROVE TypeOK
  <2>1. \A a \in DOMAIN accounts : accounts[a] \in AccountRows
    BY <1>1, TablesTyped DEF AccountInv
  <2>2. \A c \in DOMAIN codes : codes[c] \in CodeRows
    BY <1>1, TablesTyped DEF AccountInv
  <2>3. ASSUME NEW s \in Sessions, session[s] # NoRequest
        PROVE  session[s] \in [op : Operations, phone : Phones, account : 0..Len(accounts),
                               code : 0..Len(codes), attempts : 0..MaxAttempts,
                               gives : SUBSET Rows, saw : SUBSET Rows]
    <3>1. session[s] \in RequestRows /\ Knows(session[s])
      BY <1>1, <2>3 DEF AccountInv, Typed, RequestsKnow
    <3>2. session[s].account \in 0..Len(accounts) /\ session[s].code \in 0..Len(codes)
      BY <1>1, <3>1, TablesTyped DEF AccountInv, Knows
    <3>3. QED
      BY <3>1, <3>2 DEF RequestRows
  <2>4. QED
    BY <2>1, <2>2, <2>3 DEF TypeOK, AccountRows, CodeRows
<1>2. QED
  BY <1>1, AccountsCorrect, PTL

(* However many confirmations of a phone overlap, one account has it at most,  *)
(* and a withdrawn account has none: the unique key alone separates the look   *)
(* for the user from the INSERT (user_auth_service.py:84-103).                 *)
THEOREM OneAccountCorrect == Spec => []OneAccountPerPhone
  BY AccountsCorrect, PTL DEF AccountInv, AccountsKept

(* What a patient phone has withdrawn stays without a name, a device token and *)
(* a settlement account (user_withdrawal_service.py:52-57), whatever the       *)
(* other phones do at the same time.                                           *)
THEOREM WithdrawnCorrect == Spec => []WithdrawnLeavesNothing
  BY AccountsCorrect, PTL DEF AccountInv, AccountsKept

(* The code a patient phone can still use is the one that verify() compares.   *)
THEOREM LiveCodeCorrect == Spec => []LiveCodeIsTried
<1>1. ASSUME AccountInv PROVE LiveCodeIsTried
  <2> SUFFICES ASSUME NEW p \in Patient, NEW purpose \in Purposes,
                      NEW c \in Pending(purpose, p), codes[c].live
               PROVE  Tried(purpose, p) = {c}
    BY DEF LiveCodeIsTried
  <2>1. \A d \in Pending(purpose, p) : d <= c /\ d \in Nat
    BY <1>1, TablesTyped DEF AccountInv, PhonesKept, PhoneKept, Pending
  <2>2. QED
    BY <2>1 DEF Tried
<1>2. QED
  BY <1>1, AccountsCorrect, PTL

(* A patient phone has an account exactly when one SIGNUP code of it, which    *)
(* was delivered, is verified; without an account it has no LOGIN code.        *)
THEOREM CodesMatchCorrect == Spec => []CodesMatchAccounts
<1>1. ASSUME AccountInv PROVE CodesMatchAccounts
  <2> SUFFICES ASSUME NEW p \in Patient
               PROVE  /\ Cardinality(VerifiedSignups(p)) = Cardinality(FindUserByPhone(p))
                      /\ \A c \in VerifiedSignups(p) : codes[c].text = "SENT"
                      /\ FindUserByPhone(p) = {} =>
                            ~\E c \in DOMAIN codes : /\ codes[c].phone = p
                                                     /\ codes[c].purpose = "LOGIN"
                                                     /\ codes[c].status \in Stored
    BY DEF CodesMatchAccounts, VerifiedSignups
  <2>1. PhoneKept(p) /\ p # NoPhone
    BY <1>1, AccountsAssumption DEF AccountInv, PhonesKept, Patient
  <2>2. \A a, b \in FindUserByPhone(p) : a = b
    BY <1>1, <2>1 DEF AccountInv, AccountsKept, OneAccountPerPhone, FindUserByPhone
  <2>3. CASE FindUserByPhone(p) = {}
    <3>1. VerifiedSignups(p) = {}
      BY <2>1, <2>3 DEF PhoneKept
    <3>2. QED
      BY <2>1, <2>3, <3>1 DEF PhoneKept
  <2>4. CASE FindUserByPhone(p) # {}
    <3>1. PICK a : a \in FindUserByPhone(p)
      BY <2>4
    <3>2. PICK c : c \in VerifiedSignups(p)
      BY <2>1, <2>4 DEF PhoneKept
    <3>3. FindUserByPhone(p) = {a} /\ VerifiedSignups(p) = {c}
      BY <2>1, <2>2, <3>1, <3>2 DEF PhoneKept
    <3>4. Cardinality({a}) = 1 /\ Cardinality({c}) = 1
      BY FS_Singleton
    <3>5. QED
      BY <2>1, <3>3, <3>4 DEF PhoneKept
  <2>5. QED
    BY <2>3, <2>4
<1>2. QED
  BY <1>1, AccountsCorrect, PTL

--------------------------------------------------------------------------------
(* A patient phone's code is refused no more often than the limit, and tried   *)
(* no more once it has been, whatever the requests of other phones do          *)
(* (phone_verification_service.py:117-122).                                    *)
THEOREM PatientGuesses == Spec => []PatientGuessesBounded
<1>1. AccountInv => PatientGuessesBounded
  <2> SUFFICES ASSUME AccountInv, NEW c \in DOMAIN codes, codes[c].phone \in Patient
               PROVE  /\ codes[c].wrong <= MaxAttempts
                      /\ codes[c].status = "PENDING" => codes[c].wrong < MaxAttempts
    BY DEF PatientGuessesBounded
  <2>1. codes[c].wrong <= MaxAttempts
    BY DEF AccountInv, CodesCount
  <2>2. ASSUME codes[c].status = "PENDING" PROVE codes[c].wrong < MaxAttempts
    BY <2>2 DEF AccountInv, CodesCount, Stored
  <2>3. QED
    BY <2>1, <2>2
<1>2. QED
  BY <1>1, AccountsCorrect, PTL

================================================================================
