--------------------------- MODULE AccountsProofs ---------------------------
(* Proofs about Accounts, for any phones, e-mails and handlers, any rows   *)
(* administrators save and any lifetimes of tokens and proofs.             *)
EXTENDS Accounts, TLAPS

-----------------------------------------------------------------------------
(* The rules the handlers share.                                           *)

(* Every change of a row gives a row.                                      *)
LEMMA ChangeRule ==
    ASSUME NEW r \in Rows
    PROVE  /\ \A c \in Changes : Changed(r, c) \in Rows
           /\ \A e \in Emails \cup {Nobody} : [r EXCEPT !.email = e] \in Rows
           /\ [r EXCEPT !.status = "deleted", !.deleted = TRUE] \in Rows
           /\ Snapshot(r) \in Rows
           /\ NewUser \in Rows
BY DEF Rows, Changed, Changes, Statuses, Snapshot, NewUser

(* A commit over what others wrote gives a row, column by column.          *)
LEMMA WrittenRule ==
    ASSUME NEW now \in Rows, NEW seen \in Rows, NEW new \in Rows
    PROVE  /\ Written(now, seen, new) \in Rows
           /\ \A f \in {"status", "blocked", "deleted", "email"} :
                 Written(now, seen, new)[f] = IF new[f] # seen[f] THEN new[f] ELSE now[f]
BY DEF Rows, Written

(* What a handler holds, by its kind.                                      *)
LEMMA WorkRule ==
    ASSUME NEW w \in Works
    PROVE  /\ w.phone \in Phones
           /\ w.kind \in {"signup", "edit", "delete", "order", "profile"}
           /\ w.kind # "signup" => w.table \in Tables /\ w.seen \in Rows /\ w.new \in Rows
BY DEF Works

(* Storing a row keeps the types.                                          *)
LEMMA SetRowType ==
    ASSUME AccountsTypeOK, NEW t \in Tables, NEW p \in Phones,
           NEW r \in Rows \cup {Nobody}, SetRow(t, p, r)
    PROVE  /\ row' \in [Tables -> [Phones -> Rows \cup {Nobody}]]
           /\ quiet' \in [Tables -> [Phones -> 0 .. SessionTTL]]
BY TTLAssumption DEF AccountsTypeOK, SetRow

(* Issuing a token keeps the types.                                        *)
LEMMA IssueType ==
    ASSUME AccountsTypeOK, NEW t \in Tables, NEW p \in Phones, Issue(t, p)
    PROVE  session' \in [Tables -> [Phones -> 0 .. SessionTTL]]
BY TTLAssumption DEF AccountsTypeOK, Issue

(* Logging in by phone or e-mail, by password or proof, is one rule.       *)
LEMMA LoginCases ==
    /\ \A p \in Phones : UserLogin(p) \/ AdminLogin(p) \/ OtpLogin(p) \/ ResetPassword(p)
          => \E t \in Tables : LogsIn(t, p)
    /\ \A e \in Emails : UserEmailLogin(e) => \E t \in Tables, p \in Phones : LogsIn(t, p)
<1>1. ASSUME NEW p \in Phones,
             UserLogin(p) \/ AdminLogin(p) \/ OtpLogin(p) \/ ResetPassword(p)
      PROVE  \E t \in Tables : LogsIn(t, p)
  <2>1. LogsIn(Subject(p), p) \/ LogsIn("admin", p)
    BY <1>1 DEF UserLogin, AdminLogin, OtpLogin, ResetPassword
  <2>2. Subject(p) \in Tables /\ "admin" \in Tables
    BY DEF Subject, Tables
  <2> QED BY <2>1, <2>2
<1>2. ASSUME NEW e \in Emails, UserEmailLogin(e)
      PROVE  \E t \in Tables, p \in Phones : LogsIn(t, p)
  <2> DEFINE t == IF HoldersOf("user", e) # {} THEN "user" ELSE "admin"
  <2>1. PICK p \in HoldersOf(t, e) : LogsIn(t, p)
    BY <1>2 DEF UserEmailLogin
  <2>2. t \in Tables /\ p \in Phones
    BY <2>1 DEF HoldersOf, Tables
  <2> QED BY <2>1, <2>2
<1> QED BY <1>1, <1>2

(* The reads of the handlers that hold a row.                              *)
Reads(h) == \E p \in Phones :
    \/ OrderReads(h, p) \/ SweepReads(h, p)
    \/ \E c \in Edits : EditReads(h, p, c)
    \/ \E t \in Tables : DeleteReads(h, t, p)
    \/ \E t \in Tables, e \in Emails \cup {Nobody} : ProfileReads(h, t, p, e)

(* The steps of the specification, one by one.                             *)
LEMMA StepCases ==
    ASSUME AccountsNext
    PROVE  \/ Tick
           \/ \E t \in Tables, p \in Phones, r \in Payloads : Save(t, p, r)
           \/ \E p \in Phones : DeleteAdmin(p) \/ ProvePhone(p)
           \/ \E t \in Tables, p \in Phones : LogsIn(t, p) \/ Refresh(t, p)
           \/ \E h \in Handlers : SignupWrites(h) \/ RowWrites(h) \/ OrderWrites(h)
           \/ \E h \in Handlers, p \in Phones : SignupReads(h, p)
           \/ \E h \in Handlers : Reads(h)
BY LoginCases DEF AccountsNext, AdminSteps, Reads

-----------------------------------------------------------------------------
(* Types.                                                                  *)

(* What a handler reads is a row, and so is what it will write.            *)
LEMMA ReadsType ==
    ASSUME AccountsTypeOK, NEW h \in Handlers, Reads(h)
    PROVE  /\ \E w \in Works : Begin(h, w)
           /\ UNCHANGED <<row, session, proof, quiet>>
<1> USE DEF AccountsTypeOK
<1>1. ASSUME NEW kind \in {"edit", "delete", "order"}, NEW t \in Tables, NEW p \in Phones,
             NEW new \in Rows, Reading(h, kind, t, p, new)
      PROVE  /\ \E w \in Works : Begin(h, w)
             /\ UNCHANGED <<row, session, proof, quiet>>
  <2>1. [kind |-> kind, table |-> t, phone |-> p, seen |-> row[t][p], new |-> new] \in Works
    BY <1>1 DEF Reading, Works
  <2> QED BY <1>1, <2>1 DEF Reading
<1>2. PICK p \in Phones :
         \/ OrderReads(h, p) \/ SweepReads(h, p)
         \/ \E c \in Edits : EditReads(h, p, c)
         \/ \E t \in Tables : DeleteReads(h, t, p)
         \/ \E t \in Tables, e \in Emails \cup {Nobody} : ProfileReads(h, t, p, e)
  BY DEF Reads
<1>3. \A t \in Tables : row[t][p] # Nobody => row[t][p] \in Rows
  OBVIOUS
<1>4. "user" \in Tables
  BY DEF Tables
<1>5. CASE OrderReads(h, p) \/ SweepReads(h, p)
  <2>1. Reading(h, "order", "user", p, Snapshot(row["user"][p])) /\ row["user"][p] # Nobody
    BY <1>5 DEF OrderReads, SweepReads, Reading
  <2>2. Snapshot(row["user"][p]) \in Rows
    BY <1>3, <1>4, <2>1, ChangeRule
  <2> QED BY <1>1, <1>4, <2>1, <2>2
<1>6. ASSUME NEW c \in Edits, EditReads(h, p, c)
      PROVE  /\ \E w \in Works : Begin(h, w)
             /\ UNCHANGED <<row, session, proof, quiet>>
  <2>1. Changed(row["user"][p], c) \in Rows
    BY <1>3, <1>4, <1>6, ChangeRule, InputAssumption DEF EditReads
  <2> QED BY <1>1, <1>4, <1>6, <2>1 DEF EditReads
<1>7. ASSUME NEW t \in Tables, DeleteReads(h, t, p)
      PROVE  /\ \E w \in Works : Begin(h, w)
             /\ UNCHANGED <<row, session, proof, quiet>>
  <2>1. [row[t][p] EXCEPT !.status = "deleted", !.deleted = TRUE] \in Rows
    BY <1>3, <1>7, ChangeRule DEF DeleteReads
  <2> QED BY <1>1, <1>7, <2>1 DEF DeleteReads
<1>8. ASSUME NEW t \in Tables, NEW e \in Emails \cup {Nobody}, ProfileReads(h, t, p, e)
      PROVE  /\ \E w \in Works : Begin(h, w)
             /\ UNCHANGED <<row, session, proof, quiet>>
  <2>1. row[t][p] \in Rows /\ [row[t][p] EXCEPT !.email = e] \in Rows
    BY <1>3, <1>8, ChangeRule DEF ProfileReads, Authorised, IsRowActive
  <2>2. TakenEmails(t, p) \in SUBSET Emails
    BY DEF TakenEmails
  <2>3. [kind |-> "profile", table |-> t, phone |-> p, seen |-> row[t][p],
         new |-> [row[t][p] EXCEPT !.email = e], taken |-> TakenEmails(t, p)] \in Works
    BY <2>1, <2>2 DEF Works
  <2> QED BY <1>8, <2>3 DEF ProfileReads
<1> QED BY <1>2, <1>5, <1>6, <1>7, <1>8

(* The rows, sessions and proofs of phones, and what handlers hold, keep   *)
(* their types in every step.                                              *)
LEMMA TypeStep ==
    ASSUME AccountsTypeOK, [AccountsNext]_accountsVars
    PROVE  AccountsTypeOK'
<1>1. CASE Tick
  <2>1. \A n \in 1 .. SessionTTL : n - 1 \in 0 .. SessionTTL
    BY TTLAssumption
  <2>2. \A n \in 0 .. SessionTTL : n < SessionTTL => n + 1 \in 0 .. SessionTTL
    BY TTLAssumption
  <2> QED BY <1>1, <2>1, <2>2, TTLAssumption DEF Tick, AccountsTypeOK
<1>2. ASSUME NEW t \in Tables, NEW p \in Phones, NEW r \in Payloads, Save(t, p, r)
      PROVE  AccountsTypeOK'
  BY <1>2, SetRowType, InputAssumption DEF Save, AccountsTypeOK
<1>3. ASSUME NEW p \in Phones, DeleteAdmin(p)
      PROVE  AccountsTypeOK'
  <2>1. session' \in [Tables -> [Phones -> 0 .. SessionTTL]]
    BY <1>3, TTLAssumption DEF DeleteAdmin, AccountsTypeOK, Tables
  <2> QED BY <1>3, <2>1, SetRowType DEF DeleteAdmin, AccountsTypeOK, Tables
<1>4. ASSUME NEW p \in Phones, ProvePhone(p)
      PROVE  AccountsTypeOK'
  BY <1>4, TTLAssumption DEF ProvePhone, AccountsTypeOK
<1>5. ASSUME NEW t \in Tables, NEW p \in Phones, LogsIn(t, p) \/ Refresh(t, p)
      PROVE  AccountsTypeOK'
  BY <1>5, IssueType DEF LogsIn, Refresh, AccountsTypeOK
<1>6. ASSUME NEW h \in Handlers, SignupWrites(h)
      PROVE  AccountsTypeOK'
  <2> DEFINE p == work[h].phone
  <2>1. p \in Phones /\ "user" \in Tables /\ NewUser \in Rows
    BY <1>6, WorkRule DEF SignupWrites, AccountsTypeOK, Tables, Rows, NewUser, Statuses
  <2>2. CASE SetRow("user", p, NewUser) /\ Issue("user", p)
    BY <1>6, <2>1, <2>2, SetRowType, IssueType DEF SignupWrites, Finish, AccountsTypeOK
  <2>3. CASE UNCHANGED <<row, session, quiet>>
    BY <1>6, <2>3 DEF SignupWrites, Finish, AccountsTypeOK
  <2> QED BY <1>6, <2>2, <2>3 DEF SignupWrites
<1>7. ASSUME NEW h \in Handlers, RowWrites(h)
      PROVE  AccountsTypeOK'
  <2> DEFINE w == work[h]
             now == row[w.table][w.phone]
  <2>1. /\ w \in Works /\ w.table \in Tables /\ w.phone \in Phones
        /\ w.seen \in Rows /\ w.new \in Rows
    BY <1>7, WorkRule DEF RowWrites, AccountsTypeOK
  <2>2. CASE now # Nobody /\ SetRow(w.table, w.phone, Written(now, w.seen, w.new))
    <3>1. Written(now, w.seen, w.new) \in Rows
      BY <2>1, <2>2, WrittenRule DEF AccountsTypeOK
    <3> QED BY <1>7, <2>1, <2>2, <3>1, SetRowType DEF RowWrites, Finish, AccountsTypeOK
  <2>3. CASE UNCHANGED <<row, quiet>>
    BY <1>7, <2>3 DEF RowWrites, Finish, AccountsTypeOK
  <2> QED BY <1>7, <2>2, <2>3 DEF RowWrites
<1>8. ASSUME NEW h \in Handlers, OrderWrites(h)
      PROVE  AccountsTypeOK'
  <2> DEFINE w == work[h]
  <2>1. w.phone \in Phones /\ w.new \in Rows /\ "user" \in Tables
    BY <1>8, WorkRule DEF OrderWrites, AccountsTypeOK, Tables
  <2>2. CASE SetRow("user", w.phone, w.new)
    BY <1>8, <2>1, <2>2, SetRowType DEF OrderWrites, Finish, AccountsTypeOK
  <2>3. CASE UNCHANGED <<row, quiet>>
    BY <1>8, <2>3 DEF OrderWrites, Finish, AccountsTypeOK
  <2> QED BY <1>8, <2>2, <2>3 DEF OrderWrites
<1>9. ASSUME NEW h \in Handlers, NEW p \in Phones, SignupReads(h, p)
      PROVE  AccountsTypeOK'
  <2>1. [kind |-> "signup", phone |-> p] \in Works
    BY DEF Works
  <2> QED BY <1>9, <2>1 DEF SignupReads, Begin, AccountsTypeOK
<1>10. ASSUME NEW h \in Handlers, Reads(h)
       PROVE  AccountsTypeOK'
  BY <1>10, ReadsType DEF Begin, AccountsTypeOK
<1>11. CASE UNCHANGED accountsVars
  BY <1>11 DEF accountsVars, AccountsTypeOK
<1> QED BY <1>1, <1>2, <1>3, <1>4, <1>5, <1>6, <1>7, <1>8, <1>9, <1>10, <1>11, StepCases

(* Whatever handlers overlap, rows stay rows, and no token or proof is in  *)
(* force for longer than its lifetime.                                     *)
THEOREM AccountsTypeCorrect == AccountsSpec => []AccountsTypeOK
<1>1. AccountsInit => AccountsTypeOK
  BY TTLAssumption DEF AccountsInit, AccountsTypeOK
<1>2. AccountsTypeOK /\ [AccountsNext]_accountsVars => AccountsTypeOK'
  BY TypeStep
<1> QED BY <1>1, <1>2, PTL DEF AccountsSpec

-----------------------------------------------------------------------------
(* Sessions.                                                               *)

(* A token in force is older than its account has been out of use, and an  *)
(* account in use has not been out of use at all.                          *)
SessionInv ==
    \A t \in Tables, p \in Phones :
        /\ session[t][p] + quiet[t][p] <= SessionTTL
        /\ IsRowActive(row[t][p]) => quiet[t][p] = 0

(* Storing a row, with or without a token for a row that is in use.        *)
LEMMA SetRowSession ==
    ASSUME AccountsTypeOK, SessionInv, NEW t \in Tables, NEW p \in Phones, NEW r,
           SetRow(t, p, r), UNCHANGED session \/ (IsRowActive(r) /\ Issue(t, p))
    PROVE  SessionInv'
<1> SUFFICES ASSUME NEW s \in Tables, NEW q \in Phones
             PROVE  (/\ session[s][q] + quiet[s][q] <= SessionTTL
                     /\ IsRowActive(row[s][q]) => quiet[s][q] = 0)'
  BY DEF SessionInv
<1>1. /\ session[s][q] \in 0 .. SessionTTL /\ quiet[s][q] \in 0 .. SessionTTL
      /\ session[s][q] + quiet[s][q] <= SessionTTL
      /\ IsRowActive(row[s][q]) => quiet[s][q] = 0
  BY DEF AccountsTypeOK, SessionInv
<1>2. CASE <<s, q>> = <<t, p>>
  <2>1. row'[s][q] = r /\ quiet'[s][q] = IF IsRowActive(r) THEN 0 ELSE quiet[s][q]
    BY <1>2 DEF SetRow, AccountsTypeOK
  <2>2. session'[s][q] = session[s][q] \/ (IsRowActive(r) /\ session'[s][q] = SessionTTL)
    BY <1>2 DEF Issue, AccountsTypeOK
  <2> QED BY <1>1, <2>1, <2>2, TTLAssumption
<1>3. CASE <<s, q>> # <<t, p>>
  <2>1. UNCHANGED <<row[s][q], quiet[s][q], session[s][q]>>
    BY <1>3 DEF SetRow, Issue, AccountsTypeOK
  <2> QED BY <1>1, <2>1
<1> QED BY <1>2, <1>3

(* Only an account in use gets a token, and time takes from the token what *)
(* it adds to the account's time out of use.                               *)
LEMMA SessionStep ==
    ASSUME AccountsTypeOK, SessionInv, [AccountsNext]_accountsVars
    PROVE  SessionInv'
<1>1. CASE Tick
  <2> SUFFICES ASSUME NEW s \in Tables, NEW q \in Phones
               PROVE  (/\ session[s][q] + quiet[s][q] <= SessionTTL
                       /\ IsRowActive(row[s][q]) => quiet[s][q] = 0)'
    BY DEF SessionInv
  <2>1. /\ session[s][q] \in 0 .. SessionTTL /\ quiet[s][q] \in 0 .. SessionTTL
        /\ session[s][q] + quiet[s][q] <= SessionTTL
    BY DEF AccountsTypeOK, SessionInv
  <2>2. /\ session'[s][q] = IF session[s][q] > 0 THEN session[s][q] - 1 ELSE 0
        /\ quiet'[s][q] = IF IsRowActive(row[s][q]) THEN 0
                          ELSE IF quiet[s][q] < SessionTTL THEN quiet[s][q] + 1
                          ELSE SessionTTL
        /\ row' = row
    BY <1>1 DEF Tick
  <2> QED BY <2>1, <2>2, TTLAssumption
<1>2. ASSUME NEW t \in Tables, NEW p \in Phones, NEW r \in Payloads, Save(t, p, r)
      PROVE  SessionInv'
  BY <1>2, SetRowSession DEF Save
<1>3. ASSUME NEW p \in Phones, DeleteAdmin(p)
      PROVE  SessionInv'
  <2> SUFFICES ASSUME NEW s \in Tables, NEW q \in Phones
               PROVE  (/\ session[s][q] + quiet[s][q] <= SessionTTL
                       /\ IsRowActive(row[s][q]) => quiet[s][q] = 0)'
    BY DEF SessionInv
  <2>1. /\ session[s][q] \in 0 .. SessionTTL /\ quiet[s][q] \in 0 .. SessionTTL
        /\ session[s][q] + quiet[s][q] <= SessionTTL
        /\ IsRowActive(row[s][q]) => quiet[s][q] = 0
    BY DEF AccountsTypeOK, SessionInv
  <2>2. ~ IsRowActive(Nobody)
    BY DEF IsRowActive
  <2>3. /\ quiet'[s][q] = quiet[s][q]
        /\ session'[s][q] \in {0, session[s][q]}
        /\ row'[s][q] \in {Nobody, row[s][q]}
    BY <1>3, <2>2 DEF DeleteAdmin, SetRow, AccountsTypeOK, Tables
  <2> QED BY <2>1, <2>2, <2>3
<1>4. ASSUME NEW p \in Phones, ProvePhone(p)
      PROVE  SessionInv'
  BY <1>4 DEF ProvePhone, SessionInv
<1>5. ASSUME NEW t \in Tables, NEW p \in Phones, LogsIn(t, p) \/ Refresh(t, p)
      PROVE  SessionInv'
  <2>1. /\ IsRowActive(row[t][p]) /\ Issue(t, p) /\ UNCHANGED <<row, quiet>>
        /\ quiet[t][p] = 0
    BY <1>5 DEF LogsIn, Refresh, Authorised, SessionInv
  <2> SUFFICES ASSUME NEW s \in Tables, NEW q \in Phones
               PROVE  session'[s][q] + quiet[s][q] <= SessionTTL
    BY <2>1 DEF SessionInv
  <2>2. CASE <<s, q>> = <<t, p>>
    BY <2>1, <2>2, TTLAssumption DEF Issue, AccountsTypeOK
  <2>3. CASE <<s, q>> # <<t, p>>
    BY <2>1, <2>3 DEF Issue, AccountsTypeOK, SessionInv
  <2> QED BY <2>2, <2>3
<1>6. ASSUME NEW h \in Handlers, SignupWrites(h)
      PROVE  SessionInv'
  <2> DEFINE p == work[h].phone
  <2>1. p \in Phones /\ "user" \in Tables
    BY <1>6, WorkRule DEF SignupWrites, AccountsTypeOK, Tables
  <2>2. IsRowActive(NewUser)
    <3>1. NewUser \in Rows
      BY DEF NewUser, Rows, Statuses
    <3>2. NewUser # Nobody
      BY <3>1, NobodyAssumption
    <3> QED BY <3>2 DEF IsRowActive, NewUser
  <2>3. CASE SetRow("user", p, NewUser) /\ Issue("user", p)
    BY <2>1, <2>2, <2>3, SetRowSession
  <2>4. CASE UNCHANGED <<row, session, quiet>>
    BY <2>4 DEF SessionInv
  <2> QED BY <1>6, <2>3, <2>4 DEF SignupWrites
<1>7. ASSUME NEW h \in Handlers, RowWrites(h)
      PROVE  SessionInv'
  <2> DEFINE w == work[h]
             now == row[w.table][w.phone]
  <2>1. w.table \in Tables /\ w.phone \in Phones
    BY <1>7, WorkRule DEF RowWrites, AccountsTypeOK
  <2>2. CASE SetRow(w.table, w.phone, Written(now, w.seen, w.new))
    BY <1>7, <2>1, <2>2, SetRowSession DEF RowWrites
  <2>3. CASE UNCHANGED <<row, quiet>>
    BY <1>7, <2>3 DEF RowWrites, SessionInv
  <2> QED BY <1>7, <2>2, <2>3 DEF RowWrites
<1>8. ASSUME NEW h \in Handlers, OrderWrites(h)
      PROVE  SessionInv'
  <2> DEFINE w == work[h]
  <2>1. w.phone \in Phones /\ "user" \in Tables
    BY <1>8, WorkRule DEF OrderWrites, AccountsTypeOK, Tables
  <2>2. CASE SetRow("user", w.phone, w.new)
    BY <1>8, <2>1, <2>2, SetRowSession DEF OrderWrites
  <2>3. CASE UNCHANGED <<row, quiet>>
    BY <1>8, <2>3 DEF OrderWrites, SessionInv
  <2> QED BY <1>8, <2>2, <2>3 DEF OrderWrites
<1>9. ASSUME NEW h \in Handlers, NEW p \in Phones, SignupReads(h, p)
      PROVE  SessionInv'
  BY <1>9 DEF SignupReads, SessionInv
<1>10. ASSUME NEW h \in Handlers, Reads(h)
       PROVE  SessionInv'
  BY <1>10, ReadsType DEF SessionInv
<1>11. CASE UNCHANGED accountsVars
  BY <1>11 DEF accountsVars, SessionInv
<1> QED BY <1>1, <1>2, <1>3, <1>4, <1>5, <1>6, <1>7, <1>8, <1>9, <1>10, <1>11, StepCases

(* However logins, proofs, resets, refreshes and signups overlap with what *)
(* ends an account, no token is in force once the account has been out of  *)
(* use for the lifetime of a token.                                        *)
THEOREM SessionsEnd == AccountsSpec => []SessionsEndWithAccount
<1>1. AccountsInit => SessionInv
  BY TTLAssumption DEF AccountsInit, SessionInv, IsRowActive
<1>2. AccountsTypeOK /\ SessionInv /\ [AccountsNext]_accountsVars => SessionInv'
  BY SessionStep
<1>3. AccountsTypeOK /\ SessionInv => SessionsEndWithAccount
  <2> SUFFICES ASSUME AccountsTypeOK, SessionInv, NEW t \in Tables, NEW p \in Phones,
                      quiet[t][p] = SessionTTL
               PROVE  session[t][p] = 0
    BY DEF SessionsEndWithAccount
  <2> QED BY TTLAssumption DEF AccountsTypeOK, SessionInv
<1> QED BY <1>1, <1>2, <1>3, AccountsTypeCorrect, PTL DEF AccountsSpec

-----------------------------------------------------------------------------
(* Who changes an account.                                                 *)

(* What a handler will write is what its kind makes of the row it read: a  *)
(* profile changes the e-mail alone, to one that was free; a deletion ends *)
(* an account that was not ended; an order writes the customer's row back. *)
SoundWork(w) ==
    /\ w.kind = "profile" =>
          /\ \A f \in {"status", "blocked", "deleted"} : w.new[f] = w.seen[f]
          /\ w.new.email \notin w.taken
    /\ w.kind = "delete" =>
          w.seen.status # "deleted" /\ w.new.status = "deleted"
    /\ w.kind \in {"edit", "order"} => w.table = "user"
    /\ w.kind = "order" => w.new = Snapshot(w.seen)

WorkInv == \A h \in Handlers : work[h] # Nobody => SoundWork(work[h])

(* Handlers read what they may work on.                                    *)
LEMMA ReadsWork ==
    ASSUME AccountsTypeOK, NEW h \in Handlers, Reads(h)
    PROVE  \E w \in Works : Begin(h, w) /\ SoundWork(w)
<1> USE DEF AccountsTypeOK
<1>1. ASSUME NEW kind \in {"edit", "delete", "order"}, NEW t \in Tables, NEW p \in Phones,
             NEW new \in Rows, Reading(h, kind, t, p, new),
             kind = "delete" => row[t][p].status # "deleted" /\ new.status = "deleted",
             kind \in {"edit", "order"} => t = "user",
             kind = "order" => new = Snapshot(row[t][p])
      PROVE  \E w \in Works : Begin(h, w) /\ SoundWork(w)
  <2> DEFINE w == [kind |-> kind, table |-> t, phone |-> p, seen |-> row[t][p], new |-> new]
  <2>1. w \in Works /\ Begin(h, w)
    BY <1>1 DEF Reading, Works
  <2>2. SoundWork(w)
    BY <1>1 DEF SoundWork
  <2> QED BY <2>1, <2>2
<1>2. PICK p \in Phones :
         \/ OrderReads(h, p) \/ SweepReads(h, p)
         \/ \E c \in Edits : EditReads(h, p, c)
         \/ \E t \in Tables : DeleteReads(h, t, p)
         \/ \E t \in Tables, e \in Emails \cup {Nobody} : ProfileReads(h, t, p, e)
  BY DEF Reads
<1>3. \A t \in Tables : row[t][p] # Nobody => row[t][p] \in Rows
  OBVIOUS
<1>4. "user" \in Tables
  BY DEF Tables
<1>5. CASE OrderReads(h, p) \/ SweepReads(h, p)
  <2>1. Reading(h, "order", "user", p, Snapshot(row["user"][p])) /\ row["user"][p] # Nobody
    BY <1>5 DEF OrderReads, SweepReads, Reading
  <2>2. Snapshot(row["user"][p]) \in Rows
    BY <1>3, <1>4, <2>1, ChangeRule
  <2> QED BY <1>1, <1>4, <2>1, <2>2
<1>6. ASSUME NEW c \in Edits, EditReads(h, p, c)
      PROVE  \E w \in Works : Begin(h, w) /\ SoundWork(w)
  <2>1. Changed(row["user"][p], c) \in Rows
    BY <1>3, <1>4, <1>6, ChangeRule, InputAssumption DEF EditReads
  <2> QED BY <1>1, <1>4, <1>6, <2>1 DEF EditReads
<1>7. ASSUME NEW t \in Tables, DeleteReads(h, t, p)
      PROVE  \E w \in Works : Begin(h, w) /\ SoundWork(w)
  <2> DEFINE new == [row[t][p] EXCEPT !.status = "deleted", !.deleted = TRUE]
  <2>1. row[t][p] \in Rows /\ row[t][p].status # "deleted"
    BY <1>3, <1>7 DEF DeleteReads
  <2>2. new \in Rows /\ new.status = "deleted"
    BY <2>1, ChangeRule DEF Rows
  <2> HIDE DEF new
  <2>3. Reading(h, "delete", t, p, new)
    BY <1>7 DEF DeleteReads, new
  <2> QED BY <1>1, <2>1, <2>2, <2>3
<1>8. ASSUME NEW t \in Tables, NEW e \in Emails \cup {Nobody}, ProfileReads(h, t, p, e)
      PROVE  \E w \in Works : Begin(h, w) /\ SoundWork(w)
  <2> DEFINE new == [row[t][p] EXCEPT !.email = e]
             w == [kind |-> "profile", table |-> t, phone |-> p, seen |-> row[t][p],
                   new |-> new, taken |-> TakenEmails(t, p)]
  <2>1. row[t][p] \in Rows /\ new \in Rows
    BY <1>3, <1>8, ChangeRule DEF ProfileReads, Authorised, IsRowActive
  <2>2. /\ new.email = e
        /\ \A f \in {"status", "blocked", "deleted"} : new[f] = row[t][p][f]
    BY <2>1 DEF Rows
  <2> HIDE DEF new
  <2>3. TakenEmails(t, p) \in SUBSET Emails
    BY DEF TakenEmails
  <2>4. w \in Works
    BY <2>1, <2>3 DEF Works
  <2>5. SoundWork(w)
    BY <1>8, <2>2 DEF SoundWork, ProfileReads
  <2> QED BY <1>8, <2>4, <2>5 DEF ProfileReads, new
<1> QED BY <1>2, <1>5, <1>6, <1>7, <1>8

LEMMA WorkStep ==
    ASSUME AccountsTypeOK, WorkInv, [AccountsNext]_accountsVars
    PROVE  WorkInv'
<1> USE DEF WorkInv
<1>1. ASSUME NEW h \in Handlers, NEW w, Begin(h, w), SoundWork(w)
      PROVE  WorkInv'
  BY <1>1 DEF Begin, AccountsTypeOK
<1>2. ASSUME NEW h \in Handlers, Finish(h)
      PROVE  WorkInv'
  BY <1>2 DEF Finish, AccountsTypeOK
<1>3. CASE UNCHANGED work
  BY <1>3
<1>4. ASSUME NEW h \in Handlers, NEW p \in Phones, SignupReads(h, p)
      PROVE  WorkInv'
  BY <1>1, <1>4 DEF SignupReads, SoundWork
<1>5. ASSUME NEW h \in Handlers, Reads(h)
      PROVE  WorkInv'
  BY <1>1, <1>5, ReadsWork
<1>6. ASSUME NEW h \in Handlers, SignupWrites(h) \/ RowWrites(h) \/ OrderWrites(h)
      PROVE  WorkInv'
  BY <1>2, <1>6 DEF SignupWrites, RowWrites, OrderWrites
<1> QED BY <1>3, <1>4, <1>5, <1>6, StepCases
        DEF Tick, Save, DeleteAdmin, ProvePhone, LogsIn, Refresh, accountsVars

(* Who ends a handler's work is that handler itself.                       *)
LEMMA EndsOwnWork ==
    ASSUME AccountsTypeOK, AccountsNext, NEW h \in Handlers,
           work[h] # Nobody, work'[h] = Nobody
    PROVE  SignupWrites(h) \/ RowWrites(h) \/ OrderWrites(h)
<1> USE DEF AccountsTypeOK
<1>1. ASSUME NEW g \in Handlers, NEW w, Begin(g, w)
      PROVE  FALSE
  BY <1>1 DEF Begin
<1>2. ASSUME NEW g \in Handlers, Finish(g)
      PROVE  g = h
  BY <1>2 DEF Finish
<1>3. ASSUME NEW g \in Handlers, SignupWrites(g) \/ RowWrites(g) \/ OrderWrites(g)
      PROVE  g = h
  BY <1>2, <1>3 DEF SignupWrites, RowWrites, OrderWrites
<1>4. ASSUME NEW g \in Handlers, NEW p \in Phones, SignupReads(g, p)
      PROVE  FALSE
  BY <1>1, <1>4 DEF SignupReads
<1>5. ASSUME NEW g \in Handlers, Reads(g)
      PROVE  FALSE
  BY <1>1, <1>5, ReadsType
<1> QED BY <1>3, <1>4, <1>5, StepCases
        DEF Tick, Save, DeleteAdmin, ProvePhone, LogsIn, Refresh

(* The row of the handler's own phone and table changes, and no other one. *)
LEMMA SetRowElsewhere ==
    ASSUME AccountsTypeOK, NEW t \in Tables, NEW p \in Phones, NEW r, SetRow(t, p, r),
           NEW s \in Tables, NEW q \in Phones, row'[s][q] # row[s][q]
    PROVE  s = t /\ q = p /\ row'[s][q] = r
BY DEF SetRow, AccountsTypeOK

(* A deletion or an edit of one's own profile does not bring an account    *)
(* back, and an order only one whose status it read as "active".           *)
LEMMA RevivedStep ==
    ASSUME AccountsTypeOK, WorkInv, AccountsNext, NEW p \in Phones,
           row["user"][p] # Nobody, ~ IsRowActive(row["user"][p]),
           IsRowActive(row'["user"][p])
    PROVE  \/ AdminSteps
           \/ \E h \in Handlers : /\ work[h] # Nobody /\ work'[h] = Nobody
                                  /\ work[h].kind \in {"edit", "order"}
                                  /\ work[h].phone = p
                                  /\ work[h].kind = "order"
                                     => work[h].seen.status = "active"
<1> DEFINE Revives(h) == /\ work[h] # Nobody /\ work'[h] = Nobody
                         /\ work[h].kind \in {"edit", "order"}
                         /\ work[h].phone = p
                         /\ work[h].kind = "order" => work[h].seen.status = "active"
<1>1. "user" \in Tables /\ row'["user"][p] # row["user"][p]
  BY DEF Tables
<1>2. CASE AdminSteps
  BY <1>2
<1>3. ASSUME NEW h \in Handlers, SignupWrites(h)
      PROVE  FALSE
  <2>1. work[h].phone \in Phones
    BY <1>3, WorkRule DEF SignupWrites, AccountsTypeOK
  <2>2. /\ row["user"][work[h].phone] = Nobody
        /\ SetRow("user", work[h].phone, NewUser)
    BY <1>1, <1>3 DEF SignupWrites
  <2> QED BY <1>1, <2>1, <2>2, SetRowElsewhere
<1>4. ASSUME NEW h \in Handlers, RowWrites(h)
      PROVE  Revives(h)
  <2> DEFINE w == work[h]
             now == row[w.table][w.phone]
             new == Written(now, w.seen, w.new)
  <2>1. /\ w \in Works /\ w.table \in Tables /\ w.phone \in Phones
        /\ w.seen \in Rows /\ w.new \in Rows
        /\ w.kind \in {"profile", "delete", "edit"} /\ SoundWork(w)
    BY <1>4, WorkRule DEF RowWrites, AccountsTypeOK, WorkInv
  <2>2. SetRow(w.table, w.phone, new) /\ now # Nobody
    BY <1>1, <1>4 DEF RowWrites
  <2>3. w.table = "user" /\ w.phone = p /\ row'["user"][p] = new
    BY <1>1, <2>1, <2>2, SetRowElsewhere
  <2>4. /\ now \in Rows
        /\ \A f \in {"status", "blocked", "deleted", "email"} :
              new[f] = IF w.new[f] # w.seen[f] THEN w.new[f] ELSE now[f]
    <3>1. now \in Rows
      BY <2>1, <2>2 DEF AccountsTypeOK
    <3> HIDE DEF w, now
    <3> QED BY <2>1, <3>1, WrittenRule
  <2>5. w.kind # "profile"
    BY <2>1, <2>2, <2>3, <2>4 DEF IsRowActive, SoundWork
  <2>6. w.kind # "delete"
    BY <2>1, <2>3, <2>4 DEF IsRowActive, SoundWork
  <2>7. work'[h] = Nobody
    BY <1>4 DEF RowWrites, Finish, AccountsTypeOK
  <2> QED BY <1>4, <2>1, <2>3, <2>5, <2>6, <2>7 DEF RowWrites
<1>5. ASSUME NEW h \in Handlers, OrderWrites(h)
      PROVE  Revives(h)
  <2> DEFINE w == work[h]
  <2>1. w.phone \in Phones /\ w.new = Snapshot(w.seen) /\ w.seen \in Rows /\ w.kind = "order"
    BY <1>5, WorkRule DEF OrderWrites, AccountsTypeOK, WorkInv, SoundWork
  <2>2. SetRow("user", w.phone, w.new)
    BY <1>1, <1>5 DEF OrderWrites
  <2>3. w.phone = p /\ row'["user"][p] = w.new
    BY <1>1, <2>1, <2>2, SetRowElsewhere
  <2>4. w.seen.status = "active"
    BY <2>1, <2>3 DEF Snapshot, Rows, IsRowActive
  <2>5. work'[h] = Nobody
    BY <1>5 DEF OrderWrites, Finish, AccountsTypeOK
  <2> QED BY <1>5, <2>1, <2>3, <2>4, <2>5 DEF OrderWrites
<1>6. ASSUME NEW h \in Handlers, Reads(h)
      PROVE  FALSE
  BY <1>1, <1>6, ReadsType
<1>7. CASE AdminSteps \/ \E h \in Handlers : Revives(h)
  BY <1>7
<1> QED BY <1>1, <1>3, <1>4, <1>5, <1>6, <1>7, StepCases
        DEF Tick, ProvePhone, LogsIn, Refresh, SignupReads, AdminSteps

(* A profile's e-mail belongs to another account only if that account got  *)
(* it after the handler had looked.                                        *)
LEMMA EmailStep ==
    ASSUME AccountsTypeOK, WorkInv, AccountsNext, NEW h \in Handlers,
           work[h] # Nobody, work'[h] = Nobody, work[h].kind = "profile"
    PROVE  LET w == work[h] IN
           \/ row' = row
           \/ row'[w.table][w.phone].email \notin TakenEmails(w.table, w.phone)
           \/ row'[w.table][w.phone].email \notin w.taken
<1> DEFINE w == work[h]
           now == row[w.table][w.phone]
           new == Written(now, w.seen, w.new)
<1>1. RowWrites(h)
  BY EndsOwnWork DEF SignupWrites, OrderWrites
<1>2. /\ w.table \in Tables /\ w.phone \in Phones /\ w.seen \in Rows /\ w.new \in Rows
      /\ SoundWork(w)
  BY WorkRule DEF AccountsTypeOK, WorkInv
<1>3. CASE now # Nobody /\ SetRow(w.table, w.phone, new)
  <2>1. /\ now \in Rows /\ new \in Rows
        /\ \A f \in {"status", "blocked", "deleted", "email"} :
              new[f] = IF w.new[f] # w.seen[f] THEN w.new[f] ELSE now[f]
    <3>1. now \in Rows
      BY <1>2, <1>3 DEF AccountsTypeOK
    <3> HIDE DEF w, now
    <3> QED BY <1>2, <3>1, WrittenRule
  <2>2. row'[w.table][w.phone] = new
    BY <1>2, <1>3 DEF SetRow, AccountsTypeOK
  <2>3. CASE w.new.email # w.seen.email
    BY <1>2, <2>1, <2>2, <2>3 DEF SoundWork
  <2>4. CASE w.new.email = w.seen.email
    <3>1. new = now
      BY <1>2, <2>1, <2>4 DEF SoundWork, Rows
    <3>2. row' = row
      BY <1>2, <1>3, <3>1 DEF SetRow, AccountsTypeOK
    <3> QED BY <3>2
  <2> QED BY <2>3, <2>4
<1> QED BY <1>1, <1>3 DEF RowWrites

(* The row an order writes back is the one it read, if that was in use.    *)
LEMMA UndisturbedStep ==
    ASSUME AccountsTypeOK, WorkInv, AccountsNext, NEW h \in Handlers,
           work[h] # Nobody, work'[h] = Nobody, work[h].kind = "order",
           IsRowActive(work[h].seen), row["user"][work[h].phone] = work[h].seen
    PROVE  row' = row
<1> DEFINE w == work[h]
<1>1. OrderWrites(h)
  BY EndsOwnWork DEF SignupWrites, RowWrites
<1>2. w.phone \in Phones /\ w.seen \in Rows /\ w.new = Snapshot(w.seen)
  BY WorkRule DEF AccountsTypeOK, WorkInv, SoundWork
<1>3. w.new = w.seen
  BY <1>2 DEF Snapshot, Rows, IsRowActive
<1>4. CASE SetRow("user", w.phone, w.new)
  BY <1>2, <1>3, <1>4 DEF SetRow, AccountsTypeOK, Tables
<1> QED BY <1>1, <1>4 DEF OrderWrites

(* Nobody's account changes out of turn, for any number of handlers: an    *)
(* ended account comes back by administrators and orders only, e-mails are *)
(* taken in races only, and an undisturbed order leaves the account alone. *)
THEOREM AccountsInTurn == AccountsSpec => AccountsChangeInTurn
<1>1. AccountsInit => WorkInv
  BY DEF AccountsInit, WorkInv
<1>2. AccountsTypeOK /\ WorkInv /\ [AccountsNext]_accountsVars => WorkInv'
  BY WorkStep
<1>3. ASSUME AccountsTypeOK, WorkInv, [AccountsNext]_accountsVars
      PROVE  [\A p \in Phones :
                 (row["user"][p] # Nobody /\ ~ IsRowActive(row["user"][p])
                     /\ IsRowActive(row'["user"][p]))
                 => \/ AdminSteps
                    \/ \E h \in Handlers : /\ work[h] # Nobody /\ work'[h] = Nobody
                                           /\ work[h].kind \in {"edit", "order"}
                                           /\ work[h].phone = p
                                           /\ work[h].kind = "order"
                                              => work[h].seen.status = "active"
             ]_accountsVars
  BY <1>3, RevivedStep
<1>4. ASSUME AccountsTypeOK, WorkInv, [AccountsNext]_accountsVars
      PROVE  [\A h \in Handlers :
                 (work[h] # Nobody /\ work'[h] = Nobody /\ work[h].kind = "profile") =>
                     LET w == work[h] IN
                     \/ row' = row
                     \/ row'[w.table][w.phone].email \notin TakenEmails(w.table, w.phone)
                     \/ row'[w.table][w.phone].email \notin w.taken
             ]_accountsVars
  BY <1>4, EmailStep
<1>5. ASSUME AccountsTypeOK, WorkInv, [AccountsNext]_accountsVars
      PROVE  [\A h \in Handlers :
                 (work[h] # Nobody /\ work'[h] = Nobody /\ work[h].kind = "order") =>
                     LET w == work[h] IN
                     (IsRowActive(w.seen) /\ row["user"][w.phone] = w.seen) => row' = row
             ]_accountsVars
  BY <1>5, UndisturbedStep
<1>6. AccountsSpec => []AccountsTypeOK
  BY AccountsTypeCorrect
<1> QED BY <1>1, <1>2, <1>3, <1>4, <1>5, <1>6, PTL
        DEF AccountsSpec, AccountsChangeInTurn, RevivedOnlyByAdminOrOrder,
            EmailTakenOnlyInRace, UndisturbedOrderKeepsAccount
=============================================================================
