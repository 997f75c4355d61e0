------------------------------- MODULE Accounts -------------------------------
(***************************************************************************)
(* The accounts of customers (app_users) and administrators (admin_users), *)
(* their sessions, and who may change what.                                *)
(*                                                                         *)
(* Sessions are signed tokens and proofs of a phone are signed as well:    *)
(* neither is stored, both are valid until they expire, and every handler  *)
(* looks its account up again.  Handlers read a row and write it later;    *)
(* an order writes the account back as it was when the order began, a      *)
(* round trip to the payment and eSIM providers ago.                       *)
(*                                                                         *)
(* Names, passwords, permissions and preferences are left out.  A phone is *)
(* its canonical form, which every lookup falls back to, and the           *)
(* administrators who act on the accounts are outside of them.             *)
(***************************************************************************)
EXTENDS Naturals, FiniteSets

CONSTANTS
    Phones,      \* canonical phone numbers
    Emails,      \* e-mail addresses, lower case
    Nobody,      \* no row of that phone; no e-mail; an idle handler
    Handlers,    \* requests that are between their reads and their writes
    Payloads,    \* the rows administrators save
    Edits,       \* the changes they make to a customer's row
    SessionTTL,  \* lifetime of a token, in ticks
    ProofTTL     \* lifetime of a proof of a phone, in ticks

ASSUME TTLAssumption == SessionTTL \in Nat \ {0} /\ ProofTTL \in Nat \ {0}

Tables   == {"user", "admin"}
Statuses == {"active", "blocked", "suspended", "deleted"}

Rows == [status : Statuses, blocked : BOOLEAN, deleted : BOOLEAN,
         email : Emails \cup {Nobody}]

(* admin_update_user and _soft_delete_user_row, as changes of a row.       *)
Changes == {"block", "unblock", "remove"} \cup Statuses

ASSUME InputAssumption == Payloads \subseteq Rows /\ Edits \subseteq Changes

VARIABLES
    row,      \* row[t][p]: the row of phone p in table t
    session,  \* session[t][p]: ticks the last token of that row has left
    proof,    \* proof[p]: ticks the last proof of phone p has left
    work,     \* what each handler has read and still has to write
    quiet     \* history: ticks the row has been out of use, up to SessionTTL

accountsVars == <<row, session, proof, work, quiet>>

Works ==
    [kind : {"signup"}, phone : Phones]
    \cup [kind : {"edit", "delete", "order"}, table : Tables, phone : Phones,
          seen : Rows, new : Rows]
    \cup [kind : {"profile"}, table : Tables, phone : Phones,
          seen : Rows, new : Rows, taken : SUBSET Emails]

ASSUME NobodyAssumption == Nobody \notin Emails \cup Rows \cup Works

AccountsTypeOK ==
    /\ row \in [Tables -> [Phones -> Rows \cup {Nobody}]]
    /\ session \in [Tables -> [Phones -> 0 .. SessionTTL]]
    /\ proof \in [Phones -> 0 .. ProofTTL]
    /\ work \in [Handlers -> Works \cup {Nobody}]
    /\ quiet \in [Tables -> [Phones -> 0 .. SessionTTL]]

AccountsInit ==
    /\ row = [t \in Tables |-> [p \in Phones |-> Nobody]]
    /\ session = [t \in Tables |-> [p \in Phones |-> 0]]
    /\ proof = [p \in Phones |-> 0]
    /\ work = [h \in Handlers |-> Nobody]
    /\ quiet = [t \in Tables |-> [p \in Phones |-> 0]]

(* _is_row_active, of a row or of no row.                                  *)
IsRowActive(r) ==
    /\ r # Nobody
    /\ r.status = "active" /\ ~ r.blocked /\ ~ r.deleted

(* The account a phone logs in to: a customer's before an administrator's. *)
Subject(p) == IF row["user"][p] # Nobody THEN "user" ELSE "admin"

(* Mutant: the account is not asked, only the token.                       *)
AuthorisedByToken(t, p) == session[t][p] > 0 /\ row[t][p] # Nobody

(* require_active_subject: the bearer's token and row are in force.        *)
Authorised(t, p) == session[t][p] > 0 /\ IsRowActive(row[t][p])

(* The e-mails of all accounts but the one of phone p in table t.          *)
TakenEmails(t, p) ==
    {e \in Emails : \E s \in Tables, q \in Phones :
        /\ <<s, q>> # <<t, p>>
        /\ row[s][q] # Nobody /\ row[s][q].email = e}

(* The unique index on the e-mails of one table admits the row.            *)
Unique(t, p, r) ==
    \/ r.email = Nobody
    \/ \A q \in Phones \ {p} : row[t][q] = Nobody \/ row[t][q].email # r.email

(* A commit writes the columns the handler changed, over what others wrote. *)
Written(now, seen, new) ==
    [f \in DOMAIN new |-> IF new[f] # seen[f] THEN new[f] ELSE now[f]]

(* Every write of a row goes through here: the history notes when the row  *)
(* comes into use, and a token for a row that is gone is worth nothing.    *)
SetRow(t, p, r) ==
    /\ row' = [row EXCEPT ![t][p] = r]
    /\ quiet' = [quiet EXCEPT ![t][p] = IF IsRowActive(r) THEN 0 ELSE @]

(* Mutant: a token is extended by its lifetime rather than issued anew.    *)
IssueExtended(t, p) == session' = [session EXCEPT ![t][p] = @ + SessionTTL]

Issue(t, p) == session' = [session EXCEPT ![t][p] = SessionTTL]
Begin(h, w) == work[h] = Nobody /\ work' = [work EXCEPT ![h] = w]
Finish(h)   == work' = [work EXCEPT ![h] = Nobody]

-----------------------------------------------------------------------------
(* Proofs and sessions.                                                    *)

(* otp_verify accepted the code that was sent to the phone.                *)
ProvePhone(p) ==
    /\ proof' = [proof EXCEPT ![p] = ProofTTL]
    /\ UNCHANGED <<row, session, work, quiet>>

(* Time passes: tokens and proofs age.                                     *)
Tick ==
    /\ session' = [t \in Tables |-> [p \in Phones |->
                      IF session[t][p] > 0 THEN session[t][p] - 1 ELSE 0]]
    /\ proof' = [p \in Phones |-> IF proof[p] > 0 THEN proof[p] - 1 ELSE 0]
    /\ quiet' = [t \in Tables |-> [p \in Phones |->
                    IF IsRowActive(row[t][p]) THEN 0
                    ELSE IF quiet[t][p] < SessionTTL THEN quiet[t][p] + 1
                    ELSE SessionTTL]]
    /\ UNCHANGED <<row, work>>

(* The right password, or a proof: only an account in use gets a session.  *)
LogsIn(t, p) ==
    /\ IsRowActive(row[t][p])
    /\ Issue(t, p)
    /\ UNCHANGED <<row, proof, work, quiet>>

(* user_login, by phone, and by e-mail.                                    *)
UserLogin(p) == LogsIn(Subject(p), p)

HoldersOf(t, e) == {p \in Phones : row[t][p] # Nobody /\ row[t][p].email = e}

UserEmailLogin(e) ==
    LET t == IF HoldersOf("user", e) # {} THEN "user" ELSE "admin" IN
    \E p \in HoldersOf(t, e) : LogsIn(t, p)

(* admin_login                                                             *)
AdminLogin(p) == LogsIn("admin", p)

(* user_otp_login: a proof instead of the password.  The proof stays valid. *)
OtpLogin(p) ==
    /\ proof[p] > 0
    /\ UserLogin(p)

(* user_reset_password: the same, and earlier tokens stay valid.           *)
ResetPassword(p) == OtpLogin(p)

(* auth_refresh: a valid token is rolled forward.                          *)
Refresh(t, p) ==
    /\ Authorised(t, p)
    /\ Issue(t, p)
    /\ UNCHANGED <<row, proof, work, quiet>>

-----------------------------------------------------------------------------
(* Signing up: the phone is looked up in one step, the row inserted later. *)

SignupReads(h, p) ==
    /\ proof[p] > 0
    /\ row["user"][p] = Nobody
    /\ row["admin"][p] = Nobody
    /\ Begin(h, [kind |-> "signup", phone |-> p])
    /\ UNCHANGED <<row, session, proof, quiet>>

NewUser == [status |-> "active", blocked |-> FALSE, deleted |-> FALSE, email |-> Nobody]

(* The unique phone refuses the insert when the row has appeared.          *)
SignupWrites(h) ==
    /\ work[h] # Nobody
    /\ work[h].kind = "signup"
    /\ LET p == work[h].phone IN
       IF row["user"][p] = Nobody
       THEN SetRow("user", p, NewUser) /\ Issue("user", p)
       ELSE UNCHANGED <<row, session, quiet>>
    /\ Finish(h)
    /\ UNCHANGED proof

-----------------------------------------------------------------------------
(* Handlers that read a row, change it and write the changed columns.      *)

Reading(h, kind, t, p, new) ==
    /\ row[t][p] # Nobody
    /\ Begin(h, [kind |-> kind, table |-> t, phone |-> p,
                 seen |-> row[t][p], new |-> new])
    /\ UNCHANGED <<row, session, proof, quiet>>

(* Mutant: the e-mail is not checked.                                      *)
ProfileReadsUnchecked(h, t, p, e) ==
    /\ Authorised(t, p)
    /\ Begin(h, [kind |-> "profile", table |-> t, phone |-> p, seen |-> row[t][p],
                 new |-> [row[t][p] EXCEPT !.email = e], taken |-> TakenEmails(t, p)])
    /\ UNCHANGED <<row, session, proof, quiet>>

(* update_auth_me: the e-mail is checked against both tables.              *)
ProfileReads(h, t, p, e) ==
    /\ Authorised(t, p)
    /\ e \notin TakenEmails(t, p)
    /\ Begin(h, [kind |-> "profile", table |-> t, phone |-> p, seen |-> row[t][p],
                 new |-> [row[t][p] EXCEPT !.email = e], taken |-> TakenEmails(t, p)])
    /\ UNCHANGED <<row, session, proof, quiet>>

(* delete_authenticated_user: a blocked account is refused, one that is    *)
(* deleted is answered without a change.                                   *)
DeleteReads(h, t, p) ==
    /\ session[t][p] > 0
    /\ row[t][p] # Nobody
    /\ ~ row[t][p].blocked
    /\ ~ row[t][p].deleted /\ row[t][p].status # "deleted"
    /\ Reading(h, "delete", t, p,
               [row[t][p] EXCEPT !.status = "deleted", !.deleted = TRUE])

Changed(r, c) ==
    IF c = "block" THEN [r EXCEPT !.blocked = TRUE, !.status = "blocked"]
    ELSE IF c = "unblock" THEN [r EXCEPT !.blocked = FALSE,
                                         !.status = IF @ = "blocked" THEN "active" ELSE @]
    ELSE IF c = "remove" THEN [r EXCEPT !.deleted = TRUE, !.status = "deleted"]
    ELSE [r EXCEPT !.status = c]

EditReads(h, p, c) ==
    /\ row["user"][p] # Nobody
    /\ Reading(h, "edit", "user", p, Changed(row["user"][p], c))

(* The commit; a row that is gone by now makes it fail, and so does an     *)
(* e-mail another row of the table took.                                   *)
RowWrites(h) ==
    /\ work[h] # Nobody
    /\ work[h].kind \in {"profile", "delete", "edit"}
    /\ LET w == work[h]
           now == row[w.table][w.phone] IN
       IF now # Nobody /\ Unique(w.table, w.phone, w.new)
       THEN SetRow(w.table, w.phone, Written(now, w.seen, w.new))
       ELSE UNCHANGED <<row, quiet>>
    /\ Finish(h)
    /\ UNCHANGED <<session, proof>>

-----------------------------------------------------------------------------
(* Administrators.                                                         *)

(* save_user and save_admin_user: an upsert by phone of all the columns.   *)
Save(t, p, r) ==
    /\ Unique(t, p, r)
    /\ SetRow(t, p, r)
    /\ UNCHANGED <<session, proof, work>>

(* delete_admin_user deletes the row; one saved anew has another id.       *)
DeleteAdmin(p) ==
    /\ row["admin"][p] # Nobody
    /\ SetRow("admin", p, Nobody)
    /\ session' = [session EXCEPT !["admin"][p] = 0]
    /\ UNCHANGED <<proof, work>>

-----------------------------------------------------------------------------
(* Orders.  Both paths pass a snapshot of the user to ensure_user, which   *)
(* writes it back and sets the columns the snapshot leaves out to null.    *)

(* Mutants: the snapshot leaves the status or the e-mail to its default.   *)
SnapshotOfActive(r) == [NewUser EXCEPT !.email = r.email]

SnapshotWithoutEmail(r) ==
    [r EXCEPT !.blocked = FALSE, !.deleted = FALSE, !.email = Nobody]

Snapshot(r) == [r EXCEPT !.blocked = FALSE, !.deleted = FALSE]

(* create_managed_order, for the bearer of a session.                      *)
OrderReads(h, p) ==
    /\ Authorised("user", p)
    /\ Reading(h, "order", "user", p, Snapshot(row["user"][p]))

(* finalize_paid_fib_order, for the owner of a paid payment.               *)
SweepReads(h, p) ==
    /\ row["user"][p] # Nobody
    /\ Reading(h, "order", "user", p, Snapshot(row["user"][p]))

(* save_managed_order.  The provider may have failed, or the e-mail of the *)
(* snapshot may have been taken: then nothing is written.                  *)
OrderWrites(h) ==
    /\ work[h] # Nobody
    /\ work[h].kind = "order"
    /\ LET w == work[h] IN
       \/ Unique("user", w.phone, w.new) /\ SetRow("user", w.phone, w.new)
       \/ UNCHANGED <<row, quiet>>
    /\ Finish(h)
    /\ UNCHANGED <<session, proof>>

-----------------------------------------------------------------------------
AdminSteps == \E p \in Phones :
    \/ \E t \in Tables, r \in Payloads : Save(t, p, r)
    \/ DeleteAdmin(p)

AccountsNext ==
    \/ Tick
    \/ AdminSteps
    \/ \E p \in Phones :
          \/ ProvePhone(p) \/ UserLogin(p) \/ AdminLogin(p)
          \/ OtpLogin(p) \/ ResetPassword(p)
          \/ \E t \in Tables : Refresh(t, p)
    \/ \E e \in Emails : UserEmailLogin(e)
    \/ \E h \in Handlers :
          \/ SignupWrites(h) \/ RowWrites(h) \/ OrderWrites(h)
          \/ \E p \in Phones :
                \/ SignupReads(h, p) \/ OrderReads(h, p) \/ SweepReads(h, p)
                \/ \E c \in Edits : EditReads(h, p, c)
                \/ \E t \in Tables :
                      \/ DeleteReads(h, t, p)
                      \/ \E e \in Emails \cup {Nobody} : ProfileReads(h, t, p, e)

AccountsSpec == AccountsInit /\ [][AccountsNext]_accountsVars

-----------------------------------------------------------------------------
(* An account that has been blocked, suspended, deleted or gone for the    *)
(* lifetime of a token has no valid token left: none of login, proof,      *)
(* password reset, refresh or signup renews a session meanwhile.           *)
SessionsEndWithAccount ==
    \A t \in Tables, p \in Phones :
        quiet[t][p] = SessionTTL => session[t][p] = 0

(* A customer's account that is out of use comes back only by an           *)
(* administrator, or by an order that read the status "active": one that   *)
(* began before the account was ended, or one of an account whose status   *)
(* was left "active" when its blocked_at or deleted_at was set.            *)
RevivedOnlyByAdminOrOrder == [][
    \A p \in Phones :
        (row["user"][p] # Nobody /\ ~ IsRowActive(row["user"][p])
            /\ IsRowActive(row'["user"][p]))
        => \/ AdminSteps
           \/ \E h \in Handlers : /\ work[h] # Nobody /\ work'[h] = Nobody
                                  /\ work[h].kind \in {"edit", "order"}
                                  /\ work[h].phone = p
                                  /\ work[h].kind = "order"
                                     => work[h].seen.status = "active"
    ]_accountsVars

(* A customer or administrator who changes the e-mail takes one of another *)
(* account, of either table, only if that account got it meanwhile.        *)
EmailTakenOnlyInRace == [][
    \A h \in Handlers :
        (work[h] # Nobody /\ work'[h] = Nobody /\ work[h].kind = "profile") =>
            LET w == work[h] IN
            \/ row' = row
            \/ row'[w.table][w.phone].email \notin TakenEmails(w.table, w.phone)
            \/ row'[w.table][w.phone].email \notin w.taken
    ]_accountsVars

(* An order of an account that was in use when it began, and that nobody   *)
(* changed since, leaves the account as it is.                             *)
UndisturbedOrderKeepsAccount == [][
    \A h \in Handlers :
        (work[h] # Nobody /\ work'[h] = Nobody /\ work[h].kind = "order") =>
            LET w == work[h] IN
            (IsRowActive(w.seen) /\ row["user"][w.phone] = w.seen) => row' = row
    ]_accountsVars

(* Nobody's account changes out of turn.                                   *)
AccountsChangeInTurn ==
    RevivedOnlyByAdminOrOrder /\ EmailTakenOnlyInRace /\ UndisturbedOrderKeepsAccount
=============================================================================
