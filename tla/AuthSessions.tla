---------------------------- MODULE AuthSessions ----------------------------
(***************************************************************************)
(* auth-service: accounts, the refresh tokens of their sessions and the     *)
(* tokens mailed to verify an address or to reset a password.               *)
(*                                                                          *)
(* A handler awaits the database between its statements, so other calls run *)
(* in between; `call` keeps what each call in progress has read.            *)
(* repository.save writes the row as the call read it (and inserts it again *)
(* if it was deleted meanwhile); repository.update writes some columns.     *)
(*                                                                          *)
(* An account stands for its address, the clock is left out (a lock or a    *)
(* token expires at any moment), and so are bcrypt, roles and messages.     *)
(***************************************************************************)
EXTENDS Integers, FiniteSets

CONSTANTS
    Users,         \* accounts, one per address
    Passwords,     \* what a password may be
    Tokens,        \* bound: refresh tokens ever issued
    Mails,         \* bound: mailed tokens that have not been used
    Calls,         \* slots for the requests the service runs at a time
    NoUser,        \* a value that is no row
    NoToken,       \* a value that is no token
    Deleted,       \* what is left of a session whose account was deleted
    MaxAttempts,   \* MAX_LOGIN_ATTEMPTS
    MaxCount,      \* bound on the wrong passwords in a row
    MaxRestarts    \* bound on the restarts of the service

ASSUME AuthAssumption ==
    /\ MaxAttempts \in Nat \ {0}
    /\ MaxCount \in Nat
    /\ MaxRestarts \in Nat

VARIABLES
    user,          \* users
    refresh,       \* refresh_tokens
    mail,          \* verification_tokens
    call,          \* the calls in progress
    restarts,      \* restarts so far
    wrong,         \* history: wrong passwords since the last right one
    overlapped     \* history: accounts on which two logins overlapped

vars == <<user, refresh, mail, call, restarts, wrong, overlapped>>

(***************************************************************************)
(* Rows and calls                                                          *)
(***************************************************************************)
User == [password : Passwords, verified : BOOLEAN, active : BOOLEAN,
         attempts : Nat, locked : BOOLEAN]
Account == User \cup {NoUser}

\* A session row.  parent, pre and late are history: the token it replaced,
\* whether its line began before the last change of the password, and whether
\* a call of its line overlapped such a change.
RefreshToken == [user : Users, revoked : BOOLEAN, parent : Tokens \cup {NoToken},
                 pre : BOOLEAN, late : BOOLEAN]

VerificationTokenType == {"email_verification", "password_reset"}
VerificationToken == [user : Users, type : VerificationTokenType,
                      used : BOOLEAN]

ASSUME NoRowAssumption ==
    /\ NoUser \notin User
    /\ NoToken \notin Tokens \cup RefreshToken
    /\ Deleted # NoToken

Steps == {"idle", "login_save", "login_issue", "refresh_revoke", "refresh_issue",
          "logout_save", "register_mail", "verify_mark", "verify_user",
          "resend_mark", "resend_issue", "reset_user", "reset_mark",
          "reset_revoke", "change_user", "change_revoke", "admin_user",
          "delete_user"}

Call == [pc : Steps, user : Users \cup {NoUser}, row : Account,    \* the account as it was read
         token : Tokens \cup {NoToken}, mail : Mails \cup {NoToken},
         password : Passwords \cup {NoToken},         \* given or to be written
         pre : BOOLEAN, late : BOOLEAN]              \* history, as in RefreshToken

Idle == [pc |-> "idle", user |-> NoUser, row |-> NoUser,
         token |-> NoToken, mail |-> NoToken,
         password |-> NoToken, pre |-> FALSE, late |-> FALSE]

TypeOK ==
    /\ user \in [Users -> Account]
    /\ refresh \in [Tokens -> RefreshToken \cup {NoToken, Deleted}]
    /\ mail \in [Mails -> VerificationToken \cup {NoToken}]
    /\ call \in [Calls -> Call]
    /\ restarts \in 0..MaxRestarts
    /\ wrong \in [Users -> Nat]
    /\ overlapped \subseteq Users

Init ==
    /\ user = [u \in Users |-> NoUser]
    /\ refresh = [t \in Tokens |-> NoToken]
    /\ mail = [k \in Mails |-> NoToken]
    /\ call = [c \in Calls |-> Idle]
    /\ restarts = 0
    /\ wrong = [u \in Users |-> 0]
    /\ overlapped = {}

Exists(u) == user[u] # NoUser
IsRow(t) == refresh[t] \notin {NoToken, Deleted}
Live(t) == IsRow(t) /\ ~refresh[t].revoked
Usable(k, type) == mail[k] # NoToken /\ mail[k].type = type /\ ~mail[k].used

\* The statements between which the password and the sessions disagree.
ChangeSteps == {"reset_mark", "reset_revoke", "change_revoke", "admin_user"}
Changing(u) == \E c \in Calls : call[c].pc \in ChangeSteps /\ call[c].user = u
SessionSteps == {"login_save", "login_issue", "refresh_revoke", "refresh_issue"}

At(c, pc) == call[c].pc = pc
Begin(c, new) == At(c, "idle") /\ call' = [call EXCEPT ![c] = new]
\* What has been read is forgotten once it is written.
Goto(c, pc) == call' = [call EXCEPT ![c].pc = pc, ![c].row = NoUser, ![c].password = NoToken]
Done(c) == call' = [call EXCEPT ![c] = Idle]

History == <<wrong, overlapped>>

\* Marks the calls of u that overlap a change of its password.
Overtake(u, calls) ==
    [c \in Calls |->
        IF calls[c].user = u /\ calls[c].pc \in SessionSteps
        THEN [calls[c] EXCEPT !.late = TRUE] ELSE calls[c]]

\* The password of u is written: what has begun before is of the old password.
WritePassword(u, password, calls) ==
    /\ user' = IF Exists(u) THEN [user EXCEPT ![u].password = password] ELSE user
    /\ refresh' = [t \in Tokens |->
          IF Live(t) /\ refresh[t].user = u
          THEN [refresh[t] EXCEPT !.pre = TRUE] ELSE refresh[t]]
    /\ call' = [c \in Calls |->
          IF calls[c].user = u /\ calls[c].pc \in SessionSteps
          THEN [calls[c] EXCEPT !.pre = TRUE, !.late = TRUE] ELSE calls[c]]

Close(row) == [row EXCEPT !.revoked = TRUE, !.pre = FALSE, !.late = FALSE]

\* The bulk update of every session of u.
Revoked(u) ==
    [t \in Tokens |-> IF IsRow(t) /\ refresh[t].user = u
                      THEN Close(refresh[t]) ELSE refresh[t]]

(***************************************************************************)
(* register, createAdminUser                                               *)
(***************************************************************************)
NewUser(password, verified) ==
    [password |-> password, verified |-> verified, active |-> TRUE,
     attempts |-> 0, locked |-> FALSE]

\* What is left of a call of an account that was deleted fails, or finds no row,
\* once the address belongs to a new account.
Stranded(u) == [c \in Calls |-> IF call[c].user = u THEN Idle ELSE call[c]]

\* The column of the address is unique: of two inserts one fails.
Register(c, u) ==
    /\ ~Exists(u)
    /\ At(c, "idle")
    /\ \E p \in Passwords : user' = [user EXCEPT ![u] = NewUser(p, FALSE)]
    /\ call' = [Stranded(u) EXCEPT ![c] = [Idle EXCEPT !.pc = "register_mail", !.user = u]]
    /\ wrong' = [wrong EXCEPT ![u] = 0]
    /\ UNCHANGED <<refresh, mail, restarts, overlapped>>

\* A slot whose token is used stands for a new token: a used one is inert.
FreeMail(k) == ~(mail[k] # NoToken /\ ~mail[k].used) /\ \A c \in Calls : call[c].mail # k

SendMail(u, k, type) ==
    /\ FreeMail(k)
    /\ Exists(u)               \* the foreign key refuses a token of no user
    /\ mail' = [mail EXCEPT ![k] = [user |-> u, type |-> type, used |-> FALSE]]

RegisterMail(c) ==
    /\ At(c, "register_mail")
    /\ \E k \in Mails : SendMail(call[c].user, k, "email_verification")
    /\ Done(c)
    /\ UNCHANGED <<user, refresh, restarts, History>>

CreateAdminUser(u) ==
    /\ ~Exists(u)
    /\ \E p \in Passwords : user' = [user EXCEPT ![u] = NewUser(p, TRUE)]
    /\ call' = Stranded(u)
    /\ wrong' = [wrong EXCEPT ![u] = 0]
    /\ UNCHANGED <<refresh, mail, restarts, overlapped>>

(***************************************************************************)
(* login                                                                   *)
(***************************************************************************)
\* Mutant of MayLogin: an address that is not verified may log in.
MayLoginUnverified(u) == Exists(u) /\ ~user[u].locked /\ user[u].active

MayLogin(u) == Exists(u) /\ ~user[u].locked /\ user[u].active /\ user[u].verified

LoginCheck(c, u) ==
    /\ MayLogin(u)
    /\ user[u].attempts < MaxCount
    /\ \E p \in Passwords :
         Begin(c, [Idle EXCEPT !.pc = "login_save", !.user = u, !.row = user[u],
                               !.password = p, !.late = Changing(u)])
    /\ overlapped' = IF \E d \in Calls : call[d].pc = "login_save" /\ call[d].user = u
                     THEN overlapped \cup {u} ELSE overlapped
    /\ UNCHANGED <<user, refresh, mail, restarts, wrong>>

Failed(row) ==
    [row EXCEPT !.attempts = @ + 1, !.locked = row.attempts + 1 >= MaxAttempts]

\* Mutant of Cleared: a right password leaves the count as it was.
ClearedNot(row) == [row EXCEPT !.locked = FALSE]

Cleared(row) == [row EXCEPT !.attempts = 0, !.locked = FALSE]

LoginFails(c) ==
    /\ At(c, "login_save")
    /\ LET u == call[c].user IN
         /\ call[c].password # call[c].row.password
         /\ user' = [user EXCEPT ![u] = Failed(call[c].row)]
         /\ wrong' = [wrong EXCEPT ![u] = IF u \in overlapped THEN 0 ELSE @ + 1]
    /\ Done(c)
    /\ UNCHANGED <<refresh, mail, restarts, overlapped>>

LoginSave(c) ==
    /\ At(c, "login_save")
    /\ LET u == call[c].user IN
         /\ call[c].password = call[c].row.password
         /\ user' = [user EXCEPT ![u] = Cleared(call[c].row)]
         /\ wrong' = [wrong EXCEPT ![u] = 0]
    /\ Goto(c, "login_issue")
    /\ UNCHANGED <<refresh, mail, restarts, overlapped>>

\* The insert of the new token of a login (parent NoToken) or of a refresh.
Issue(c, parent) ==
    LET u == call[c].user IN
    /\ Exists(u)
    /\ \E t \in Tokens :
         /\ refresh[t] = NoToken
         /\ refresh' = [refresh EXCEPT ![t] =
               [user |-> u, revoked |-> FALSE, parent |-> parent,
                pre |-> call[c].pre, late |-> call[c].late]]
    /\ UNCHANGED <<user, mail, restarts, History>>

LoginIssue(c) == At(c, "login_issue") /\ Issue(c, NoToken) /\ Done(c)

\* The account of the call was deleted: the foreign key refuses the row.
Refused(c) ==
    /\ call[c].pc \in {"login_issue", "refresh_revoke", "refresh_issue",
                       "register_mail", "logout_save", "verify_mark",
                       "reset_mark", "resend_issue"}
    /\ ~Exists(call[c].user)
    /\ Done(c)
    /\ UNCHANGED <<user, refresh, mail, restarts, History>>

(***************************************************************************)
(* refreshToken, logout, logoutAll                                         *)
(***************************************************************************)
RefreshCheck(c, t) ==
    /\ Live(t)
    /\ LET u == refresh[t].user IN
         /\ Exists(u) /\ user[u].active
         /\ Begin(c, [Idle EXCEPT !.pc = "refresh_revoke", !.user = u, !.token = t,
                        !.pre = refresh[t].pre,
                        !.late = refresh[t].late \/ Changing(u)])
    /\ UNCHANGED <<user, refresh, mail, restarts, History>>

\* save(existingToken): the row as it was read, revoked.
SaveRevoked(c, pc) ==
    /\ At(c, pc)
    /\ Exists(call[c].user)
    /\ refresh' = [refresh EXCEPT ![call[c].token] =
          IF @ = Deleted
          THEN [user |-> call[c].user, revoked |-> TRUE, parent |-> NoToken,
                pre |-> FALSE, late |-> FALSE]
          ELSE Close(@)]

\* Mutant of Rotate: the successor is inserted before the token is revoked.
RotateBackwards(c) ==
    \/ At(c, "refresh_revoke") /\ Issue(c, call[c].token) /\ Goto(c, "refresh_issue")
    \/ /\ SaveRevoked(c, "refresh_issue")
       /\ Done(c)
       /\ UNCHANGED <<user, mail, restarts, History>>

\* The token is revoked, then its successor is inserted.
Rotate(c) ==
    \/ /\ SaveRevoked(c, "refresh_revoke")
       /\ Goto(c, "refresh_issue")
       /\ UNCHANGED <<user, mail, restarts, History>>
    \/ At(c, "refresh_issue") /\ Issue(c, call[c].token) /\ Done(c)

\* JwtStrategy.validate: an access token of an active account.  Who has one has
\* logged in once, so that the address is verified.
Authenticated(u) == Exists(u) /\ user[u].active /\ user[u].verified

LogoutCheck(c, t) ==
    /\ Live(t)
    /\ Authenticated(refresh[t].user)
    /\ Begin(c, [Idle EXCEPT !.pc = "logout_save", !.user = refresh[t].user, !.token = t])
    /\ UNCHANGED <<user, refresh, mail, restarts, History>>

LogoutSave(c) ==
    /\ SaveRevoked(c, "logout_save")
    /\ Done(c)
    /\ UNCHANGED <<user, mail, restarts, History>>

LogoutAll(u) ==
    /\ Authenticated(u)
    /\ refresh' = Revoked(u)
    /\ UNCHANGED <<user, mail, call, restarts, History>>

(***************************************************************************)
(* verifyEmail, resendVerificationEmail                                    *)
(***************************************************************************)
VerifyCheck(c, k) ==
    /\ Usable(k, "email_verification")
    /\ Exists(mail[k].user)
    /\ Begin(c, [Idle EXCEPT !.pc = "verify_mark", !.user = mail[k].user, !.mail = k])
    /\ UNCHANGED <<user, refresh, mail, restarts, History>>

\* save(verificationToken), used; a token whose account was deleted is gone.
MarkUsed(c, pc) ==
    /\ At(c, pc)
    /\ Exists(call[c].user)
    /\ mail' = [mail EXCEPT ![call[c].mail] = IF @ = NoToken THEN @
                                              ELSE [@ EXCEPT !.used = TRUE]]
    /\ UNCHANGED <<user, refresh, restarts, History>>

VerifyMark(c) == MarkUsed(c, "verify_mark") /\ Goto(c, "verify_user")

\* update by id, then auth.user.verified is published: an event even when the
\* row is gone.
VerifyUser(c) ==
    /\ At(c, "verify_user")
    /\ LET u == call[c].user IN
         user' = IF Exists(u) THEN [user EXCEPT ![u].verified = TRUE] ELSE user
    /\ Done(c)
    /\ UNCHANGED <<refresh, mail, restarts, History>>

Unverified(u) == Exists(u) /\ ~user[u].verified /\ user[u].active

\* Within a minute of the last token nothing is done: no step.
ResendCheck(c, u) ==
    /\ Unverified(u)
    /\ Begin(c, [Idle EXCEPT !.pc = "resend_mark", !.user = u])
    /\ UNCHANGED <<user, refresh, mail, restarts, History>>

ResendMark(c) ==
    /\ At(c, "resend_mark")
    /\ mail' = [k \in Mails |->
          IF Usable(k, "email_verification") /\ mail[k].user = call[c].user
          THEN [mail[k] EXCEPT !.used = TRUE] ELSE mail[k]]
    /\ Goto(c, "resend_issue")
    /\ UNCHANGED <<user, refresh, restarts, History>>

ResendIssue(c) ==
    /\ At(c, "resend_issue")
    /\ \E k \in Mails : SendMail(call[c].user, k, "email_verification")
    /\ Done(c)
    /\ UNCHANGED <<user, refresh, restarts, History>>

(***************************************************************************)
(* forgotPassword, resetPassword, changePassword                           *)
(***************************************************************************)
ForgotPassword(u) ==
    /\ \E k \in Mails : SendMail(u, k, "password_reset")
    /\ UNCHANGED <<user, refresh, call, restarts, History>>

ResetCheck(c, k) ==
    /\ Usable(k, "password_reset")
    /\ \E p \in Passwords :
         Begin(c, [Idle EXCEPT !.pc = "reset_user", !.user = mail[k].user, !.mail = k,
                               !.password = p])
    /\ UNCHANGED <<user, refresh, mail, restarts, History>>

ResetUser(c) ==
    /\ At(c, "reset_user")
    /\ WritePassword(call[c].user, call[c].password,
                     [call EXCEPT ![c].pc = "reset_mark", ![c].password = NoToken])
    /\ UNCHANGED <<mail, restarts, History>>

ResetMark(c) == MarkUsed(c, "reset_mark") /\ Goto(c, "reset_revoke")

ResetRevoke(c) ==
    /\ At(c, "reset_revoke")
    /\ refresh' = Revoked(call[c].user)
    /\ Done(c)
    /\ UNCHANGED <<user, mail, restarts, History>>

\* The current password was compared before this write.
ChangePassword(c, u) ==
    /\ Authenticated(u)
    /\ \E p \in Passwords :
         Begin(c, [Idle EXCEPT !.pc = "change_user", !.user = u, !.password = p])
    /\ UNCHANGED <<user, refresh, mail, restarts, History>>

ChangeUser(c) ==
    /\ At(c, "change_user")
    /\ WritePassword(call[c].user, call[c].password,
                     [call EXCEPT ![c].pc = "change_revoke", ![c].password = NoToken])
    /\ UNCHANGED <<mail, restarts, History>>

\* Mutant of ChangeRevoke: the other sessions stay open.
ChangeRevokeNone(c) ==
    /\ At(c, "change_revoke")
    /\ Done(c)
    /\ UNCHANGED <<user, refresh, mail, restarts, History>>

ChangeRevoke(c) ==
    /\ At(c, "change_revoke")
    /\ refresh' = Revoked(call[c].user)
    /\ Done(c)
    /\ UNCHANGED <<user, mail, restarts, History>>

(***************************************************************************)
(* updateAdminUser, deleteAdminUser                                        *)
(***************************************************************************)
\* A new password (or address) ends the sessions before it is written.
AdminPassword(c, u) ==
    /\ Exists(u)
    /\ At(c, "idle")
    /\ refresh' = Revoked(u)
    /\ \E p \in Passwords :
         call' = [Overtake(u, call) EXCEPT ![c] =
                    [Idle EXCEPT !.pc = "admin_user", !.user = u, !.password = p]]
    /\ UNCHANGED <<user, mail, restarts, History>>

AdminPasswordWrite(c) ==
    /\ At(c, "admin_user")
    /\ WritePassword(call[c].user, call[c].password, [call EXCEPT ![c] = Idle])
    /\ UNCHANGED <<mail, restarts, History>>

\* Deactivating an account ends none of its sessions.
AdminActivate(u, active) ==
    /\ Exists(u)
    /\ user' = [user EXCEPT ![u].active = active]
    /\ UNCHANGED <<refresh, mail, call, restarts, History>>

DeleteAdminUser(c, u) ==
    /\ Exists(u)
    /\ Begin(c, [Idle EXCEPT !.pc = "delete_user", !.user = u])
    /\ refresh' = Revoked(u)
    /\ UNCHANGED <<user, mail, restarts, History>>

\* The tokens go with the row (ON DELETE CASCADE).
DeleteRow(c) ==
    /\ At(c, "delete_user")
    /\ LET u == call[c].user IN
         /\ user' = [user EXCEPT ![u] = NoUser]
         /\ refresh' = [t \in Tokens |-> IF IsRow(t) /\ refresh[t].user = u
                                         THEN Deleted ELSE refresh[t]]
         /\ mail' = [k \in Mails |-> IF mail[k] # NoToken /\ mail[k].user = u
                                      THEN NoToken ELSE mail[k]]
    /\ Done(c)
    /\ UNCHANGED <<restarts, History>>

(***************************************************************************)
(* Time and restarts                                                       *)
(***************************************************************************)
\* The count of failures survives the lock: the next failure locks at once.
LockExpires(u) ==
    /\ Exists(u) /\ user[u].locked
    /\ user' = [user EXCEPT ![u].locked = FALSE]
    /\ UNCHANGED <<refresh, mail, call, restarts, History>>

\* A session that expires is refused like one that is revoked.
SessionExpires(t) ==
    /\ Live(t)
    /\ refresh' = [refresh EXCEPT ![t] = Close(@)]
    /\ UNCHANGED <<user, mail, call, restarts, History>>

MailExpires(k) ==
    /\ mail[k] # NoToken /\ ~mail[k].used
    /\ mail' = [mail EXCEPT ![k].used = TRUE]
    /\ UNCHANGED <<user, refresh, call, restarts, History>>

Restart ==
    /\ restarts < MaxRestarts
    /\ restarts' = restarts + 1
    /\ call' = [c \in Calls |-> Idle]
    /\ UNCHANGED <<user, refresh, mail, History>>

Begins(c) ==
    \/ \E u \in Users : \/ Register(c, u) \/ LoginCheck(c, u) \/ ResendCheck(c, u)
                         \/ ChangePassword(c, u) \/ AdminPassword(c, u)
                         \/ DeleteAdminUser(c, u)
    \/ \E t \in Tokens : RefreshCheck(c, t) \/ LogoutCheck(c, t)
    \/ \E k \in Mails : VerifyCheck(c, k) \/ ResetCheck(c, k)

Continues(c) ==
    \/ RegisterMail(c) \/ LoginFails(c) \/ LoginSave(c) \/ LoginIssue(c)
    \/ Rotate(c) \/ LogoutSave(c) \/ Refused(c)
    \/ VerifyMark(c) \/ VerifyUser(c) \/ ResendMark(c) \/ ResendIssue(c)
    \/ ResetUser(c) \/ ResetMark(c) \/ ResetRevoke(c)
    \/ ChangeUser(c) \/ ChangeRevoke(c)
    \/ AdminPasswordWrite(c) \/ DeleteRow(c)

Next ==
    \/ \E c \in Calls : Begins(c) \/ Continues(c)
    \/ \E u \in Users : \/ CreateAdminUser(u) \/ LogoutAll(u) \/ ForgotPassword(u)
                         \/ LockExpires(u)
                         \/ \E active \in BOOLEAN : AdminActivate(u, active)
    \/ \E t \in Tokens : SessionExpires(t)
    \/ \E k \in Mails : MailExpires(k)
    \/ Restart

Spec == Init /\ [][Next]_vars

(***************************************************************************)
(* Properties                                                              *)
(***************************************************************************)
\* A change of the password ends the sessions of the old one: unless the service
\* restarted in the middle, a session that is open after it and descends from a
\* login before it descends from a call that overlapped the change.
PasswordChangeEndsSessions ==
    restarts = 0 =>
        \A t \in Tokens :
            Live(t) /\ refresh[t].pre
                => refresh[t].late \/ Changing(refresh[t].user)

\* However refreshes interleave, a session that was traded for a new one is closed:
\* an open session has no successor.
OpenSessionHasNoSuccessor ==
    \A t, s \in Tokens : Live(t) /\ IsRow(s) => refresh[s].parent # t

\* Logins save the account as they read it, and undo what was written meanwhile;
\* an address that was verified stays so nevertheless, as no login has read the
\* row before.
VerificationSticks ==
    [][\A u \in Users :
          Exists(u) /\ user[u].verified /\ user'[u] # NoUser => user'[u].verified]_vars

\* Where no two logins of an account overlapped, the count is of the wrong passwords
\* since the last right one, whatever else was written, and the account is locked
\* after MaxAttempts of them.
CountIsExact ==
    \A u \in Users : Exists(u) /\ u \notin overlapped =>
        /\ user[u].attempts = wrong[u]
        /\ user[u].locked => wrong[u] >= MaxAttempts
=============================================================================
