------------------------- MODULE AuthSessionsProofs -------------------------
(***************************************************************************)
(* Theorems of AuthSessions, for any number of accounts, sessions, mails and *)
(* overlapping calls.                                                       *)
(***************************************************************************)
EXTENDS AuthSessions, TLAPS

(***************************************************************************)
(* What the slot of a call holds at each of its steps                      *)
(***************************************************************************)
TokenSteps == {"refresh_revoke", "refresh_issue", "logout_save"}
WriteSteps == {"reset_user", "change_user", "admin_user"}

GoodCall == {x \in Call :
                /\ x.pc # "idle" => x.user \in Users
                /\ x.pc = "login_save" => x.row \in User
                /\ x.pc \in TokenSteps => x.token \in Tokens
                /\ x.pc \in WriteSteps => x.password \in Passwords}

\* The token a call has read is the token of a row, or of one that was deleted.
Held == \A c \in Calls : call[c].pc \in TokenSteps => refresh[call[c].token] # NoToken

TypeInv == TypeOK /\ call \in [Calls -> GoodCall] /\ Held

Moved(x, pc) == [x EXCEPT !.pc = pc, !.row = NoUser, !.password = NoToken]

LEMMA IdleGood == Idle \in GoodCall /\ Idle.pc = "idle"
BY DEF Idle, GoodCall, Call, Steps, TokenSteps, WriteSteps, Account

LEMMA MovedGood ==
    ASSUME NEW x \in GoodCall, x.pc # "idle",
           NEW pc \in Steps \ (WriteSteps \cup {"login_save"}),
           pc \in TokenSteps => x.pc \in TokenSteps
    PROVE  /\ Moved(x, pc) \in GoodCall
           /\ Moved(x, pc).pc = pc
           /\ Moved(x, pc).user = x.user /\ Moved(x, pc).token = x.token
           /\ Moved(x, pc).pre = x.pre /\ Moved(x, pc).late = x.late
BY DEF Moved, GoodCall, Call, Account

\* What marks a call leaves all else of it alone.
LEMMA LateGood ==
    ASSUME NEW x \in GoodCall, NEW y, y = [x EXCEPT !.late = TRUE]
    PROVE  /\ y \in GoodCall
           /\ y.pc = x.pc /\ y.user = x.user /\ y.row = x.row /\ y.token = x.token
           /\ y.password = x.password /\ y.pre = x.pre /\ y.late
BY DEF GoodCall, Call

LEMMA MarkedGood ==
    ASSUME NEW x \in GoodCall, NEW y, y = [x EXCEPT !.pre = TRUE, !.late = TRUE]
    PROVE  /\ y \in GoodCall
           /\ y.pc = x.pc /\ y.user = x.user /\ y.row = x.row /\ y.token = x.token
           /\ y.password = x.password /\ y.pre /\ y.late
BY DEF GoodCall, Call

(***************************************************************************)
(* The sessions: a token that was issued is never free again, and one that  *)
(* is closed never opens                                                    *)
(***************************************************************************)
LEMMA CloseIsToken ==
    ASSUME NEW row \in RefreshToken
    PROVE  /\ Close(row) \in RefreshToken /\ Close(row).revoked
           /\ Close(row).user = row.user /\ Close(row).parent = row.parent
           /\ ~Close(row).pre
BY DEF Close, RefreshToken

\* What a step may do to a row of refresh_tokens.
RowStep(old, new) ==
    /\ new \in RefreshToken \cup {NoToken, Deleted}
    /\ old # NoToken => new # NoToken
    /\ new \notin {NoToken, Deleted} /\ ~new.revoked
          => old = NoToken \/ (old \notin {NoToken, Deleted} /\ ~old.revoked)
    /\ new \notin {NoToken, Deleted} /\ old \notin {NoToken, Deleted}
          => new.parent = old.parent

LEMMA SameRow ==
    ASSUME NEW old \in RefreshToken \cup {NoToken, Deleted} PROVE RowStep(old, old)
BY DEF RowStep

LEMMA ClosedRow ==
    ASSUME NEW old \in RefreshToken PROVE RowStep(old, Close(old))
BY CloseIsToken, NoRowAssumption DEF RowStep

LEMMA RevokedRows ==
    ASSUME TypeInv, NEW u
    PROVE  /\ Revoked(u) \in [Tokens -> RefreshToken \cup {NoToken, Deleted}]
           /\ \A t \in Tokens : RowStep(refresh[t], Revoked(u)[t])
<1> SUFFICES ASSUME NEW t \in Tokens
             PROVE  RowStep(refresh[t], Revoked(u)[t])
  BY DEF Revoked, RowStep
<1>1. refresh[t] \in RefreshToken \cup {NoToken, Deleted}
  BY DEF TypeInv, TypeOK
<1>2. CASE IsRow(t) /\ refresh[t].user = u
  BY <1>1, <1>2, ClosedRow DEF Revoked, IsRow
<1>3. CASE ~(IsRow(t) /\ refresh[t].user = u)
  BY <1>1, <1>3, SameRow DEF Revoked
<1> QED BY <1>2, <1>3

\* The rows once the password of u is written.
Stale(u) == [t \in Tokens |-> IF Live(t) /\ refresh[t].user = u
                              THEN [refresh[t] EXCEPT !.pre = TRUE] ELSE refresh[t]]

LEMMA StaleRows ==
    ASSUME TypeInv, NEW u
    PROVE  \A t \in Tokens : RowStep(refresh[t], Stale(u)[t])
<1> SUFFICES ASSUME NEW t \in Tokens PROVE RowStep(refresh[t], Stale(u)[t])
  OBVIOUS
<1>1. refresh[t] \in RefreshToken \cup {NoToken, Deleted}
  BY DEF TypeInv, TypeOK
<1>2. CASE Live(t) /\ refresh[t].user = u
  <2>1. refresh[t] \in RefreshToken /\ ~refresh[t].revoked
    BY <1>1, <1>2 DEF Live, IsRow
  <2>2. [refresh[t] EXCEPT !.pre = TRUE] \in RefreshToken
    BY <2>1 DEF RefreshToken
  <2>3. [refresh[t] EXCEPT !.pre = TRUE].parent = refresh[t].parent
    BY <2>1 DEF RefreshToken
  <2> QED BY <1>2, <2>1, <2>2, <2>3, NoRowAssumption DEF RowStep, Stale, Live, IsRow
<1>3. CASE ~(Live(t) /\ refresh[t].user = u)
  BY <1>1, <1>3, SameRow DEF Stale
<1> QED BY <1>2, <1>3

LEMMA IssuedRows ==
    ASSUME TypeInv, NEW c \in Calls, call[c].pc # "idle",
           NEW parent \in Tokens \cup {NoToken}, Issue(c, parent)
    PROVE  \A t \in Tokens : RowStep(refresh[t], refresh'[t])
<1>1. PICK n \in Tokens :
         /\ refresh[n] = NoToken
         /\ refresh' = [refresh EXCEPT ![n] =
               [user |-> call[c].user, revoked |-> FALSE, parent |-> parent,
                pre |-> call[c].pre, late |-> call[c].late]]
  BY DEF Issue
<1>2. [user |-> call[c].user, revoked |-> FALSE, parent |-> parent,
       pre |-> call[c].pre, late |-> call[c].late] \in RefreshToken
  BY DEF TypeInv, GoodCall, Call, RefreshToken
<1>3. RowStep(NoToken, [user |-> call[c].user, revoked |-> FALSE, parent |-> parent,
                        pre |-> call[c].pre, late |-> call[c].late])
  BY <1>2, NoRowAssumption DEF RowStep
<1> SUFFICES ASSUME NEW t \in Tokens PROVE RowStep(refresh[t], refresh'[t])
  OBVIOUS
<1>4. CASE t = n
  BY <1>1, <1>3, <1>4 DEF TypeInv, TypeOK
<1>5. CASE t # n
  <2>1. refresh'[t] = refresh[t] /\ refresh[t] \in RefreshToken \cup {NoToken, Deleted}
    BY <1>1, <1>5 DEF TypeInv, TypeOK
  <2> QED BY <2>1, SameRow
<1> QED BY <1>4, <1>5

LEMMA ClosedByCall ==
    ASSUME TypeInv, NEW c \in Calls, NEW pc \in TokenSteps, SaveRevoked(c, pc)
    PROVE  /\ \A t \in Tokens : RowStep(refresh[t], refresh'[t])
           /\ refresh' \in [Tokens -> RefreshToken \cup {NoToken, Deleted}]
           /\ refresh'[call[c].token] \in RefreshToken
           /\ refresh'[call[c].token].revoked
<1> DEFINE n == call[c].token
           left == [user |-> call[c].user, revoked |-> TRUE, parent |-> NoToken,
                    pre |-> FALSE, late |-> FALSE]
<1>1. n \in Tokens /\ refresh[n] # NoToken /\ call[c].user \in Users
  BY DEF TypeInv, GoodCall, Held, SaveRevoked, At, TokenSteps
<1>2. left \in RefreshToken /\ left.revoked
  BY <1>1 DEF RefreshToken
<1>3. refresh[n] \in RefreshToken \cup {Deleted}
  BY <1>1 DEF TypeInv, TypeOK
<1>4. refresh' = [refresh EXCEPT ![n] =
                     IF refresh[n] = Deleted THEN left ELSE Close(refresh[n])]
  BY <1>1 DEF SaveRevoked
<1> HIDE DEF n, left
<1>5. refresh'[n] \in RefreshToken /\ refresh'[n].revoked
  BY <1>1, <1>2, <1>3, <1>4, CloseIsToken DEF TypeInv, TypeOK
<1>6. RowStep(refresh[n], refresh'[n])
  <2>1. CASE refresh[n] = Deleted
    BY <1>5, <2>1, NoRowAssumption DEF RowStep
  <2>2. CASE refresh[n] # Deleted
    BY <1>1, <1>3, <1>4, <2>2, ClosedRow DEF TypeInv, TypeOK
  <2> QED BY <2>1, <2>2
<1>7. ASSUME NEW t \in Tokens, t # n PROVE RowStep(refresh[t], refresh'[t])
  <2>1. refresh'[t] = refresh[t] /\ refresh[t] \in RefreshToken \cup {NoToken, Deleted}
    BY <1>4, <1>7 DEF TypeInv, TypeOK
  <2> QED BY <2>1, SameRow
<1>8. refresh' \in [Tokens -> RefreshToken \cup {NoToken, Deleted}]
  BY <1>4, <1>6, <1>7 DEF RowStep, TypeInv, TypeOK
<1> QED BY <1>5, <1>6, <1>7, <1>8 DEF n

\* How a step may write the sessions.
RefreshWrite ==
    \/ UNCHANGED refresh
    \/ \E c \in Calls : \/ At(c, "login_issue") /\ Issue(c, NoToken)
                        \/ At(c, "refresh_issue") /\ Issue(c, call[c].token)
                        \/ SaveRevoked(c, "refresh_revoke") \/ SaveRevoked(c, "logout_save")
                        \/ DeleteRow(c)
    \/ \E u \in Users : refresh' = Revoked(u) \/ refresh' = Stale(u)
    \/ \E t \in Tokens : SessionExpires(t)

LEMMA NextWrites == TypeInv /\ [Next]_vars => RefreshWrite
<1> SUFFICES ASSUME TypeInv, [Next]_vars PROVE RefreshWrite
  OBVIOUS
<1>1. CASE UNCHANGED vars \/ Restart
  BY <1>1 DEF vars, Restart, RefreshWrite
<1>2. ASSUME NEW u \in Users,
             \/ CreateAdminUser(u) \/ LogoutAll(u) \/ ForgotPassword(u) \/ LockExpires(u)
             \/ \E active \in BOOLEAN : AdminActivate(u, active)
      PROVE  RefreshWrite
  BY <1>2 DEF CreateAdminUser, LogoutAll, ForgotPassword, LockExpires, AdminActivate,
     RefreshWrite
<1>3. CASE (\E t \in Tokens : SessionExpires(t)) \/ (\E k \in Mails : MailExpires(k))
  BY <1>3 DEF MailExpires, RefreshWrite
<1>4. ASSUME NEW c \in Calls, Begins(c) PROVE RefreshWrite
  BY <1>4 DEF Begins, Register, LoginCheck, ResendCheck, ChangePassword, AdminPassword,
     DeleteAdminUser, RefreshCheck, LogoutCheck, VerifyCheck, ResetCheck, RefreshWrite
<1>5. ASSUME NEW c \in Calls,
             \/ RegisterMail(c) \/ LoginFails(c) \/ LoginSave(c) \/ Refused(c)
             \/ VerifyMark(c) \/ VerifyUser(c) \/ ResendMark(c) \/ ResendIssue(c)
             \/ ResetMark(c) \/ LoginIssue(c) \/ Rotate(c) \/ LogoutSave(c) \/ DeleteRow(c)
      PROVE  RefreshWrite
  BY <1>5 DEF RegisterMail, LoginFails, LoginSave, Refused, VerifyMark, VerifyUser,
     ResendMark, ResendIssue, ResetMark, MarkUsed, LoginIssue, Rotate, LogoutSave,
     RefreshWrite
<1>6. ASSUME NEW c \in Calls,
             \/ ResetUser(c) \/ ChangeUser(c) \/ AdminPasswordWrite(c)
             \/ ResetRevoke(c) \/ ChangeRevoke(c)
      PROVE  RefreshWrite
  <2>1. call[c].user \in Users
    BY <1>6 DEF ResetUser, ChangeUser, AdminPasswordWrite, ResetRevoke, ChangeRevoke, At,
       TypeInv, GoodCall
  <2> QED BY <1>6, <2>1 DEF ResetUser, ChangeUser, AdminPasswordWrite, ResetRevoke,
          ChangeRevoke, WritePassword, Stale, RefreshWrite
<1> QED BY <1>1, <1>2, <1>3, <1>4, <1>5, <1>6 DEF Next, Continues

LEMMA NextRows ==
    ASSUME TypeInv, [Next]_vars
    PROVE  \A t \in Tokens : RowStep(refresh[t], refresh'[t])
<1> DEFINE Kept == \A t \in Tokens : RowStep(refresh[t], refresh'[t])
<1>1. ASSUME UNCHANGED refresh PROVE Kept
  BY <1>1, SameRow DEF TypeInv, TypeOK
<1>2. ASSUME NEW c \in Calls, At(c, "login_issue") /\ Issue(c, NoToken) PROVE Kept
  BY <1>2, IssuedRows DEF At
<1>3. ASSUME NEW c \in Calls, At(c, "refresh_issue") /\ Issue(c, call[c].token) PROVE Kept
  <2>1. call[c].token \in Tokens
    BY <1>3 DEF At, TypeInv, GoodCall, TokenSteps
  <2> QED BY <1>3, <2>1, IssuedRows DEF At
<1>4. ASSUME NEW c \in Calls,
             SaveRevoked(c, "refresh_revoke") \/ SaveRevoked(c, "logout_save")
      PROVE  Kept
  BY <1>4, ClosedByCall DEF TokenSteps
<1>5. ASSUME NEW c \in Calls, DeleteRow(c) PROVE Kept
  <2>1. ASSUME NEW t \in Tokens PROVE RowStep(refresh[t], refresh'[t])
    <3>1. refresh[t] \in RefreshToken \cup {NoToken, Deleted}
      BY DEF TypeInv, TypeOK
    <3>2. refresh'[t] = Deleted \/ refresh'[t] = refresh[t]
      BY <1>5 DEF DeleteRow
    <3> QED BY <3>1, <3>2, SameRow, NoRowAssumption DEF RowStep
  <2> QED BY <2>1
<1>6. ASSUME NEW u \in Users, refresh' = Revoked(u) \/ refresh' = Stale(u) PROVE Kept
  BY <1>6, RevokedRows, StaleRows
<1>7. ASSUME NEW n \in Tokens, SessionExpires(n) PROVE Kept
  <2>1. ASSUME NEW t \in Tokens PROVE RowStep(refresh[t], refresh'[t])
    <3>1. refresh[t] \in RefreshToken \cup {NoToken, Deleted}
      BY DEF TypeInv, TypeOK
    <3>2. CASE t = n
      BY <1>7, <3>1, <3>2, ClosedRow DEF SessionExpires, Live, IsRow, TypeInv, TypeOK
    <3>3. CASE t # n
      BY <1>7, <3>1, <3>3, SameRow DEF SessionExpires, TypeInv, TypeOK
    <3> QED BY <3>2, <3>3
  <2> QED BY <2>1
<1> HIDE DEF Kept
<1>8. Kept
  BY <1>1, <1>2, <1>3, <1>4, <1>5, <1>6, <1>7, NextWrites DEF RefreshWrite
<1> QED BY <1>8 DEF Kept

(***************************************************************************)
(* Types                                                                   *)
(***************************************************************************)
\* What a step may do to the slots of the calls.
BeginGood(c, new) == new \in GoodCall /\ call' = [call EXCEPT ![c] = new]
                     /\ (new.pc \in TokenSteps => refresh[new.token] # NoToken)

LEMMA SlotsBegin ==
    ASSUME TypeInv, [Next]_vars, NEW c \in Calls, NEW new, BeginGood(c, new)
    PROVE  call' \in [Calls -> GoodCall] /\ Held'
<1>1. call' \in [Calls -> GoodCall]
  BY DEF BeginGood, TypeInv
<1>2. ASSUME NEW d \in Calls, call'[d].pc \in TokenSteps
      PROVE  refresh'[call'[d].token] # NoToken
  <2>1. call'[d] = IF d = c THEN new ELSE call[d]
    BY DEF BeginGood, TypeInv
  <2>2. refresh[call'[d].token] # NoToken
    BY <1>2, <2>1 DEF BeginGood, TypeInv, Held
  <2>3. call'[d].token \in Tokens
    BY <1>1, <1>2 DEF GoodCall
  <2> QED BY <2>2, <2>3, NextRows DEF RowStep
<1> QED BY <1>1, <1>2 DEF Held

\* Slots that go idle, or that keep the step and the token they had.
LEMMA SlotsKept ==
    ASSUME TypeInv, [Next]_vars, call' \in [Calls -> GoodCall],
           \A d \in Calls : \/ call'[d].pc \notin TokenSteps
                            \/ call[d].pc \in TokenSteps /\ call'[d].token = call[d].token
    PROVE  Held'
<1>1. ASSUME NEW d \in Calls, call'[d].pc \in TokenSteps
      PROVE  refresh'[call'[d].token] # NoToken
  <2>1. call'[d].token \in Tokens
    BY <1>1 DEF GoodCall
  <2>2. refresh[call'[d].token] # NoToken
    BY <1>1 DEF TypeInv, Held
  <2> QED BY <2>1, <2>2, NextRows DEF RowStep
<1> QED BY <1>1 DEF Held

LEMMA SlotsSame ==
    ASSUME TypeInv, [Next]_vars, UNCHANGED call
    PROVE  call' \in [Calls -> GoodCall] /\ Held'
BY SlotsKept DEF TypeInv

LEMMA SlotsDone ==
    ASSUME TypeInv, [Next]_vars, NEW c \in Calls, Done(c)
    PROVE  call' \in [Calls -> GoodCall] /\ Held'
BY SlotsBegin, IdleGood DEF BeginGood, Done, TokenSteps

LEMMA SlotsGoto ==
    ASSUME TypeInv, [Next]_vars, NEW c \in Calls,
           NEW pc \in Steps \ (WriteSteps \cup {"login_save"}),
           call[c].pc # "idle", pc \in TokenSteps => call[c].pc \in TokenSteps, Goto(c, pc)
    PROVE  call' \in [Calls -> GoodCall] /\ Held'
<1> DEFINE new == Moved(call[c], pc)
<1>1. new \in GoodCall /\ new.pc = pc /\ new.token = call[c].token
  BY MovedGood DEF TypeInv
<1>2. call' = [call EXCEPT ![c] = new]
  BY DEF Goto, Moved
<1>3. new.pc \in TokenSteps => refresh[new.token] # NoToken
  BY <1>1 DEF TypeInv, Held
<1> HIDE DEF new
<1> QED BY <1>1, <1>2, <1>3, SlotsBegin DEF BeginGood

\* Slots that go idle or are marked, from the slots `calls`.
LEMMA SlotsMarked ==
    ASSUME TypeInv, [Next]_vars, NEW calls \in [Calls -> GoodCall],
           \A d \in Calls : \/ calls[d].pc \notin TokenSteps
                            \/ calls[d].pc = call[d].pc /\ calls[d].token = call[d].token,
           call' = [d \in Calls |-> call'[d]],
           \A d \in Calls : \/ call'[d] = calls[d]
                            \/ call'[d] = Idle
                            \/ call'[d] = [calls[d] EXCEPT !.late = TRUE]
                            \/ call'[d] = [calls[d] EXCEPT !.pre = TRUE, !.late = TRUE]
    PROVE  call' \in [Calls -> GoodCall] /\ Held'
<1>1. ASSUME NEW d \in Calls
      PROVE  /\ call'[d] \in GoodCall
             /\ call'[d].pc \in TokenSteps =>
                  call'[d].pc = calls[d].pc /\ call'[d].token = calls[d].token
  <2>1. CASE call'[d] = calls[d]
    BY <2>1
  <2>2. CASE call'[d] = Idle
    <3>1. call'[d] \in GoodCall /\ call'[d].pc = "idle"
      BY <2>2, IdleGood
    <3> QED BY <3>1 DEF TokenSteps
  <2>3. CASE call'[d] = [calls[d] EXCEPT !.late = TRUE]
    <3>1. calls[d] \in GoodCall
      OBVIOUS
    <3> QED BY ONLY <2>3, <3>1, LateGood
  <2>4. CASE call'[d] = [calls[d] EXCEPT !.pre = TRUE, !.late = TRUE]
    BY <2>4, MarkedGood
  <2> QED BY <2>1, <2>2, <2>3, <2>4
<1>2. call' \in [Calls -> GoodCall]
  BY <1>1
<1> QED BY <1>1, <1>2, SlotsKept

LEMMA InitTypes == Init => TypeInv
<1> SUFFICES ASSUME Init PROVE TypeInv
  OBVIOUS
<1>1. call \in [Calls -> GoodCall] /\ Held
  BY IdleGood DEF Init, Held, TokenSteps
<1> QED BY <1>1, AuthAssumption DEF Init, TypeInv, TypeOK, Account, GoodCall

\* What is left in the slot of a call that writes a password.
LEMMA WritingSlot ==
    ASSUME TypeInv, NEW c \in Calls,
           ResetUser(c) \/ ChangeUser(c) \/ AdminPasswordWrite(c)
    PROVE  \E new \in GoodCall :
              /\ new.pc \in {"idle", "reset_mark", "change_revoke"}
              /\ new.pc # "idle" => new.user = call[c].user
              /\ WritePassword(call[c].user, call[c].password, [call EXCEPT ![c] = new])
<1>1. call[c] \in GoodCall
  BY DEF TypeInv
<1>2. CASE ResetUser(c)
  <2> DEFINE new == [call[c] EXCEPT !.pc = "reset_mark", !.password = NoToken]
  <2>1. new \in GoodCall
    BY <1>1, <1>2 DEF ResetUser, At, GoodCall, Call, Steps, TokenSteps, WriteSteps
  <2>2. new.pc = "reset_mark" /\ new.user = call[c].user
    BY <1>1 DEF GoodCall, Call
  <2>3. WritePassword(call[c].user, call[c].password, [call EXCEPT ![c] = new])
    BY <1>2 DEF ResetUser
  <2> HIDE DEF new
  <2> QED BY <2>1, <2>2, <2>3
<1>3. CASE ChangeUser(c)
  <2> DEFINE new == [call[c] EXCEPT !.pc = "change_revoke", !.password = NoToken]
  <2>1. new \in GoodCall
    BY <1>1, <1>3 DEF ChangeUser, At, GoodCall, Call, Steps, TokenSteps, WriteSteps
  <2>2. new.pc = "change_revoke" /\ new.user = call[c].user
    BY <1>1 DEF GoodCall, Call
  <2>3. WritePassword(call[c].user, call[c].password, [call EXCEPT ![c] = new])
    BY <1>3 DEF ChangeUser
  <2> HIDE DEF new
  <2> QED BY <2>1, <2>2, <2>3
<1>4. CASE AdminPasswordWrite(c)
  BY <1>4, IdleGood DEF AdminPasswordWrite
<1> QED BY <1>2, <1>3, <1>4

\* The slots, whatever is called.
LEMMA NextSlots == TypeInv /\ [Next]_vars => call' \in [Calls -> GoodCall] /\ Held'
<1> SUFFICES ASSUME TypeInv, [Next]_vars PROVE call' \in [Calls -> GoodCall] /\ Held'
  OBVIOUS
<1> DEFINE Fine == call' \in [Calls -> GoodCall] /\ Held'
<1>1. ASSUME UNCHANGED vars \/ (\E t \in Tokens : SessionExpires(t))
             \/ (\E k \in Mails : MailExpires(k))
      PROVE  Fine
  BY <1>1, SlotsSame DEF vars, SessionExpires, MailExpires
<1>2. ASSUME NEW u \in Users,
             \/ LogoutAll(u) \/ ForgotPassword(u) \/ LockExpires(u)
             \/ \E active \in BOOLEAN : AdminActivate(u, active)
      PROVE  Fine
  BY <1>2, SlotsSame DEF LogoutAll, ForgotPassword, LockExpires, AdminActivate
<1>3. ASSUME Restart PROVE Fine
  BY <1>3, IdleGood, SlotsKept DEF Restart, TokenSteps
<1>4. ASSUME NEW u \in Users, CreateAdminUser(u) PROVE Fine
  BY <1>4, SlotsMarked DEF CreateAdminUser, Stranded, TypeInv
<1>5. ASSUME NEW c \in Calls, NEW u \in Users, Register(c, u) PROVE Fine
  <2> DEFINE new == [Idle EXCEPT !.pc = "register_mail", !.user = u]
  <2>1. new \in GoodCall /\ new.pc = "register_mail"
    BY DEF Idle, GoodCall, Call, Steps, Account, TokenSteps, WriteSteps
  <2>2. call' = [Stranded(u) EXCEPT ![c] = new]
    BY <1>5 DEF Register
  <2> HIDE DEF new
  <2>3. \A d \in Calls : call'[d] = IF d = c THEN new
                                    ELSE IF call[d].user = u THEN Idle ELSE call[d]
    BY <2>2 DEF Stranded
  <2>4. call' \in [Calls -> GoodCall]
    BY <2>1, <2>2, <2>3, IdleGood DEF TypeInv, Stranded
  <2> QED BY <2>1, <2>3, <2>4, IdleGood, SlotsKept DEF TokenSteps
<1>6. ASSUME NEW c \in Calls, NEW u \in Users,
             LoginCheck(c, u) \/ ResendCheck(c, u) \/ ChangePassword(c, u)
             \/ DeleteAdminUser(c, u)
      PROVE  Fine
  <2>1. CASE LoginCheck(c, u)
    <3>1. PICK p \in Passwords :
            Begin(c, [Idle EXCEPT !.pc = "login_save", !.user = u, !.row = user[u],
                                  !.password = p, !.late = Changing(u)])
      BY <2>1 DEF LoginCheck
    <3>2. Changing(u) \in BOOLEAN
      BY DEF Changing
    <3>3. user[u] \in User
      BY <2>1 DEF LoginCheck, MayLogin, Exists, TypeInv, TypeOK, Account
    <3>4. ASSUME NEW b \in BOOLEAN
          PROVE  /\ [Idle EXCEPT !.pc = "login_save", !.user = u, !.row = user[u],
                                 !.password = p, !.late = b] \in GoodCall
                 /\ [Idle EXCEPT !.pc = "login_save", !.user = u, !.row = user[u],
                                 !.password = p, !.late = b].pc = "login_save"
      BY <3>3 DEF Idle, GoodCall, Call, Steps, Account, TokenSteps, WriteSteps
    <3> QED BY <3>1, <3>2, <3>4, SlotsBegin DEF Begin, BeginGood, TokenSteps
  <2>2. CASE ResendCheck(c, u)
    <3>1. /\ [Idle EXCEPT !.pc = "resend_mark", !.user = u] \in GoodCall
          /\ [Idle EXCEPT !.pc = "resend_mark", !.user = u].pc = "resend_mark"
      BY DEF Idle, GoodCall, Call, Steps, Account, TokenSteps, WriteSteps
    <3> QED BY <2>2, <3>1, SlotsBegin DEF ResendCheck, Begin, BeginGood, TokenSteps
  <2>3. CASE ChangePassword(c, u)
    <3>1. PICK p \in Passwords :
            Begin(c, [Idle EXCEPT !.pc = "change_user", !.user = u, !.password = p])
      BY <2>3 DEF ChangePassword
    <3>2. /\ [Idle EXCEPT !.pc = "change_user", !.user = u, !.password = p] \in GoodCall
          /\ [Idle EXCEPT !.pc = "change_user", !.user = u, !.password = p].pc
                = "change_user"
      BY DEF Idle, GoodCall, Call, Steps, Account, TokenSteps, WriteSteps
    <3> QED BY <3>1, <3>2, SlotsBegin DEF Begin, BeginGood, TokenSteps
  <2>4. CASE DeleteAdminUser(c, u)
    <3>1. /\ [Idle EXCEPT !.pc = "delete_user", !.user = u] \in GoodCall
          /\ [Idle EXCEPT !.pc = "delete_user", !.user = u].pc = "delete_user"
      BY DEF Idle, GoodCall, Call, Steps, Account, TokenSteps, WriteSteps
    <3> QED BY <2>4, <3>1, SlotsBegin DEF DeleteAdminUser, Begin, BeginGood, TokenSteps
  <2> QED BY <1>6, <2>1, <2>2, <2>3, <2>4
<1>7. ASSUME NEW c \in Calls, NEW t \in Tokens, RefreshCheck(c, t) \/ LogoutCheck(c, t)
      PROVE  Fine
  <2>1. Live(t)
    BY <1>7 DEF RefreshCheck, LogoutCheck
  <2>2. refresh[t] \in RefreshToken /\ refresh[t] # NoToken
    BY <2>1 DEF Live, IsRow, TypeInv, TypeOK
  <2>3. CASE RefreshCheck(c, t)
    <3> DEFINE late == refresh[t].late \/ Changing(refresh[t].user)
               new == [Idle EXCEPT !.pc = "refresh_revoke", !.user = refresh[t].user,
                                   !.token = t, !.pre = refresh[t].pre, !.late = late]
    <3>1. refresh[t].user \in Users /\ refresh[t].pre \in BOOLEAN /\ late \in BOOLEAN
      BY <2>2 DEF RefreshToken, Changing
    <3>2. Begin(c, new)
      BY <2>3 DEF RefreshCheck
    <3> HIDE DEF late
    <3>3. new \in GoodCall /\ new.token = t
      BY <3>1 DEF Idle, GoodCall, Call, Steps, Account, TokenSteps, WriteSteps
    <3> HIDE DEF new
    <3> QED BY <2>2, <3>2, <3>3, SlotsBegin DEF Begin, BeginGood
  <2>4. CASE LogoutCheck(c, t)
    <3> DEFINE new == [Idle EXCEPT !.pc = "logout_save", !.user = refresh[t].user,
                                   !.token = t]
    <3>1. refresh[t].user \in Users
      BY <2>2 DEF RefreshToken
    <3>2. Begin(c, new)
      BY <2>4 DEF LogoutCheck
    <3>3. new \in GoodCall /\ new.token = t
      BY <3>1 DEF Idle, GoodCall, Call, Steps, Account, TokenSteps, WriteSteps
    <3> HIDE DEF new
    <3> QED BY <2>2, <3>2, <3>3, SlotsBegin DEF Begin, BeginGood
  <2> QED BY <1>7, <2>3, <2>4
<1>8. ASSUME NEW c \in Calls, NEW k \in Mails, VerifyCheck(c, k) \/ ResetCheck(c, k)
      PROVE  Fine
  <2>1. mail[k].user \in Users
    BY <1>8 DEF VerifyCheck, ResetCheck, Usable, TypeInv, TypeOK, VerificationToken
  <2>2. CASE VerifyCheck(c, k)
    <3> DEFINE new == [Idle EXCEPT !.pc = "verify_mark", !.user = mail[k].user, !.mail = k]
    <3>1. new \in GoodCall /\ new.pc = "verify_mark"
      BY <2>1 DEF Idle, GoodCall, Call, Steps, Account, TokenSteps, WriteSteps
    <3>2. Begin(c, new)
      BY <2>2 DEF VerifyCheck
    <3> HIDE DEF new
    <3> QED BY <3>1, <3>2, SlotsBegin DEF Begin, BeginGood, TokenSteps
  <2>3. CASE ResetCheck(c, k)
    <3>1. PICK p \in Passwords :
            Begin(c, [Idle EXCEPT !.pc = "reset_user", !.user = mail[k].user, !.mail = k,
                                  !.password = p])
      BY <2>3 DEF ResetCheck
    <3> DEFINE new == [Idle EXCEPT !.pc = "reset_user", !.user = mail[k].user, !.mail = k,
                                   !.password = p]
    <3>2. new \in GoodCall /\ new.pc = "reset_user"
      BY <2>1 DEF Idle, GoodCall, Call, Steps, Account, TokenSteps, WriteSteps
    <3> HIDE DEF new
    <3> QED BY <3>1, <3>2, SlotsBegin DEF new, Begin, BeginGood, TokenSteps
  <2> QED BY <1>8, <2>2, <2>3
<1>9. ASSUME NEW c \in Calls, NEW u \in Users, AdminPassword(c, u) PROVE Fine
  <2>1. PICK p \in Passwords :
          call' = [Overtake(u, call) EXCEPT ![c] =
                     [Idle EXCEPT !.pc = "admin_user", !.user = u, !.password = p]]
    BY <1>9 DEF AdminPassword
  <2> DEFINE new == [Idle EXCEPT !.pc = "admin_user", !.user = u, !.password = p]
             calls == [call EXCEPT ![c] = new]
  <2>2. new \in GoodCall /\ new.pc = "admin_user"
    BY DEF Idle, GoodCall, Call, Steps, Account, TokenSteps, WriteSteps
  <2>3. calls \in [Calls -> GoodCall]
    BY <2>2 DEF TypeInv
  <2>4. \A d \in Calls : \/ calls[d].pc \notin TokenSteps
                         \/ calls[d].pc = call[d].pc /\ calls[d].token = call[d].token
    BY <2>2 DEF TypeInv, TokenSteps
  <2>5. \A d \in Calls : call'[d] = calls[d] \/ call'[d] = [calls[d] EXCEPT !.late = TRUE]
    BY <2>1 DEF Overtake, TypeInv
  <2>6. call' = [d \in Calls |-> call'[d]]
    BY <2>1 DEF Overtake
  <2> HIDE DEF new, calls
  <2> QED BY <2>3, <2>4, <2>5, <2>6, SlotsMarked
<1>10. ASSUME NEW c \in Calls,
              \/ RegisterMail(c) \/ LoginFails(c) \/ LoginIssue(c) \/ LogoutSave(c)
              \/ Refused(c) \/ VerifyUser(c) \/ ResendIssue(c) \/ ResetRevoke(c)
              \/ ChangeRevoke(c) \/ DeleteRow(c)
       PROVE  Fine
  <2>1. Done(c)
    BY <1>10 DEF RegisterMail, LoginFails, LoginIssue, LogoutSave, Refused, VerifyUser,
       ResendIssue, ResetRevoke, ChangeRevoke, DeleteRow
  <2> QED BY <2>1, SlotsDone
<1>11. ASSUME NEW c \in Calls,
              \/ LoginSave(c) \/ VerifyMark(c) \/ ResendMark(c) \/ ResetMark(c) \/ Rotate(c)
       PROVE  Fine
  <2>1. CASE LoginSave(c)
    BY <2>1, SlotsGoto DEF LoginSave, At, Steps, WriteSteps, TokenSteps
  <2>2. CASE VerifyMark(c)
    BY <2>2, SlotsGoto DEF VerifyMark, MarkUsed, At, Steps, WriteSteps, TokenSteps
  <2>3. CASE ResendMark(c)
    BY <2>3, SlotsGoto DEF ResendMark, At, Steps, WriteSteps, TokenSteps
  <2>4. CASE ResetMark(c)
    BY <2>4, SlotsGoto DEF ResetMark, MarkUsed, At, Steps, WriteSteps, TokenSteps
  <2>5. CASE Rotate(c)
    BY <2>5, SlotsGoto, SlotsDone DEF Rotate, SaveRevoked, At, Steps, WriteSteps, TokenSteps
  <2> QED BY <1>11, <2>1, <2>2, <2>3, <2>4, <2>5
<1>12. ASSUME NEW c \in Calls, ResetUser(c) \/ ChangeUser(c) \/ AdminPasswordWrite(c)
       PROVE  Fine
  <2>1. PICK new \in GoodCall :
          /\ new.pc \in {"idle", "reset_mark", "change_revoke"}
          /\ WritePassword(call[c].user, call[c].password, [call EXCEPT ![c] = new])
    BY <1>12, WritingSlot
  <2> DEFINE calls == [call EXCEPT ![c] = new]
  <2>2. calls \in [Calls -> GoodCall]
    BY DEF TypeInv
  <2>3. \A d \in Calls : \/ calls[d].pc \notin TokenSteps
                         \/ calls[d].pc = call[d].pc /\ calls[d].token = call[d].token
    BY <2>1 DEF TypeInv, TokenSteps
  <2>4. \A d \in Calls : \/ call'[d] = calls[d]
                         \/ call'[d] = [calls[d] EXCEPT !.pre = TRUE, !.late = TRUE]
    BY <2>1 DEF WritePassword
  <2>5. call' = [d \in Calls |-> call'[d]]
    <3> DEFINE to(d) == IF calls[d].user = call[c].user /\ calls[d].pc \in SessionSteps
                        THEN [calls[d] EXCEPT !.pre = TRUE, !.late = TRUE] ELSE calls[d]
    <3>1. call' = [d \in Calls |-> to(d)]
      BY <2>1 DEF WritePassword
    <3> HIDE DEF to
    <3> QED BY <3>1
  <2> HIDE DEF calls
  <2> QED BY <2>2, <2>3, <2>4, <2>5, SlotsMarked
<1> HIDE DEF Fine
<1>13. Fine
  BY <1>1, <1>2, <1>3, <1>4, <1>5, <1>6, <1>7, <1>8, <1>9, <1>10, <1>11, <1>12
     DEF Next, Begins, Continues
<1> QED BY <1>13 DEF Fine

LEMMA NextRefresh ==
    TypeInv /\ [Next]_vars => refresh' \in [Tokens -> RefreshToken \cup {NoToken, Deleted}]
<1> SUFFICES ASSUME TypeInv, [Next]_vars
             PROVE  refresh' \in [Tokens -> RefreshToken \cup {NoToken, Deleted}]
  OBVIOUS
<1>1. \A t \in Tokens : refresh'[t] \in RefreshToken \cup {NoToken, Deleted}
  BY NextRows DEF RowStep
<1> DEFINE Shaped == refresh' = [t \in Tokens |-> refresh'[t]]
<1>2. ASSUME \/ UNCHANGED refresh
             \/ \E t \in Tokens : SessionExpires(t)
             \/ \E c \in Calls, parent \in Tokens \cup {NoToken} : Issue(c, parent)
             \/ \E c \in Calls : \/ SaveRevoked(c, "refresh_revoke")
                                 \/ SaveRevoked(c, "logout_save")
      PROVE  Shaped
  BY <1>2 DEF SessionExpires, Issue, SaveRevoked, TypeInv, TypeOK
<1>3. ASSUME NEW c \in Calls, DeleteRow(c) PROVE Shaped
  <2> DEFINE to(t) == IF IsRow(t) /\ refresh[t].user = call[c].user
                      THEN Deleted ELSE refresh[t]
  <2>1. refresh' = [t \in Tokens |-> to(t)]
    BY <1>3 DEF DeleteRow
  <2> HIDE DEF to
  <2> QED BY <2>1
<1>4. ASSUME NEW u \in Users, refresh' = Revoked(u) PROVE Shaped
  <2> DEFINE to(t) == IF IsRow(t) /\ refresh[t].user = u THEN Close(refresh[t])
                      ELSE refresh[t]
  <2>1. refresh' = [t \in Tokens |-> to(t)]
    BY <1>4 DEF Revoked
  <2> HIDE DEF to
  <2> QED BY <2>1
<1>5. ASSUME NEW u \in Users, refresh' = Stale(u) PROVE Shaped
  <2> DEFINE to(t) == IF Live(t) /\ refresh[t].user = u
                      THEN [refresh[t] EXCEPT !.pre = TRUE] ELSE refresh[t]
  <2>1. refresh' = [t \in Tokens |-> to(t)]
    BY <1>5 DEF Stale
  <2> HIDE DEF to
  <2> QED BY <2>1
<1>6. \A c \in Calls : At(c, "refresh_issue") => call[c].token \in Tokens
  BY DEF At, TypeInv, GoodCall, TokenSteps
<1> HIDE DEF Shaped
<1>7. Shaped
  BY <1>2, <1>3, <1>4, <1>5, <1>6, NextWrites DEF RefreshWrite
<1> QED BY <1>1, <1>7 DEF Shaped

LEMMA RowsOfAccount ==
    ASSUME NEW row \in User, NEW p \in Passwords, NEW b \in BOOLEAN
    PROVE  /\ [row EXCEPT !.password = p] \in User /\ [row EXCEPT !.active = b] \in User
           /\ [row EXCEPT !.locked = FALSE] \in User
           /\ [row EXCEPT !.verified = TRUE] \in User
           /\ Failed(row) \in User /\ Cleared(row) \in User
           /\ NewUser(p, b) \in User
<1>1. row.attempts + 1 \in Nat /\ (row.attempts + 1 >= MaxAttempts) \in BOOLEAN
  BY DEF User
<1>2. Failed(row) \in User
  BY <1>1 DEF User, Failed
<1> QED BY <1>2 DEF User, Cleared, NewUser

LEMMA NextUsers == TypeInv /\ [Next]_vars => user' \in [Users -> Account]
<1> SUFFICES ASSUME TypeInv, [Next]_vars PROVE user' \in [Users -> Account]
  OBVIOUS
<1>1. CASE UNCHANGED user
  BY <1>1 DEF TypeInv, TypeOK
<1>2. ASSUME NEW u \in Users, NEW row \in Account, user' = [user EXCEPT ![u] = row]
      PROVE  user' \in [Users -> Account]
  BY <1>2 DEF TypeInv, TypeOK
<1>3. ASSUME NEW u \in Users, CreateAdminUser(u) \/ \E c \in Calls : Register(c, u)
      PROVE  user' \in [Users -> Account]
  <2>1. PICK p \in Passwords, b \in BOOLEAN : user' = [user EXCEPT ![u] = NewUser(p, b)]
    BY <1>3 DEF Register, CreateAdminUser
  <2>2. NewUser(p, b) \in Account
    BY DEF NewUser, User, Account
  <2> QED BY <1>2, <2>1, <2>2
<1>4. ASSUME NEW u \in Users, LockExpires(u) \/ \E b \in BOOLEAN : AdminActivate(u, b)
      PROVE  user' \in [Users -> Account]
  <2>1. user[u] \in User
    BY <1>4 DEF LockExpires, AdminActivate, Exists, TypeInv, TypeOK, Account
  <2>2. [user[u] EXCEPT !.locked = FALSE] \in Account
        /\ \A b \in BOOLEAN : [user[u] EXCEPT !.active = b] \in Account
    BY <2>1 DEF User, Account
  <2> QED BY <1>4, <2>2 DEF LockExpires, AdminActivate, TypeInv, TypeOK
<1>5. ASSUME NEW c \in Calls, LoginFails(c) \/ LoginSave(c)
      PROVE  user' \in [Users -> Account]
  <2>1. call[c].user \in Users /\ call[c].row \in User
    BY <1>5 DEF LoginFails, LoginSave, At, TypeInv, GoodCall
  <2>2. Failed(call[c].row) \in Account /\ Cleared(call[c].row) \in Account
    <3>1. PICK p \in Passwords : p = call[c].row.password
      BY <2>1 DEF User
    <3> QED BY <2>1, <3>1, RowsOfAccount DEF Account
  <2> QED BY <1>2, <1>5, <2>1, <2>2 DEF LoginFails, LoginSave
<1>6. ASSUME NEW c \in Calls, VerifyUser(c) PROVE user' \in [Users -> Account]
  <2>1. call[c].user \in Users
    BY <1>6 DEF VerifyUser, At, TypeInv, GoodCall
  <2>2. CASE ~Exists(call[c].user)
    BY <1>1, <1>6, <2>2 DEF VerifyUser
  <2>3. CASE Exists(call[c].user)
    <3>1. user[call[c].user] \in User
      BY <2>1, <2>3 DEF Exists, TypeInv, TypeOK, Account
    <3>2. [user[call[c].user] EXCEPT !.verified = TRUE] \in Account
      BY <3>1 DEF User, Account
    <3>3. user' = [user EXCEPT ![call[c].user] = [user[call[c].user] EXCEPT !.verified = TRUE]]
      BY <1>6, <2>1, <2>3 DEF VerifyUser, TypeInv, TypeOK
    <3> QED BY <1>2, <2>1, <3>2, <3>3
  <2> QED BY <2>2, <2>3
<1>7. ASSUME NEW c \in Calls, DeleteRow(c) PROVE user' \in [Users -> Account]
  <2>1. call[c].user \in Users /\ NoUser \in Account
    BY <1>7 DEF DeleteRow, At, TypeInv, GoodCall, Account
  <2> QED BY <1>2, <1>7, <2>1 DEF DeleteRow
<1>8. ASSUME NEW u \in Users, NEW p \in Passwords, NEW calls, WritePassword(u, p, calls)
      PROVE  user' \in [Users -> Account]
  <2>1. CASE ~Exists(u)
    BY <1>1, <1>8, <2>1 DEF WritePassword
  <2>2. CASE Exists(u)
    <3>1. user[u] \in User
      BY <2>2 DEF Exists, TypeInv, TypeOK, Account
    <3>2. [user[u] EXCEPT !.password = p] \in Account
      BY <3>1 DEF User, Account
    <3>3. user' = [user EXCEPT ![u] = [user[u] EXCEPT !.password = p]]
      BY <1>8, <2>2 DEF WritePassword, TypeInv, TypeOK
    <3> QED BY <1>2, <3>2, <3>3
  <2> QED BY <2>1, <2>2
<1>9. ASSUME NEW c \in Calls, ResetUser(c) \/ ChangeUser(c) \/ AdminPasswordWrite(c)
      PROVE  user' \in [Users -> Account]
  <2>1. call[c].user \in Users /\ call[c].password \in Passwords
    BY <1>9 DEF ResetUser, ChangeUser, AdminPasswordWrite, At, TypeInv, GoodCall, WriteSteps
  <2> QED BY <1>8, <1>9, <2>1 DEF ResetUser, ChangeUser, AdminPasswordWrite
<1>10. CASE \/ UNCHANGED vars \/ Restart
            \/ \E u \in Users : LogoutAll(u) \/ ForgotPassword(u)
            \/ \E t \in Tokens : SessionExpires(t)
            \/ \E k \in Mails : MailExpires(k)
  BY <1>1, <1>10 DEF vars, Restart, LogoutAll, ForgotPassword, SessionExpires, MailExpires
<1>11. ASSUME NEW c \in Calls, Begins(c), ~\E u \in Users : Register(c, u)
       PROVE  user' \in [Users -> Account]
  BY <1>1, <1>11 DEF Begins, LoginCheck, ResendCheck, ChangePassword, AdminPassword,
     DeleteAdminUser, RefreshCheck, LogoutCheck, VerifyCheck, ResetCheck
<1>12. ASSUME NEW c \in Calls,
              \/ RegisterMail(c) \/ LoginIssue(c) \/ Rotate(c) \/ LogoutSave(c) \/ Refused(c)
              \/ VerifyMark(c) \/ ResendMark(c) \/ ResendIssue(c) \/ ResetMark(c)
              \/ ResetRevoke(c) \/ ChangeRevoke(c)
       PROVE  user' \in [Users -> Account]
  BY <1>1, <1>12 DEF RegisterMail, LoginIssue, Issue, Rotate, LogoutSave, Refused,
     VerifyMark, MarkUsed, ResendMark, ResendIssue, ResetMark, ResetRevoke, ChangeRevoke
<1> QED BY <1>3, <1>4, <1>5, <1>6, <1>7, <1>9, <1>10, <1>11, <1>12
        DEF Next, Begins, Continues

LEMMA NextMails ==
    TypeInv /\ [Next]_vars => mail' \in [Mails -> VerificationToken \cup {NoToken}]
<1> SUFFICES ASSUME TypeInv, [Next]_vars
             PROVE  mail' \in [Mails -> VerificationToken \cup {NoToken}]
  OBVIOUS
<1> DEFINE Fine == mail' \in [Mails -> VerificationToken \cup {NoToken}]
<1>0. ASSUME NEW row \in VerificationToken
      PROVE  [row EXCEPT !.used = TRUE] \in VerificationToken
  BY DEF VerificationToken
<1>1. ASSUME UNCHANGED mail PROVE Fine
  BY <1>1 DEF TypeInv, TypeOK
<1>2. ASSUME NEW u \in Users, NEW k \in Mails, NEW type \in VerificationTokenType,
             SendMail(u, k, type)
      PROVE  Fine
  <2>1. [user |-> u, type |-> type, used |-> FALSE] \in VerificationToken
    BY DEF VerificationToken
  <2> QED BY <1>2, <2>1 DEF SendMail, TypeInv, TypeOK
<1>3. ASSUME NEW c \in Calls, RegisterMail(c) \/ ResendIssue(c) PROVE Fine
  <2>1. call[c].user \in Users
    BY <1>3 DEF RegisterMail, ResendIssue, At, TypeInv, GoodCall
  <2>2. "email_verification" \in VerificationTokenType
    BY DEF VerificationTokenType
  <2> QED BY <1>2, <1>3, <2>1, <2>2 DEF RegisterMail, ResendIssue
<1>4. ASSUME NEW u \in Users, ForgotPassword(u) PROVE Fine
  <2>1. "password_reset" \in VerificationTokenType
    BY DEF VerificationTokenType
  <2> QED BY <1>2, <1>4, <2>1 DEF ForgotPassword
<1>5. ASSUME NEW c \in Calls, VerifyMark(c) \/ ResetMark(c) PROVE Fine
  <2>1. mail' = [mail EXCEPT ![call[c].mail] =
                   IF mail[call[c].mail] = NoToken THEN mail[call[c].mail]
                   ELSE [mail[call[c].mail] EXCEPT !.used = TRUE]]
    BY <1>5 DEF VerifyMark, ResetMark, MarkUsed, TypeInv, TypeOK
  <2>2. ASSUME NEW k \in Mails, k = call[c].mail
        PROVE  (IF mail[k] = NoToken THEN mail[k] ELSE [mail[k] EXCEPT !.used = TRUE])
                 \in VerificationToken \cup {NoToken}
    BY <1>0 DEF TypeInv, TypeOK
  <2> QED BY <2>1, <2>2 DEF TypeInv, TypeOK
<1>6. ASSUME NEW k \in Mails, MailExpires(k) PROVE Fine
  <2>1. [mail[k] EXCEPT !.used = TRUE] \in VerificationToken
    BY <1>0, <1>6 DEF MailExpires, TypeInv, TypeOK
  <2>2. mail' = [mail EXCEPT ![k] = [mail[k] EXCEPT !.used = TRUE]]
    BY <1>6 DEF MailExpires, TypeInv, TypeOK
  <2> QED BY <2>1, <2>2 DEF TypeInv, TypeOK
<1>7. ASSUME NEW c \in Calls, ResendMark(c) PROVE Fine
  <2>1. ASSUME NEW k \in Mails, Usable(k, "email_verification")
        PROVE  [mail[k] EXCEPT !.used = TRUE] \in VerificationToken
    BY <1>0, <2>1 DEF Usable, TypeInv, TypeOK
  <2> QED BY <1>7, <2>1 DEF ResendMark, TypeInv, TypeOK
<1>8. ASSUME NEW c \in Calls, DeleteRow(c) PROVE Fine
  BY <1>8 DEF DeleteRow, TypeInv, TypeOK
<1>9. ASSUME \/ UNCHANGED vars \/ Restart
             \/ \E u \in Users : \/ CreateAdminUser(u) \/ LogoutAll(u) \/ LockExpires(u)
                                 \/ \E active \in BOOLEAN : AdminActivate(u, active)
             \/ \E t \in Tokens : SessionExpires(t)
      PROVE  Fine
  BY <1>1, <1>9 DEF vars, Restart, CreateAdminUser, LogoutAll, LockExpires, AdminActivate,
     SessionExpires
<1>10. ASSUME NEW c \in Calls, Begins(c) PROVE Fine
  BY <1>1, <1>10 DEF Begins, Register, LoginCheck, ResendCheck, ChangePassword,
     AdminPassword, DeleteAdminUser, RefreshCheck, LogoutCheck, VerifyCheck, ResetCheck
<1>11. ASSUME NEW c \in Calls,
              \/ LoginFails(c) \/ LoginSave(c) \/ LoginIssue(c) \/ Rotate(c)
              \/ LogoutSave(c) \/ Refused(c) \/ VerifyUser(c) \/ ResetUser(c)
              \/ ResetRevoke(c) \/ ChangeUser(c) \/ ChangeRevoke(c) \/ AdminPasswordWrite(c)
       PROVE  Fine
  BY <1>1, <1>11 DEF LoginFails, LoginSave, LoginIssue, Issue, Rotate, LogoutSave, Refused,
     VerifyUser, ResetUser, ResetRevoke, ChangeUser, ChangeRevoke, AdminPasswordWrite
<1> HIDE DEF Fine
<1>12. Fine
  BY <1>3, <1>4, <1>5, <1>6, <1>7, <1>8, <1>9, <1>10, <1>11 DEF Next, Continues
<1> QED BY <1>12 DEF Fine

LEMMA NextTypes == TypeInv /\ [Next]_vars => TypeInv'
<1> SUFFICES ASSUME TypeInv, [Next]_vars PROVE TypeInv'
  OBVIOUS
<1>1. call' \in [Calls -> GoodCall] /\ Held'
  BY NextSlots
<1>2. /\ refresh' \in [Tokens -> RefreshToken \cup {NoToken, Deleted}]
      /\ user' \in [Users -> Account]
      /\ mail' \in [Mails -> VerificationToken \cup {NoToken}]
  BY NextRefresh, NextUsers, NextMails
<1>3. CASE UNCHANGED <<restarts, wrong, overlapped>>
  BY <1>1, <1>2, <1>3 DEF TypeInv, TypeOK, GoodCall
<1> DEFINE Counts == /\ restarts' \in 0..MaxRestarts
                     /\ wrong' \in [Users -> Nat] /\ overlapped' \subseteq Users
<1>4. ASSUME Restart PROVE Counts
  BY <1>4, AuthAssumption DEF Restart, History, TypeInv, TypeOK
<1>5. ASSUME NEW u \in Users, CreateAdminUser(u) \/ \E c \in Calls : Register(c, u)
      PROVE  Counts
  <2>1. wrong' = [wrong EXCEPT ![u] = 0] /\ UNCHANGED <<restarts, overlapped>>
    BY <1>5 DEF CreateAdminUser, Register
  <2> QED BY <2>1 DEF TypeInv, TypeOK
<1>6. ASSUME NEW c \in Calls, NEW u \in Users, LoginCheck(c, u) PROVE Counts
  BY <1>6 DEF LoginCheck, TypeInv, TypeOK
<1>7. ASSUME NEW c \in Calls, LoginFails(c) \/ LoginSave(c) PROVE Counts
  BY <1>7 DEF LoginFails, LoginSave, TypeInv, TypeOK
<1>8. ASSUME \/ UNCHANGED vars
             \/ \E u \in Users : \/ LogoutAll(u) \/ ForgotPassword(u) \/ LockExpires(u)
                                 \/ \E active \in BOOLEAN : AdminActivate(u, active)
             \/ \E t \in Tokens : SessionExpires(t)
             \/ \E k \in Mails : MailExpires(k)
      PROVE  UNCHANGED <<restarts, wrong, overlapped>>
  BY <1>8 DEF vars, LogoutAll, ForgotPassword, LockExpires, AdminActivate, SessionExpires,
     MailExpires, History
<1>9. ASSUME NEW c \in Calls,
             \/ \E u \in Users : \/ ResendCheck(c, u) \/ ChangePassword(c, u)
                                 \/ AdminPassword(c, u) \/ DeleteAdminUser(c, u)
             \/ \E t \in Tokens : RefreshCheck(c, t) \/ LogoutCheck(c, t)
             \/ \E k \in Mails : VerifyCheck(c, k) \/ ResetCheck(c, k)
      PROVE  UNCHANGED <<restarts, wrong, overlapped>>
  BY <1>9 DEF ResendCheck, ChangePassword, AdminPassword, DeleteAdminUser, RefreshCheck,
     LogoutCheck, VerifyCheck, ResetCheck, History
<1>10. ASSUME NEW c \in Calls, Continues(c), ~LoginFails(c), ~LoginSave(c)
       PROVE  UNCHANGED <<restarts, wrong, overlapped>>
  BY <1>10 DEF Continues, RegisterMail, LoginIssue, Issue, Rotate, LogoutSave, Refused,
     VerifyMark, MarkUsed, VerifyUser, ResendMark, ResendIssue, ResetUser, ResetMark,
     ResetRevoke, ChangeUser, ChangeRevoke, AdminPasswordWrite, DeleteRow, History
<1> HIDE DEF Counts
<1>11. Counts \/ UNCHANGED <<restarts, wrong, overlapped>>
  BY <1>4, <1>5, <1>6, <1>7, <1>8, <1>9, <1>10 DEF Next, Begins
<1> QED BY <1>1, <1>2, <1>3, <1>11 DEF Counts, TypeInv, TypeOK, GoodCall

\* Accounts, sessions, mailed tokens and calls keep their types, whatever overlaps.
THEOREM AuthTypeCorrect == Spec => []TypeOK
<1>1. Spec => []TypeInv
  BY InitTypes, NextTypes, PTL DEF Spec
<1> QED BY <1>1, PTL DEF TypeInv

(***************************************************************************)
(* The calls that lead to a session                                        *)
(***************************************************************************)
\* A call that a step of another one may have marked.
Kept(old, new) ==
    /\ new.pc = old.pc /\ new.user = old.user /\ new.row = old.row
    /\ new.token = old.token /\ new.password = old.password
    /\ new.late \/ (new.pre = old.pre /\ new.late = old.late)

\* What is at a step of a login or of a refresh was there before or has got there now.
SessionSlot(c) ==
    \/ Kept(call[c], call'[c])
    \/ \E u \in Users : LoginCheck(c, u)
    \/ \E t \in Tokens : RefreshCheck(c, t)
    \/ LoginSave(c)
    \/ SaveRevoked(c, "refresh_revoke") /\ Goto(c, "refresh_issue")

LEMMA SessionSlots ==
    ASSUME TypeInv, [Next]_vars, NEW c \in Calls, call'[c].pc \in SessionSteps
    PROVE  SessionSlot(c)
<1>0. call[c] \in GoodCall /\ Idle.pc = "idle" /\ "idle" \notin SessionSteps
  BY IdleGood DEF TypeInv, SessionSteps
<1>1. ASSUME call'[c] = call[c] PROVE SessionSlot(c)
  BY <1>1 DEF SessionSlot, Kept
<1>2. ASSUME NEW d \in Calls, NEW pc, Goto(d, pc), pc \notin SessionSteps
      PROVE  SessionSlot(c)
  BY <1>2, <1>0, <1>1 DEF Goto, TypeInv, GoodCall, Call
<1>3. ASSUME NEW d \in Calls, Done(d) PROVE SessionSlot(c)
  BY <1>3, <1>0, <1>1 DEF Done, TypeInv
<1>4. ASSUME NEW d \in Calls, Begins(d) PROVE SessionSlot(c)
  <2>1. ASSUME NEW u \in Users, Register(d, u) PROVE SessionSlot(c)
    BY <2>1, <1>0, <1>1 DEF Register, Stranded, Idle, SessionSteps
  <2>2. ASSUME NEW u \in Users, AdminPassword(d, u) PROVE SessionSlot(c)
    <3>1. PICK p \in Passwords :
            call' = [Overtake(u, call) EXCEPT ![d] =
                       [Idle EXCEPT !.pc = "admin_user", !.user = u, !.password = p]]
      BY <2>2 DEF AdminPassword
    <3>2. c # d
      BY <3>1 DEF Overtake, Idle, SessionSteps
    <3>3. call'[c] = call[c] \/ call'[c] = [call[c] EXCEPT !.late = TRUE]
      BY <3>1, <3>2 DEF Overtake
    <3> QED BY <1>0, <1>1, <3>3, LateGood DEF SessionSlot, Kept
  <2>3. ASSUME NEW new, Begin(d, new), new.pc \notin SessionSteps PROVE SessionSlot(c)
    BY <1>1, <2>3 DEF Begin, TypeInv
  <2>4. ASSUME NEW u \in Users,
               ResendCheck(d, u) \/ ChangePassword(d, u) \/ DeleteAdminUser(d, u)
        PROVE  SessionSlot(c)
    BY <2>3, <2>4 DEF ResendCheck, ChangePassword, DeleteAdminUser, Idle, SessionSteps
  <2>5. ASSUME NEW k \in Mails, VerifyCheck(d, k) \/ ResetCheck(d, k) PROVE SessionSlot(c)
    BY <2>3, <2>5 DEF VerifyCheck, ResetCheck, Idle, SessionSteps
  <2>6. ASSUME NEW t \in Tokens, LogoutCheck(d, t) PROVE SessionSlot(c)
    BY <2>3, <2>6 DEF LogoutCheck, Idle, SessionSteps
  <2>7. ASSUME (\E u \in Users : LoginCheck(d, u)) \/ (\E t \in Tokens : RefreshCheck(d, t))
        PROVE  SessionSlot(c)
    <3>1. c # d => call'[c] = call[c]
      BY <2>7 DEF LoginCheck, RefreshCheck, Begin, TypeInv
    <3> QED BY <1>1, <2>7, <3>1 DEF SessionSlot
  <2> QED BY <1>4, <2>1, <2>2, <2>4, <2>5, <2>6, <2>7 DEF Begins
<1>5. ASSUME NEW u \in Users, CreateAdminUser(u) PROVE SessionSlot(c)
  BY <1>5, <1>0, <1>1 DEF CreateAdminUser, Stranded
<1>6. ASSUME Restart PROVE SessionSlot(c)
  BY <1>6, <1>0 DEF Restart
<1>7. ASSUME NEW d \in Calls, ResetUser(d) \/ ChangeUser(d) \/ AdminPasswordWrite(d)
      PROVE  SessionSlot(c)
  <2>1. PICK new \in GoodCall :
          /\ new.pc \in {"idle", "reset_mark", "change_revoke"}
          /\ WritePassword(call[d].user, call[d].password, [call EXCEPT ![d] = new])
    BY <1>7, WritingSlot
  <2> DEFINE calls == [call EXCEPT ![d] = new]
  <2>2. call'[c] = calls[c] \/ call'[c] = [calls[c] EXCEPT !.pre = TRUE, !.late = TRUE]
    BY <2>1 DEF WritePassword
  <2>3. calls[c] \in GoodCall /\ (c = d => calls[c] = new) /\ (c # d => calls[c] = call[c])
    BY DEF TypeInv
  <2> HIDE DEF calls
  <2>4. Kept(calls[c], call'[c])
    BY <2>2, <2>3, MarkedGood DEF Kept
  <2>5. c # d
    BY <2>1, <2>3, <2>4 DEF Kept, SessionSteps
  <2> QED BY <2>3, <2>4, <2>5 DEF SessionSlot
<1>8. ASSUME NEW d \in Calls,
             LoginSave(d) \/ (SaveRevoked(d, "refresh_revoke") /\ Goto(d, "refresh_issue"))
      PROVE  SessionSlot(c)
  <2>1. c # d => call'[c] = call[c]
    BY <1>8 DEF LoginSave, Goto, TypeInv
  <2> QED BY <1>1, <1>8, <2>1 DEF SessionSlot
<1>9. ASSUME \/ UNCHANGED vars
             \/ \E u \in Users : \/ LogoutAll(u) \/ ForgotPassword(u) \/ LockExpires(u)
                                 \/ \E active \in BOOLEAN : AdminActivate(u, active)
             \/ \E t \in Tokens : SessionExpires(t)
             \/ \E k \in Mails : MailExpires(k)
      PROVE  SessionSlot(c)
  BY <1>1, <1>9 DEF vars, LogoutAll, ForgotPassword, LockExpires, AdminActivate,
     SessionExpires, MailExpires
<1>10. ASSUME NEW d \in Calls, Continues(d) PROVE SessionSlot(c)
  <2>1. \/ Done(d) \/ (\E pc : Goto(d, pc) /\ pc \notin SessionSteps) \/ LoginSave(d)
        \/ SaveRevoked(d, "refresh_revoke") /\ Goto(d, "refresh_issue")
        \/ ResetUser(d) \/ ChangeUser(d) \/ AdminPasswordWrite(d)
    BY <1>10 DEF Continues, RegisterMail, LoginFails, LoginIssue, Rotate, LogoutSave,
       Refused, VerifyMark, VerifyUser, ResendMark, ResendIssue, ResetMark, ResetRevoke,
       ChangeRevoke, DeleteRow, SessionSteps
  <2> QED BY <2>1, <1>2, <1>3, <1>7, <1>8
<1> QED BY <1>4, <1>5, <1>6, <1>9, <1>10 DEF Next

LEMMA LoginBegins ==
    ASSUME TypeInv, NEW c \in Calls, NEW u \in Users, LoginCheck(c, u)
    PROVE  /\ call'[c].pc = "login_save" /\ call'[c].user = u /\ call'[c].row = user[u]
           /\ call'[c].pre = FALSE /\ call'[c].late = Changing(u)
           /\ \A d \in Calls \ {c} : call'[d] = call[d]
<1>1. PICK p \in Passwords :
        Begin(c, [Idle EXCEPT !.pc = "login_save", !.user = u, !.row = user[u],
                              !.password = p, !.late = Changing(u)])
  BY DEF LoginCheck
<1> QED BY <1>1 DEF Begin, Idle, TypeInv

LEMMA RefreshBegins ==
    ASSUME TypeInv, NEW c \in Calls, NEW t \in Tokens, RefreshCheck(c, t)
    PROVE  /\ call'[c].pc = "refresh_revoke" /\ call'[c].user = refresh[t].user
           /\ call'[c].pre = refresh[t].pre
           /\ call'[c].late = (refresh[t].late \/ Changing(refresh[t].user))
           /\ \A d \in Calls \ {c} : call'[d] = call[d]
BY DEF RefreshCheck, Begin, Idle, TypeInv

(***************************************************************************)
(* An open session has no successor                                        *)
(***************************************************************************)
Closed(t) == refresh[t] # NoToken /\ ~Live(t)

\* What is being traded is closed before its successor is there, and stays so.
TradeInv ==
    /\ \A c \in Calls : call[c].pc = "refresh_issue" => Closed(call[c].token)
    /\ \A s, t \in Tokens : IsRow(s) /\ refresh[s].parent = t => Closed(t)

LEMMA InitTrade == Init => TradeInv
BY IdleGood DEF Init, TradeInv, IsRow

LEMMA ClosedStays ==
    ASSUME TypeInv, [Next]_vars, NEW t \in Tokens, Closed(t)
    PROVE  Closed(t)'
BY NextRows DEF RowStep, Closed, Live, IsRow

\* A slot at refresh_issue was there before, or its call has just closed its token.
LEMMA TradingSlots ==
    ASSUME TypeInv, [Next]_vars, NEW c \in Calls, call'[c].pc = "refresh_issue"
    PROVE  /\ call'[c].token = call[c].token
           /\ \/ call[c].pc = "refresh_issue"
              \/ SaveRevoked(c, "refresh_revoke")
<1>1. SessionSlot(c)
  BY SessionSlots DEF SessionSteps
<1>2. call[c] \in GoodCall
  BY DEF TypeInv
<1>3. CASE (\E u \in Users : LoginCheck(c, u)) \/ (\E t \in Tokens : RefreshCheck(c, t))
  BY <1>3, LoginBegins, RefreshBegins
<1>4. CASE LoginSave(c)
  BY <1>2, <1>4 DEF LoginSave, Goto, TypeInv, GoodCall, Call
<1>5. CASE SaveRevoked(c, "refresh_revoke") /\ Goto(c, "refresh_issue")
  BY <1>2, <1>5 DEF Goto, TypeInv, GoodCall, Call
<1> QED BY <1>1, <1>3, <1>4, <1>5 DEF SessionSlot, Kept

\* A row with a parent is new where a refresh inserts it.
LEMMA NewRowIsIssued ==
    ASSUME TypeInv, [Next]_vars, NEW s \in Tokens, ~IsRow(s), IsRow(s)',
           refresh'[s].parent \in Tokens
    PROVE  \E c \in Calls : /\ At(c, "refresh_issue") /\ Issue(c, call[c].token)
                            /\ refresh'[s].parent = call[c].token
<1>0. refresh[s] \in {NoToken, Deleted}
  BY DEF IsRow
<1>1. ASSUME NEW c \in Calls, NEW parent \in Tokens \cup {NoToken}, Issue(c, parent)
      PROVE  refresh'[s].parent = parent
  BY <1>1, <1>0 DEF Issue, IsRow, TypeInv, TypeOK
<1>2. ASSUME NEW u \in Users, refresh' = Revoked(u) \/ refresh' = Stale(u) PROVE FALSE
  BY <1>2, <1>0 DEF Revoked, Stale, IsRow, Live
<1>3. ASSUME \/ UNCHANGED refresh
             \/ \E t \in Tokens : SessionExpires(t)
             \/ \E c \in Calls : DeleteRow(c)
      PROVE  FALSE
  BY <1>3, <1>0 DEF SessionExpires, DeleteRow, IsRow, Live, TypeInv, TypeOK
<1>4. ASSUME NEW c \in Calls, NEW pc \in TokenSteps, SaveRevoked(c, pc)
      PROVE  refresh'[s].parent = NoToken
  <2>1. call[c].token \in Tokens /\ refresh[call[c].token] # NoToken
    BY <1>4 DEF SaveRevoked, At, TypeInv, GoodCall, Held
  <2>2. s = call[c].token /\ refresh[s] = Deleted
    BY <1>4, <1>0, <2>1 DEF SaveRevoked, IsRow, TypeInv, TypeOK
  <2> QED BY <1>4, <2>2 DEF SaveRevoked, TypeInv, TypeOK
<1>5. \A c \in Calls : At(c, "refresh_issue") => call[c].token \in Tokens
  BY DEF At, TypeInv, GoodCall, TokenSteps
<1>6. "refresh_revoke" \in TokenSteps /\ "logout_save" \in TokenSteps
  BY DEF TokenSteps
<1> QED BY <1>1, <1>2, <1>3, <1>4, <1>5, <1>6, NextWrites, NoRowAssumption DEF RefreshWrite

LEMMA NextTrade == TypeInv /\ TradeInv /\ [Next]_vars => TradeInv'
<1> SUFFICES ASSUME TypeInv, TradeInv, [Next]_vars PROVE TradeInv'
  OBVIOUS
<1>1. ASSUME NEW c \in Calls, call'[c].pc = "refresh_issue"
      PROVE  \E t \in Tokens : t = call'[c].token /\ Closed(t)'
  <2>1. PICK t \in Tokens : t = call[c].token /\ t = call'[c].token
    BY <1>1, TradingSlots DEF TypeInv, GoodCall, TokenSteps, SaveRevoked, At
  <2>2. CASE call[c].pc = "refresh_issue"
    <3>1. Closed(t)
      BY <2>1, <2>2 DEF TradeInv
    <3> QED BY <2>1, <3>1, ClosedStays
  <2>3. CASE SaveRevoked(c, "refresh_revoke")
    <3>1. refresh'[t] \in RefreshToken /\ refresh'[t].revoked
      BY <2>1, <2>3, ClosedByCall DEF TokenSteps
    <3>2. Closed(t)'
      BY <3>1, NoRowAssumption DEF Closed, Live, IsRow
    <3> QED BY <2>1, <3>2
  <2> QED BY <1>1, <2>2, <2>3, TradingSlots
<1>2. ASSUME NEW s \in Tokens, NEW t \in Tokens, IsRow(s)', refresh'[s].parent = t
      PROVE  Closed(t)'
  <2>1. CASE IsRow(s)
    <3>1. refresh[s].parent = t
      BY <1>2, <2>1, NextRows DEF RowStep, IsRow
    <3> QED BY <2>1, <3>1, ClosedStays DEF TradeInv
  <2>2. CASE ~IsRow(s)
    <3>1. PICK c \in Calls : At(c, "refresh_issue") /\ Issue(c, call[c].token)
                             /\ refresh'[s].parent = call[c].token
      BY <1>2, <2>2, NewRowIsIssued
    <3>2. Closed(t)
      BY <1>2, <3>1 DEF TradeInv, At
    <3> QED BY <3>2, ClosedStays
  <2> QED BY <2>1, <2>2
<1> QED BY <1>1, <1>2 DEF TradeInv, Closed, Live, IsRow

\* However refreshes, logouts, deletions and restarts interleave, a session that was
\* traded for a new one is closed, for any number of sessions and calls.
THEOREM TradedSessionsAreClosed == Spec => []OpenSessionHasNoSuccessor
<1>1. Spec => [](TypeInv /\ TradeInv)
  BY InitTypes, InitTrade, NextTypes, NextTrade, PTL DEF Spec
<1>2. TradeInv => OpenSessionHasNoSuccessor
  BY DEF TradeInv, Closed, OpenSessionHasNoSuccessor, Live
<1> QED BY <1>1, <1>2, PTL

(***************************************************************************)
(* What is written to an account                                           *)
(***************************************************************************)
\* A change that verifies nothing away, counts nothing and locks nothing.
Edited(old, new) ==
    /\ new \in User
    /\ old.verified => new.verified
    /\ new.attempts = old.attempts
    /\ new.locked => old.locked

\* What a step may do to the account of u and to its count of wrong passwords.
AccountStep(u) ==
    \/ user'[u] = user[u] /\ wrong'[u] = wrong[u]
    \/ wrong'[u] = wrong[u] /\ \E c \in Calls : DeleteRow(c) /\ call[c].user = u
    \/ Exists(u) /\ Edited(user[u], user'[u]) /\ wrong'[u] = wrong[u]
    \/ /\ ~Exists(u) /\ wrong'[u] = 0
       /\ user'[u].attempts = 0 /\ user'[u].locked = FALSE
       /\ \A c \in Calls : call'[c].user = u => call'[c].pc \notin SessionSteps
    \/ \E c \in Calls : call[c].user = u /\ (LoginFails(c) \/ LoginSave(c))

LEMMA AccountSteps ==
    ASSUME TypeInv, [Next]_vars, NEW u \in Users
    PROVE  AccountStep(u)
<1>1. ASSUME UNCHANGED <<user, wrong>> PROVE AccountStep(u)
  BY <1>1 DEF AccountStep
<1>2. user[u] \in Account /\ (Exists(u) => user[u] \in User)
  BY DEF Exists, Account, TypeInv, TypeOK
<1>3. ASSUME NEW v \in Users, CreateAdminUser(v) \/ \E c \in Calls : Register(c, v)
      PROVE  AccountStep(u)
  <2>1. PICK p \in Passwords, b \in BOOLEAN :
          user' = [user EXCEPT ![v] = NewUser(p, b)] /\ wrong' = [wrong EXCEPT ![v] = 0]
    BY <1>3 DEF CreateAdminUser, Register
  <2>2. CASE u # v
    BY <2>1, <2>2 DEF AccountStep, TypeInv, TypeOK
  <2>3. CASE u = v
    <3>1. user'[u] = NewUser(p, b) /\ wrong'[u] = 0
      BY <2>1, <2>3 DEF TypeInv, TypeOK
    <3>2. ASSUME NEW c \in Calls, call'[c].user = u PROVE call'[c].pc \notin SessionSteps
      <4>1. CASE CreateAdminUser(u)
        BY <3>2, <4>1, IdleGood DEF CreateAdminUser, Stranded, SessionSteps
      <4>2. ASSUME NEW d \in Calls, Register(d, u) PROVE call'[c].pc \notin SessionSteps
        BY <3>2, <4>2, IdleGood DEF Register, Stranded, Idle, SessionSteps
      <4> QED BY <1>3, <2>3, <4>1, <4>2
    <3>3. ~Exists(u)
      BY <1>3, <2>3 DEF CreateAdminUser, Register
    <3> QED BY <3>1, <3>2, <3>3 DEF AccountStep, NewUser
  <2> QED BY <2>2, <2>3
<1>4. ASSUME NEW c \in Calls, LoginFails(c) \/ LoginSave(c) PROVE AccountStep(u)
  <2>1. CASE call[c].user = u
    BY <1>4, <2>1 DEF AccountStep
  <2>2. CASE call[c].user # u
    BY <1>4, <2>2 DEF LoginFails, LoginSave, AccountStep, TypeInv, TypeOK
  <2> QED BY <2>1, <2>2
<1>5. ASSUME NEW v \in Users, LockExpires(v) \/ \E b \in BOOLEAN : AdminActivate(v, b)
      PROVE  AccountStep(u)
  <2>1. UNCHANGED wrong /\ Exists(v)
    BY <1>5 DEF LockExpires, AdminActivate, History
  <2>2. CASE u # v
    BY <1>5, <2>1, <2>2 DEF LockExpires, AdminActivate, AccountStep, TypeInv, TypeOK
  <2>3. CASE u = v
    <3>1. \/ user'[u] = [user[u] EXCEPT !.locked = FALSE]
          \/ \E b \in BOOLEAN : user'[u] = [user[u] EXCEPT !.active = b]
      BY <1>5, <2>3 DEF LockExpires, AdminActivate, TypeInv, TypeOK
    <3>2. user[u] \in User
      BY <1>2, <2>1, <2>3
    <3>3. Edited(user[u], user'[u])
      BY <3>1, <3>2 DEF Edited, User
    <3> QED BY <2>1, <2>3, <3>3 DEF AccountStep
  <2> QED BY <2>2, <2>3
<1>6. ASSUME NEW c \in Calls, VerifyUser(c) PROVE AccountStep(u)
  <2>1. UNCHANGED wrong
    BY <1>6 DEF VerifyUser, History
  <2>2. user'[u] = user[u] \/ (Exists(u) /\ user'[u] = [user[u] EXCEPT !.verified = TRUE])
    BY <1>6 DEF VerifyUser, TypeInv, TypeOK
  <2>3. Exists(u) => Edited(user[u], [user[u] EXCEPT !.verified = TRUE])
    BY <1>2 DEF Edited, User
  <2> QED BY <2>1, <2>2, <2>3 DEF AccountStep
<1>7. ASSUME NEW c \in Calls, ResetUser(c) \/ ChangeUser(c) \/ AdminPasswordWrite(c)
      PROVE  AccountStep(u)
  <2>1. UNCHANGED wrong
    BY <1>7 DEF ResetUser, ChangeUser, AdminPasswordWrite, History
  <2>2. PICK new : WritePassword(call[c].user, call[c].password, new)
    BY <1>7 DEF ResetUser, ChangeUser, AdminPasswordWrite
  <2>3. \/ user'[u] = user[u]
        \/ Exists(u) /\ user'[u] = [user[u] EXCEPT !.password = call[c].password]
    BY <2>2 DEF WritePassword, TypeInv, TypeOK
  <2>4. call[c].password \in Passwords
    BY <1>7 DEF ResetUser, ChangeUser, AdminPasswordWrite, At, TypeInv, GoodCall, WriteSteps
  <2>5. Exists(u) => Edited(user[u], [user[u] EXCEPT !.password = call[c].password])
    BY <1>2, <2>4 DEF Edited, User
  <2> QED BY <2>1, <2>3, <2>5 DEF AccountStep
<1>8. ASSUME NEW c \in Calls, DeleteRow(c) PROVE AccountStep(u)
  <2>1. UNCHANGED wrong
    BY <1>8 DEF DeleteRow, History
  <2>2. call[c].user # u => user'[u] = user[u]
    BY <1>8 DEF DeleteRow, TypeInv, TypeOK
  <2> QED BY <1>8, <2>1, <2>2 DEF AccountStep
<1>9. ASSUME \/ UNCHANGED vars \/ Restart
             \/ \E v \in Users : LogoutAll(v) \/ ForgotPassword(v)
             \/ \E t \in Tokens : SessionExpires(t)
             \/ \E k \in Mails : MailExpires(k)
      PROVE  AccountStep(u)
  BY <1>1, <1>9 DEF vars, Restart, LogoutAll, ForgotPassword, SessionExpires, MailExpires,
     History
<1>10. ASSUME NEW c \in Calls, Begins(c), ~\E v \in Users : Register(c, v)
       PROVE  AccountStep(u)
  BY <1>1, <1>10 DEF Begins, LoginCheck, ResendCheck, ChangePassword, AdminPassword,
     DeleteAdminUser, RefreshCheck, LogoutCheck, VerifyCheck, ResetCheck, History
<1>11. ASSUME NEW c \in Calls,
              \/ RegisterMail(c) \/ LoginIssue(c) \/ Rotate(c) \/ LogoutSave(c) \/ Refused(c)
              \/ VerifyMark(c) \/ ResendMark(c) \/ ResendIssue(c) \/ ResetMark(c)
              \/ ResetRevoke(c) \/ ChangeRevoke(c)
       PROVE  AccountStep(u)
  BY <1>1, <1>11 DEF RegisterMail, LoginIssue, Issue, Rotate, LogoutSave, Refused,
     VerifyMark, MarkUsed, ResendMark, ResendIssue, ResetMark, ResetRevoke, ChangeRevoke,
     History
<1> QED BY <1>3, <1>4, <1>5, <1>6, <1>7, <1>8, <1>9, <1>10, <1>11
        DEF Next, Begins, Continues

(***************************************************************************)
(* A verified address stays verified                                       *)
(***************************************************************************)
\* A login has read an account whose address is verified.
StickInv == \A c \in Calls : call[c].pc = "login_save" => call[c].row.verified

LEMMA NextSticks == TypeInv /\ StickInv /\ [Next]_vars => StickInv'
<1> SUFFICES ASSUME TypeInv, StickInv, [Next]_vars,
                    NEW c \in Calls, call'[c].pc = "login_save"
             PROVE  call'[c].row.verified
  BY DEF StickInv
<1>1. SessionSlot(c)
  BY SessionSlots DEF SessionSteps
<1>2. call[c] \in GoodCall
  BY DEF TypeInv
<1>3. ASSUME NEW u \in Users, LoginCheck(c, u) PROVE call'[c].row.verified
  BY <1>3, LoginBegins DEF LoginCheck, MayLogin
<1>4. ~\E t \in Tokens : RefreshCheck(c, t)
  BY RefreshBegins
<1>5. ~LoginSave(c) /\ ~(SaveRevoked(c, "refresh_revoke") /\ Goto(c, "refresh_issue"))
  BY <1>2 DEF LoginSave, Goto, TypeInv, GoodCall, Call
<1> QED BY <1>1, <1>3, <1>4, <1>5 DEF SessionSlot, Kept, StickInv

LEMMA VerifiedStays ==
    ASSUME TypeInv, StickInv, [Next]_vars, NEW u \in Users,
           Exists(u), user[u].verified, user'[u] # NoUser
    PROVE  user'[u].verified
<1>1. ASSUME NEW c \in Calls, call[c].user = u, LoginFails(c) \/ LoginSave(c)
      PROVE  user'[u].verified
  <2>1. call[c].row \in User /\ call[c].row.verified
    BY <1>1 DEF LoginFails, LoginSave, At, TypeInv, GoodCall, StickInv
  <2>2. Failed(call[c].row).verified /\ Cleared(call[c].row).verified
    BY <2>1 DEF Failed, Cleared, User
  <2> QED BY <1>1, <2>2 DEF LoginFails, LoginSave, TypeInv, TypeOK
<1>2. ~\E c \in Calls : DeleteRow(c) /\ call[c].user = u
  BY DEF DeleteRow, TypeInv, TypeOK
<1> QED BY <1>1, <1>2, AccountSteps DEF AccountStep, Edited

\* A login saves the account as it read it, whenever that was, and never takes the
\* verification of an address back; nor does any other step.
THEOREM VerifiedAddressesStay == Spec => VerificationSticks
<1>1. TypeInv /\ StickInv /\ [Next]_vars
      => [\A u \in Users :
            Exists(u) /\ user[u].verified /\ user'[u] # NoUser => user'[u].verified]_vars
  BY VerifiedStays
<1>2. Init => StickInv
  BY IdleGood DEF Init, StickInv
<1>3. Spec => [](TypeInv /\ StickInv)
  BY <1>2, InitTypes, NextTypes, NextSticks, PTL DEF Spec
<1> QED BY <1>1, <1>3, PTL DEF Spec, VerificationSticks

(***************************************************************************)
(* The count of wrong passwords                                            *)
(***************************************************************************)
Counts(row, n) == row.attempts = n /\ (row.locked => n >= MaxAttempts)

\* Where no logins overlapped there is one login at most, and it has read the count.
CountInv ==
    /\ \A u \in Users : Exists(u) /\ u \notin overlapped => Counts(user[u], wrong[u])
    /\ \A c \in Calls :
         call[c].pc = "login_save" /\ call[c].user \notin overlapped
            => Counts(call[c].row, wrong[call[c].user])
    /\ \A c, d \in Calls :
         /\ call[c].pc = "login_save" /\ call[d].pc = "login_save"
         /\ call[c].user = call[d].user /\ c # d
         => call[c].user \in overlapped

LEMMA OverlappedGrows == TypeInv /\ [Next]_vars => overlapped \subseteq overlapped'
<1> SUFFICES ASSUME TypeInv, [Next]_vars PROVE overlapped \subseteq overlapped'
  OBVIOUS
<1>1. ASSUME NEW c \in Calls, Begins(c) PROVE overlapped \subseteq overlapped'
  BY <1>1 DEF Begins, Register, LoginCheck, ResendCheck, ChangePassword, AdminPassword,
     DeleteAdminUser, RefreshCheck, LogoutCheck, VerifyCheck, ResetCheck, History
<1>2. ASSUME NEW c \in Calls, Continues(c) PROVE overlapped \subseteq overlapped'
  BY <1>2 DEF Continues, RegisterMail, LoginFails, LoginSave, LoginIssue, Issue, Rotate,
     LogoutSave, Refused, VerifyMark, MarkUsed, VerifyUser, ResendMark, ResendIssue,
     ResetUser, ResetMark, ResetRevoke, ChangeUser, ChangeRevoke, AdminPasswordWrite,
     DeleteRow, History
<1>3. ASSUME \/ UNCHANGED vars \/ Restart
             \/ \E u \in Users : \/ CreateAdminUser(u) \/ LogoutAll(u) \/ ForgotPassword(u)
                                 \/ LockExpires(u)
                                 \/ \E active \in BOOLEAN : AdminActivate(u, active)
             \/ \E t \in Tokens : SessionExpires(t)
             \/ \E k \in Mails : MailExpires(k)
      PROVE  overlapped \subseteq overlapped'
  BY <1>3 DEF vars, Restart, CreateAdminUser, LogoutAll, ForgotPassword, LockExpires,
     AdminActivate, SessionExpires, MailExpires, History
<1> QED BY <1>1, <1>2, <1>3 DEF Next

\* A slot at login_save was there before, with the same row, or has just read it.
LEMMA LoginSlots ==
    ASSUME TypeInv, [Next]_vars, NEW c \in Calls, call'[c].pc = "login_save"
    PROVE  \/ Kept(call[c], call'[c])
           \/ LoginCheck(c, call'[c].user) /\ call'[c].user \in Users
<1>1. SessionSlot(c)
  BY SessionSlots DEF SessionSteps
<1>2. call[c] \in GoodCall
  BY DEF TypeInv
<1>3. ~\E t \in Tokens : RefreshCheck(c, t)
  BY RefreshBegins
<1>4. ~LoginSave(c) /\ ~(SaveRevoked(c, "refresh_revoke") /\ Goto(c, "refresh_issue"))
  BY <1>2 DEF LoginSave, Goto, TypeInv, GoodCall, Call
<1> QED BY <1>1, <1>3, <1>4, LoginBegins DEF SessionSlot

\* Of the logins of an account that never overlapped, one is in progress at most.
LEMMA OneLogin ==
    ASSUME TypeInv, CountInv, [Next]_vars, NEW c \in Calls, NEW d \in Calls,
           call'[c].pc = "login_save", call'[d].pc = "login_save",
           call'[c].user = call'[d].user, c # d
    PROVE  call'[c].user \in overlapped'
<1>1. ASSUME NEW e \in Calls, NEW f \in Calls, e # f, NEW u \in Users, LoginCheck(e, u),
             call'[f].pc = "login_save", call'[f].user = u
      PROVE  u \in overlapped'
  <2>1. call[f].pc = "login_save" /\ call[f].user = u
    BY <1>1, LoginBegins
  <2> QED BY <1>1, <2>1 DEF LoginCheck
<1>2. CASE Kept(call[c], call'[c]) /\ Kept(call[d], call'[d])
  BY <1>2, OverlappedGrows DEF Kept, CountInv
<1>3. CASE LoginCheck(c, call'[c].user) /\ call'[c].user \in Users
  BY <1>1, <1>3
<1>4. CASE LoginCheck(d, call'[d].user) /\ call'[d].user \in Users
  BY <1>1, <1>4
<1> QED BY <1>2, <1>3, <1>4, LoginSlots

LEMMA NextCounts == TypeInv /\ CountInv /\ [Next]_vars => CountInv'
<1> SUFFICES ASSUME TypeInv, CountInv, [Next]_vars PROVE CountInv'
  OBVIOUS
<1>1. ASSUME NEW u \in Users, NEW c \in Calls, call[c].user = u, u \notin overlapped',
             LoginFails(c) \/ LoginSave(c)
      PROVE  Counts(user'[u], wrong'[u])
  <2>1. call[c].row \in User /\ call[c].pc = "login_save" /\ u \notin overlapped
        /\ wrong[u] \in Nat
    BY <1>1, OverlappedGrows DEF LoginFails, LoginSave, At, TypeInv, GoodCall, TypeOK
  <2>2. call[c].row.attempts = wrong[u]
    BY <1>1, <2>1 DEF CountInv, Counts
  <2>3. CASE LoginFails(c)
    <3>1. user'[u] = Failed(call[c].row) /\ wrong'[u] = wrong[u] + 1
      BY <1>1, <2>1, <2>3 DEF LoginFails, TypeInv, TypeOK
    <3> QED BY <2>1, <2>2, <3>1 DEF Failed, Counts, User
  <2>4. CASE LoginSave(c)
    <3>1. user'[u] = Cleared(call[c].row) /\ wrong'[u] = 0
      BY <1>1, <2>4 DEF LoginSave, TypeInv, TypeOK
    <3> QED BY <2>1, <3>1 DEF Cleared, Counts, User
  <2> QED BY <1>1, <2>3, <2>4
<1>2. ASSUME NEW u \in Users, Exists(u)', u \notin overlapped'
      PROVE  Counts(user'[u], wrong'[u])
  <2>1. Exists(u) => Counts(user[u], wrong[u])
    BY <1>2, OverlappedGrows DEF CountInv
  <2>2. ~\E c \in Calls : DeleteRow(c) /\ call[c].user = u
    BY <1>2 DEF DeleteRow, Exists, TypeInv, TypeOK
  <2> QED BY <1>1, <1>2, <2>1, <2>2, AccountSteps DEF AccountStep, Exists, Counts, Edited
<1>3. ASSUME NEW c \in Calls, NEW u, u = call'[c].user,
             call'[c].pc = "login_save", u \notin overlapped'
      PROVE  Counts(call'[c].row, wrong'[u])
  <2>1. CASE LoginCheck(c, u) /\ u \in Users
    <3>1. call'[c].row = user[u] /\ Exists(u) /\ UNCHANGED wrong
      BY <2>1, LoginBegins DEF LoginCheck, MayLogin
    <3> QED BY <1>3, <2>1, <3>1, OverlappedGrows DEF CountInv
  <2>2. CASE Kept(call[c], call'[c])
    <3>1. /\ call[c].pc = "login_save" /\ call[c].user = u /\ u \in Users
          /\ u \notin overlapped /\ call'[c].row = call[c].row
      BY <1>3, <2>2, OverlappedGrows DEF Kept, TypeInv, GoodCall
    <3>2. Counts(call'[c].row, wrong[u])
      BY <3>1 DEF CountInv
    <3>3. ASSUME NEW d \in Calls, call[d].user = u, LoginFails(d) \/ LoginSave(d)
          PROVE  FALSE
      <4>1. call[d].pc = "login_save" /\ call'[d].pc # "login_save"
        BY <3>3, IdleGood DEF LoginFails, LoginSave, At, Done, Goto, TypeInv, GoodCall, Call
      <4> QED BY <1>3, <3>1, <3>3, <4>1 DEF CountInv
    <3> QED BY <1>3, <3>1, <3>2, <3>3, AccountSteps DEF AccountStep, SessionSteps
  <2> QED BY <1>3, <2>1, <2>2, LoginSlots
<1> QED BY <1>2, <1>3, OneLogin DEF CountInv

\* Where no two logins of an account have overlapped the count is of the wrong passwords
\* since the last right one, and a lock follows MaxAttempts of them, whatever changes of
\* the account run beside the logins.
THEOREM FailuresAreCounted == Spec => []CountIsExact
<1>1. Init => CountInv
  BY IdleGood DEF Init, CountInv, Exists
<1>2. Spec => [](TypeInv /\ CountInv)
  BY <1>1, InitTypes, NextTypes, NextCounts, PTL DEF Spec
<1>3. CountInv => CountIsExact
  BY DEF CountInv, Counts, CountIsExact
<1> QED BY <1>2, <1>3, PTL

(***************************************************************************)
(* A change of the password ends the sessions of the old one               *)
(***************************************************************************)
LateFrom(u) ==
    /\ \A t \in Tokens : Live(t) /\ refresh[t].user = u => refresh[t].late
    /\ \A c \in Calls : call[c].pc \in SessionSteps /\ call[c].user = u => call[c].late

\* A session of the old password is closed, or late, or a change is still to end it; where
\* an administrator has ended the sessions, what has opened since is late.
PassInv ==
    /\ \A t \in Tokens : Live(t) /\ refresh[t].pre
                            => refresh[t].late \/ Changing(refresh[t].user)
    /\ \A c \in Calls : call[c].pc \in SessionSteps /\ call[c].pre => call[c].late
    /\ \A c \in Calls : call[c].pc = "admin_user" => LateFrom(call[c].user)

\* The sessions of an account that is deleted go with it.
OwnedInv == \A t \in Tokens : Live(t) => Exists(refresh[t].user)

\* What a live row of the next state is.
LiveRow(t) ==
    \/ Live(t) /\ refresh'[t] = refresh[t]
    \/ /\ Live(t) /\ refresh'[t] = [refresh[t] EXCEPT !.pre = TRUE]
       /\ \E c \in Calls : /\ call[c].user = refresh[t].user
                           /\ ResetUser(c) \/ ChangeUser(c) \/ AdminPasswordWrite(c)
    \/ \E c \in Calls :
          /\ Exists(call[c].user) /\ UNCHANGED user
          /\ call[c].pc \in SessionSteps
          /\ refresh'[t].user = call[c].user
          /\ refresh'[t].pre = call[c].pre /\ refresh'[t].late = call[c].late

LEMMA LiveRows ==
    ASSUME TypeInv, [Next]_vars, NEW t \in Tokens, Live(t)' PROVE LiveRow(t)
<1>0. refresh[t] \in RefreshToken \cup {NoToken, Deleted}
  BY DEF TypeInv, TypeOK
<1>1. ASSUME NEW c \in Calls, NEW parent, Issue(c, parent), call[c].pc \in SessionSteps
      PROVE  LiveRow(t)
  <2>1. PICK n \in Tokens :
           /\ refresh[n] = NoToken
           /\ refresh' = [refresh EXCEPT ![n] =
                 [user |-> call[c].user, revoked |-> FALSE, parent |-> parent,
                  pre |-> call[c].pre, late |-> call[c].late]]
    BY <1>1 DEF Issue
  <2>2. CASE t = n
    <3>1. refresh'[t] = [user |-> call[c].user, revoked |-> FALSE, parent |-> parent,
                         pre |-> call[c].pre, late |-> call[c].late]
      BY <2>1, <2>2 DEF TypeInv, TypeOK
    <3> QED BY <1>1, <3>1 DEF Issue, LiveRow
  <2>3. CASE t # n
    <3>1. refresh'[t] = refresh[t]
      BY <2>1, <2>3 DEF TypeInv, TypeOK
    <3> QED BY <3>1 DEF LiveRow, Live, IsRow
  <2> QED BY <2>2, <2>3
<1>2. ASSUME NEW u, refresh' = Revoked(u) PROVE LiveRow(t)
  <2>1. CASE IsRow(t) /\ refresh[t].user = u
    <3>1. refresh'[t] = Close(refresh[t])
      BY <1>2, <2>1 DEF Revoked
    <3> QED BY <1>0, <2>1, <3>1, CloseIsToken DEF Live, IsRow
  <2>2. CASE ~(IsRow(t) /\ refresh[t].user = u)
    <3>1. refresh'[t] = refresh[t]
      BY <1>2, <2>2 DEF Revoked
    <3> QED BY <3>1 DEF LiveRow, Live, IsRow
  <2> QED BY <2>1, <2>2
<1>3. ASSUME NEW c \in Calls, ResetUser(c) \/ ChangeUser(c) \/ AdminPasswordWrite(c)
      PROVE  LiveRow(t)
  <2>1. refresh' = Stale(call[c].user)
    BY <1>3 DEF ResetUser, ChangeUser, AdminPasswordWrite, WritePassword, Stale
  <2>2. CASE Live(t) /\ refresh[t].user = call[c].user
    <3>1. refresh'[t] = [refresh[t] EXCEPT !.pre = TRUE]
      BY <2>1, <2>2 DEF Stale
    <3> QED BY <1>3, <2>2, <3>1 DEF LiveRow
  <2>3. CASE ~(Live(t) /\ refresh[t].user = call[c].user)
    <3>1. refresh'[t] = refresh[t]
      BY <2>1, <2>3 DEF Stale
    <3> QED BY <3>1 DEF LiveRow, Live, IsRow
  <2> QED BY <2>2, <2>3
<1>4. ASSUME NEW c \in Calls, NEW pc \in TokenSteps, SaveRevoked(c, pc) PROVE LiveRow(t)
  <2>1. t # call[c].token
    BY <1>4, ClosedByCall DEF Live
  <2>2. refresh'[t] = refresh[t]
    BY <1>4, <2>1 DEF SaveRevoked, TypeInv, TypeOK
  <2> QED BY <2>2 DEF LiveRow, Live, IsRow
<1>5. ASSUME NEW c \in Calls, DeleteRow(c) PROVE LiveRow(t)
  <2>1. refresh'[t] = Deleted \/ refresh'[t] = refresh[t]
    BY <1>5 DEF DeleteRow
  <2> QED BY <2>1 DEF LiveRow, Live, IsRow
<1>6. ASSUME NEW n \in Tokens, SessionExpires(n) PROVE LiveRow(t)
  <2>1. CASE t = n
    <3>1. refresh'[t] = Close(refresh[t]) /\ refresh[t] \in RefreshToken
      BY <1>0, <1>6, <2>1 DEF SessionExpires, Live, IsRow, TypeInv, TypeOK
    <3> QED BY <3>1, CloseIsToken DEF Live
  <2>2. CASE t # n
    <3>1. refresh'[t] = refresh[t]
      BY <1>6, <2>2 DEF SessionExpires, TypeInv, TypeOK
    <3> QED BY <3>1 DEF LiveRow, Live, IsRow
  <2> QED BY <2>1, <2>2
<1>7. ASSUME UNCHANGED refresh PROVE LiveRow(t)
  BY <1>7 DEF LiveRow, Live, IsRow
<1>8. ASSUME NEW c \in Calls, Begins(c) PROVE LiveRow(t)
  BY <1>2, <1>7, <1>8 DEF Begins, Register, LoginCheck, ResendCheck, ChangePassword,
     AdminPassword, DeleteAdminUser, RefreshCheck, LogoutCheck, VerifyCheck, ResetCheck
<1>9. ASSUME NEW c \in Calls, Continues(c) PROVE LiveRow(t)
  <2>1. CASE LoginIssue(c) \/ Rotate(c) \/ LogoutSave(c)
    BY <1>1, <1>4, <2>1 DEF LoginIssue, Rotate, LogoutSave, At, SessionSteps, TokenSteps
  <2>2. CASE ResetRevoke(c) \/ ChangeRevoke(c)
    BY <1>2, <2>2 DEF ResetRevoke, ChangeRevoke
  <2>3. CASE \/ RegisterMail(c) \/ LoginFails(c) \/ LoginSave(c) \/ Refused(c)
             \/ VerifyMark(c) \/ VerifyUser(c) \/ ResendMark(c) \/ ResendIssue(c)
             \/ ResetMark(c)
    BY <1>7, <2>3 DEF RegisterMail, LoginFails, LoginSave, Refused, VerifyMark, MarkUsed,
       VerifyUser, ResendMark, ResendIssue, ResetMark
  <2> QED BY <1>9, <1>3, <1>5, <2>1, <2>2, <2>3 DEF Continues
<1>10. ASSUME NEW u \in Users,
              \/ CreateAdminUser(u) \/ LogoutAll(u) \/ ForgotPassword(u) \/ LockExpires(u)
              \/ \E active \in BOOLEAN : AdminActivate(u, active)
       PROVE  LiveRow(t)
  BY <1>2, <1>7, <1>10 DEF CreateAdminUser, LogoutAll, ForgotPassword, LockExpires,
     AdminActivate
<1>11. ASSUME UNCHANGED vars \/ Restart \/ \E k \in Mails : MailExpires(k) PROVE LiveRow(t)
  BY <1>7, <1>11 DEF vars, Restart, MailExpires
<1> QED BY <1>6, <1>8, <1>9, <1>10, <1>11 DEF Next

LEMMA OnlyDeleteRemoves ==
    ASSUME TypeInv, [Next]_vars, NEW u \in Users, Exists(u), user'[u] = NoUser
    PROVE  \E c \in Calls : DeleteRow(c) /\ call[c].user = u
<1>1. ASSUME NEW c \in Calls, call[c].user = u, LoginFails(c) \/ LoginSave(c) PROVE FALSE
  <2>1. call[c].row \in User
    BY <1>1 DEF LoginFails, LoginSave, At, TypeInv, GoodCall
  <2>2. Failed(call[c].row) \in User /\ Cleared(call[c].row) \in User
    <3>1. PICK p \in Passwords : p = call[c].row.password
      BY <2>1 DEF User
    <3> QED BY <2>1, <3>1, RowsOfAccount
  <2> QED BY <1>1, <2>2, NoRowAssumption DEF LoginFails, LoginSave, TypeInv, TypeOK
<1> QED BY <1>1, AccountSteps, NoRowAssumption DEF AccountStep, Exists, Edited

\* An account goes away only when its row is deleted, and its sessions with it.
LEMMA NextOwned == TypeInv /\ OwnedInv /\ [Next]_vars => OwnedInv'
<1> SUFFICES ASSUME TypeInv, OwnedInv, [Next]_vars, NEW t \in Tokens, Live(t)'
             PROVE  user'[refresh'[t].user] # NoUser
  BY DEF OwnedInv, Exists
<1>1. CASE \E c \in Calls : /\ Exists(call[c].user) /\ UNCHANGED user
                            /\ refresh'[t].user = call[c].user
  BY <1>1 DEF Exists
<1>2. CASE Live(t) /\ refresh'[t].user = refresh[t].user
  <2> DEFINE u == refresh[t].user
  <2>1. u \in Users /\ Exists(u)
    BY <1>2 DEF OwnedInv, Live, IsRow, TypeInv, TypeOK, RefreshToken
  <2>2. CASE user'[u] = NoUser
    <3>1. PICK c \in Calls : DeleteRow(c) /\ call[c].user = u
      BY <2>1, <2>2, OnlyDeleteRemoves
    <3>2. refresh'[t] = Deleted
      BY <1>2, <3>1 DEF DeleteRow, Live
    <3> QED BY <3>2 DEF Live, IsRow
  <2> QED BY <1>2, <2>2
<1>3. Live(t) => refresh[t] \in RefreshToken
  BY DEF Live, IsRow, TypeInv, TypeOK
<1>4. Live(t) => [refresh[t] EXCEPT !.pre = TRUE].user = refresh[t].user
  BY <1>3 DEF RefreshToken
<1> QED BY <1>1, <1>2, <1>4, LiveRows DEF LiveRow

\* How a call leaves the steps between the password and the sessions.
LEMMA ChangeSlots ==
    ASSUME TypeInv, [Next]_vars, ~Restart, NEW c \in Calls, call[c].pc \in ChangeSteps
    PROVE  \/ call'[c].pc \in ChangeSteps /\ call'[c].user = call[c].user
           \/ ~Exists(call[c].user)
           \/ ResetRevoke(c) \/ ChangeRevoke(c) \/ AdminPasswordWrite(c)
<1> DEFINE Stays == call'[c].pc \in ChangeSteps /\ call'[c].user = call[c].user
           Ends == \/ ~Exists(call[c].user)
                   \/ ResetRevoke(c) \/ ChangeRevoke(c) \/ AdminPasswordWrite(c)
<1>0. call[c] \in GoodCall /\ call[c].pc # "idle" /\ call[c].pc \notin SessionSteps
  BY DEF TypeInv, ChangeSteps, SessionSteps
<1>1. ASSUME call'[c] = call[c] PROVE Stays
  BY <1>1
<1>2. ASSUME NEW u \in Users, CreateAdminUser(u) \/ \E d \in Calls : Register(d, u)
      PROVE  Stays \/ Ends
  <2>1. ~Exists(u)
    BY <1>2 DEF CreateAdminUser, Register
  <2>2. call[c].user # u => call'[c] = call[c]
    BY <1>0, <1>2 DEF CreateAdminUser, Register, At, Stranded
  <2> QED BY <1>1, <2>1, <2>2
<1>3. ASSUME NEW d \in Calls, Begins(d), ~\E u \in Users : Register(d, u)
      PROVE  Stays
  <2>1. ASSUME NEW new, Begin(d, new) PROVE Stays
    BY <1>0, <2>1 DEF Begin, At, TypeInv
  <2>2. ASSUME NEW u \in Users, AdminPassword(d, u) PROVE Stays
    <3>1. d # c
      BY <1>0, <2>2 DEF AdminPassword, At
    <3> QED BY <1>0, <1>1, <2>2, <3>1 DEF AdminPassword, Overtake
  <2>3. ASSUME NEW u \in Users,
               \/ LoginCheck(d, u) \/ ResendCheck(d, u) \/ ChangePassword(d, u)
               \/ DeleteAdminUser(d, u)
        PROVE  Stays
    BY <2>1, <2>3 DEF LoginCheck, ResendCheck, ChangePassword, DeleteAdminUser
  <2>4. ASSUME NEW t \in Tokens, RefreshCheck(d, t) \/ LogoutCheck(d, t) PROVE Stays
    BY <2>1, <2>4 DEF RefreshCheck, LogoutCheck
  <2>5. ASSUME NEW k \in Mails, VerifyCheck(d, k) \/ ResetCheck(d, k) PROVE Stays
    BY <2>1, <2>5 DEF VerifyCheck, ResetCheck
  <2> HIDE DEF Stays
  <2> QED BY <1>3, <2>2, <2>3, <2>4, <2>5 DEF Begins
<1>4. ASSUME NEW d \in Calls, d # c, Done(d) \/ \E pc : Goto(d, pc) PROVE Stays
  BY <1>4 DEF Done, Goto, TypeInv
<1>5. ASSUME NEW d \in Calls, ResetUser(d) \/ ChangeUser(d) \/ AdminPasswordWrite(d)
      PROVE  Stays \/ Ends
  <2>1. PICK new \in GoodCall :
          WritePassword(call[d].user, call[d].password, [call EXCEPT ![d] = new])
    BY <1>5, WritingSlot
  <2>2. CASE d # c
    <3> DEFINE calls == [call EXCEPT ![d] = new]
    <3>1. calls[c] = call[c]
      BY <2>2 DEF TypeInv
    <3>2. call'[c] = IF calls[c].user = call[d].user /\ calls[c].pc \in SessionSteps
                     THEN [calls[c] EXCEPT !.pre = TRUE, !.late = TRUE] ELSE calls[c]
      BY <2>1 DEF WritePassword
    <3> HIDE DEF calls
    <3> QED BY <1>0, <1>1, <3>1, <3>2
  <2>3. CASE d = c
    BY <1>5, <2>3 DEF ResetUser, ChangeUser, At, ChangeSteps
  <2> QED BY <2>2, <2>3
<1>6. ASSUME NEW d \in Calls, Continues(d) PROVE Stays \/ Ends
  <2>1. \/ Done(d) \/ (\E pc : Goto(d, pc))
        \/ ResetUser(d) \/ ChangeUser(d) \/ AdminPasswordWrite(d)
    BY <1>6 DEF Continues, RegisterMail, LoginFails, LoginSave, LoginIssue, Rotate,
       LogoutSave, Refused, VerifyMark, VerifyUser, ResendMark, ResendIssue, ResetMark,
       ResetRevoke, ChangeRevoke, DeleteRow
  <2>2. CASE d = c
    <3>1. ResetMark(c) => Stays
      BY <1>0 DEF ResetMark, Goto, TypeInv, GoodCall, Call, ChangeSteps
    <3>2. Refused(c) => Ends
      BY DEF Refused
    <3> QED BY <1>0, <1>5, <1>6, <2>2, <3>1, <3>2 DEF Continues, RegisterMail, LoginFails,
            LoginSave, LoginIssue, Rotate, SaveRevoked, LogoutSave, VerifyMark, MarkUsed,
            VerifyUser, ResendMark, ResendIssue, DeleteRow, At, ChangeSteps
  <2>3. CASE d # c
    BY <1>4, <1>5, <2>1, <2>3
  <2> QED BY <2>2, <2>3
<1>7. ASSUME NEW u \in Users,
             \/ LogoutAll(u) \/ ForgotPassword(u) \/ LockExpires(u)
             \/ \E active \in BOOLEAN : AdminActivate(u, active)
      PROVE  Stays
  BY <1>1, <1>7 DEF LogoutAll, ForgotPassword, LockExpires, AdminActivate
<1>8. ASSUME \/ UNCHANGED vars \/ \E t \in Tokens : SessionExpires(t)
             \/ \E k \in Mails : MailExpires(k)
      PROVE  Stays
  BY <1>1, <1>8 DEF vars, SessionExpires, MailExpires
<1> HIDE DEF Stays, Ends
<1>9. Stays \/ Ends
  BY <1>2, <1>3, <1>6, <1>7, <1>8 DEF Next
<1> QED BY <1>9 DEF Stays, Ends

\* An administrator's change was there before, or begins now.
LEMMA AdminSlots ==
    ASSUME TypeInv, [Next]_vars, NEW c \in Calls, call'[c].pc = "admin_user"
    PROVE  \/ call[c].pc = "admin_user" /\ call'[c].user = call[c].user
           \/ AdminPassword(c, call'[c].user)
<1> DEFINE Was == call[c].pc = "admin_user" /\ call'[c].user = call[c].user
           Starts == AdminPassword(c, call'[c].user)
<1>0. call[c] \in GoodCall /\ Idle.pc = "idle"
  BY IdleGood DEF TypeInv
<1>1. ASSUME call'[c] = call[c] PROVE Was
  BY <1>1
<1>2. ASSUME NEW u \in Users, CreateAdminUser(u) \/ \E d \in Calls : Register(d, u)
      PROVE  Was
  BY <1>0, <1>2 DEF CreateAdminUser, Register, Stranded, Idle
<1>3. ASSUME NEW d \in Calls, NEW new, Begin(d, new), new.pc # "admin_user" PROVE Was
  BY <1>3 DEF Begin, TypeInv
<1>4. ASSUME NEW d \in Calls, NEW u \in Users, AdminPassword(d, u) PROVE Was \/ Starts
  <2>1. CASE d = c
    <3>1. call'[c].user = u
      BY <1>4, <2>1 DEF AdminPassword, Overtake, Idle
    <3> QED BY <1>4, <2>1, <3>1
  <2>2. CASE d # c
    <3>1. call'[c] = call[c] \/ call'[c] = [call[c] EXCEPT !.late = TRUE]
      BY <1>4, <2>2 DEF AdminPassword, Overtake
    <3> QED BY <1>0, <3>1, LateGood
  <2> QED BY <2>1, <2>2
<1>5. ASSUME NEW d \in Calls, Begins(d) PROVE Was \/ Starts
  <2>1. CASE \E u \in Users : \/ LoginCheck(d, u) \/ ResendCheck(d, u)
                              \/ ChangePassword(d, u) \/ DeleteAdminUser(d, u)
    BY <1>3, <2>1 DEF LoginCheck, ResendCheck, ChangePassword, DeleteAdminUser, Idle
  <2>2. CASE \E t \in Tokens : RefreshCheck(d, t) \/ LogoutCheck(d, t)
    BY <1>3, <2>2 DEF RefreshCheck, LogoutCheck, Idle
  <2>3. CASE \E k \in Mails : VerifyCheck(d, k) \/ ResetCheck(d, k)
    BY <1>3, <2>3 DEF VerifyCheck, ResetCheck, Idle
  <2> HIDE DEF Was, Starts
  <2> QED BY <1>2, <1>4, <1>5, <2>1, <2>2, <2>3 DEF Begins
<1>6. ASSUME NEW d \in Calls, Done(d) \/ \E pc : Goto(d, pc) /\ pc # "admin_user"
      PROVE  Was
  <2>1. CASE Done(d)
    BY <1>0, <1>1, <2>1 DEF Done, TypeInv
  <2>2. ASSUME NEW pc, Goto(d, pc), pc # "admin_user" PROVE Was
    <3>1. d # c => call'[c] = call[c]
      BY <2>2 DEF Goto, TypeInv
    <3>2. d = c => call'[c].pc = pc
      BY <1>0, <2>2 DEF Goto, TypeInv, GoodCall, Call
    <3> QED BY <1>1, <2>2, <3>1, <3>2
  <2> QED BY <1>6, <2>1, <2>2
<1>7. ASSUME NEW d \in Calls, ResetUser(d) \/ ChangeUser(d) \/ AdminPasswordWrite(d)
      PROVE  Was
  <2>1. PICK new \in GoodCall :
          /\ new.pc \in {"idle", "reset_mark", "change_revoke"}
          /\ WritePassword(call[d].user, call[d].password, [call EXCEPT ![d] = new])
    BY <1>7, WritingSlot
  <2> DEFINE calls == [call EXCEPT ![d] = new]
  <2>2. call'[c] = calls[c] \/ call'[c] = [calls[c] EXCEPT !.pre = TRUE, !.late = TRUE]
    BY <2>1 DEF WritePassword
  <2>3. calls[c] \in GoodCall /\ (c = d => calls[c] = new) /\ (c # d => calls[c] = call[c])
    BY DEF TypeInv
  <2> HIDE DEF calls
  <2>4. call'[c].pc = calls[c].pc /\ call'[c].user = calls[c].user
    BY <2>2, <2>3, MarkedGood
  <2> QED BY <2>1, <2>3, <2>4
<1>8. ASSUME NEW d \in Calls, Continues(d) PROVE Was
  <2>1. \/ Done(d) \/ (\E pc : Goto(d, pc) /\ pc # "admin_user")
        \/ ResetUser(d) \/ ChangeUser(d) \/ AdminPasswordWrite(d)
    BY <1>8 DEF Continues, RegisterMail, LoginFails, LoginSave, LoginIssue, Rotate,
       LogoutSave, Refused, VerifyMark, VerifyUser, ResendMark, ResendIssue, ResetMark,
       ResetRevoke, ChangeRevoke, DeleteRow
  <2> QED BY <1>6, <1>7, <2>1
<1>9. ASSUME NEW u \in Users,
             \/ LogoutAll(u) \/ ForgotPassword(u) \/ LockExpires(u)
             \/ \E active \in BOOLEAN : AdminActivate(u, active)
      PROVE  Was
  BY <1>1, <1>9 DEF LogoutAll, ForgotPassword, LockExpires, AdminActivate
<1>10. ASSUME \/ UNCHANGED vars \/ Restart \/ \E t \in Tokens : SessionExpires(t)
              \/ \E k \in Mails : MailExpires(k)
       PROVE  Was
  BY <1>0, <1>1, <1>10 DEF vars, Restart, SessionExpires, MailExpires
<1> HIDE DEF Was, Starts
<1>11. Was \/ Starts
  BY <1>2, <1>5, <1>8, <1>9, <1>10 DEF Next
<1> QED BY <1>11 DEF Was, Starts

\* A login or a refresh of u, seen after the step, that was late before it or begins while
\* the password of u changes is late.
LEMMA LateCalls ==
    ASSUME TypeInv, [Next]_vars, NEW d \in Calls, call'[d].pc \in SessionSteps,
           Changing(call'[d].user),
           call[d].pc \in SessionSteps /\ call[d].user = call'[d].user => call[d].late
    PROVE  call'[d].late
<1>1. SessionSlot(d) /\ call[d] \in GoodCall
  BY SessionSlots DEF TypeInv
<1>2. CASE Kept(call[d], call'[d])
  BY <1>2 DEF Kept
<1>3. CASE (\E u \in Users : LoginCheck(d, u)) \/ \E t \in Tokens : RefreshCheck(d, t)
  BY <1>3, LoginBegins, RefreshBegins
<1>4. CASE LoginSave(d) \/ (SaveRevoked(d, "refresh_revoke") /\ Goto(d, "refresh_issue"))
  <2>1. call[d].pc \in SessionSteps
    BY <1>4 DEF LoginSave, SaveRevoked, At, SessionSteps
  <2>2. call'[d].user = call[d].user /\ call'[d].late = call[d].late
    BY <1>1, <1>4 DEF LoginSave, Goto, TypeInv, GoodCall, Call
  <2> QED BY <2>1, <2>2
<1> QED BY <1>1, <1>2, <1>3, <1>4 DEF SessionSlot

\* What the state after the step says of an account.
ChangingNext(u) == \E c \in Calls : call'[c].pc \in ChangeSteps /\ call'[c].user = u
LateNext(u) ==
    /\ \A t \in Tokens : Live(t)' /\ refresh'[t].user = u => refresh'[t].late
    /\ \A c \in Calls : call'[c].pc \in SessionSteps /\ call'[c].user = u => call'[c].late

LEMMA NextPass ==
    ASSUME TypeInv, OwnedInv, PassInv, [Next]_vars, ~Restart
    PROVE  PassInv'
<1>0. \A t \in Tokens : Live(t) => refresh[t] \in RefreshToken
  BY DEF Live, IsRow, TypeInv, TypeOK
<1>1. ASSUME NEW t \in Tokens, Live(t)', refresh'[t].pre
      PROVE  refresh'[t].late \/ ChangingNext(refresh'[t].user)
  <2>1. CASE Live(t) /\ refresh'[t] = refresh[t]
    <3> DEFINE u == refresh[t].user
    <3>1. CASE refresh[t].late
      BY <2>1, <3>1
    <3>2. ASSUME NEW c \in Calls, call[c].pc \in ChangeSteps, call[c].user = u
          PROVE  refresh'[t].late \/ ChangingNext(u)
      <4>1. CASE call'[c].pc \in ChangeSteps /\ call'[c].user = u
        BY <4>1 DEF ChangingNext
      <4>2. CASE ~Exists(u)
        BY <2>1, <4>2 DEF OwnedInv
      <4>3. CASE ResetRevoke(c) \/ ChangeRevoke(c)
        <5>1. refresh'[t] = Close(refresh[t])
          BY <2>1, <3>2, <4>3 DEF ResetRevoke, ChangeRevoke, Revoked, Live
        <5> QED BY <1>0, <1>1, <2>1, <5>1, CloseIsToken DEF Live
      <4>4. CASE AdminPasswordWrite(c)
        BY <2>1, <3>2, <4>4 DEF AdminPasswordWrite, At, PassInv, LateFrom
      <4> QED BY <3>2, <4>1, <4>2, <4>3, <4>4, ChangeSlots
    <3> QED BY <1>1, <2>1, <3>1, <3>2 DEF PassInv, Changing
  <2>2. ASSUME Live(t), refresh'[t] = [refresh[t] EXCEPT !.pre = TRUE],
               NEW c \in Calls, call[c].user = refresh[t].user,
               ResetUser(c) \/ ChangeUser(c) \/ AdminPasswordWrite(c)
        PROVE  refresh'[t].late \/ ChangingNext(refresh'[t].user)
    <3>1. refresh'[t].user = refresh[t].user /\ refresh'[t].late = refresh[t].late
      BY <1>0, <2>2 DEF RefreshToken
    <3>2. CASE AdminPasswordWrite(c)
      BY <2>2, <3>1, <3>2 DEF AdminPasswordWrite, At, PassInv, LateFrom
    <3>3. CASE ResetUser(c) \/ ChangeUser(c)
      <4> DEFINE new == IF ResetUser(c)
                        THEN [call[c] EXCEPT !.pc = "reset_mark", !.password = NoToken]
                        ELSE [call[c] EXCEPT !.pc = "change_revoke", !.password = NoToken]
      <4>1. WritePassword(call[c].user, call[c].password, [call EXCEPT ![c] = new])
        BY <3>3 DEF ResetUser, ChangeUser
      <4>2. new.pc \in {"reset_mark", "change_revoke"} /\ new.user = call[c].user
        BY DEF TypeInv, GoodCall, Call
      <4> HIDE DEF new
      <4>3. call'[c] = new
        BY <4>1, <4>2 DEF WritePassword, SessionSteps, TypeInv
      <4> QED BY <2>2, <3>1, <4>2, <4>3 DEF ChangingNext, ChangeSteps
    <3> QED BY <2>2, <3>2, <3>3
  <2>3. ASSUME NEW c \in Calls, call[c].pc \in SessionSteps,
               refresh'[t].pre = call[c].pre, refresh'[t].late = call[c].late
        PROVE  refresh'[t].late
    BY <1>1, <2>3 DEF PassInv
  <2> QED BY <1>1, <2>1, <2>2, <2>3, LiveRows DEF LiveRow
<1>2. ASSUME NEW c \in Calls, call'[c].pc \in SessionSteps, call'[c].pre
      PROVE  call'[c].late
  <2>1. SessionSlot(c) /\ call[c] \in GoodCall
    BY <1>2, SessionSlots DEF TypeInv
  <2>2. CASE Kept(call[c], call'[c])
    BY <1>2, <2>2 DEF Kept, PassInv
  <2>3. ASSUME NEW u \in Users, LoginCheck(c, u) PROVE FALSE
    BY <1>2, <2>3, LoginBegins
  <2>4. ASSUME NEW t \in Tokens, RefreshCheck(c, t) PROVE call'[c].late
    <3>1. Live(t)
      BY <2>4 DEF RefreshCheck
    <3> QED BY <1>2, <2>4, <3>1, RefreshBegins DEF PassInv
  <2>5. CASE LoginSave(c) \/ (SaveRevoked(c, "refresh_revoke") /\ Goto(c, "refresh_issue"))
    <3>1. call[c].pc \in SessionSteps
      BY <2>5 DEF LoginSave, SaveRevoked, At, SessionSteps
    <3>2. call'[c].pre = call[c].pre /\ call'[c].late = call[c].late
      BY <2>1, <2>5 DEF LoginSave, Goto, TypeInv, GoodCall, Call
    <3> QED BY <1>2, <3>1, <3>2 DEF PassInv
  <2> QED BY <2>1, <2>2, <2>3, <2>4, <2>5 DEF SessionSlot
<1>3. ASSUME NEW c \in Calls, NEW u, u = call'[c].user, call'[c].pc = "admin_user"
      PROVE  LateNext(u)
  <2>1. CASE AdminPassword(c, u)
    <3>1. refresh' = Revoked(u)
      BY <2>1 DEF AdminPassword
    <3>2. ASSUME NEW t \in Tokens, Live(t)', refresh'[t].user = u PROVE FALSE
      <4>1. LiveRow(t)
        BY <3>2, LiveRows
      <4>2. CASE IsRow(t) /\ refresh[t].user = u
        <5>1. refresh'[t] = Close(refresh[t]) /\ refresh[t] \in RefreshToken
          BY <3>1, <4>2 DEF Revoked, IsRow, TypeInv, TypeOK
        <5> QED BY <3>2, <5>1, CloseIsToken DEF Live
      <4>3. CASE ~(IsRow(t) /\ refresh[t].user = u)
        <5>1. refresh'[t] = refresh[t]
          BY <3>1, <4>3 DEF Revoked
        <5> QED BY <3>2, <4>3, <5>1 DEF Live, IsRow
      <4> QED BY <4>2, <4>3
    <3>3. ASSUME NEW d \in Calls, call'[d].pc \in SessionSteps, call'[d].user = u
          PROVE  call'[d].late
      <4>1. d # c
        BY <1>3, <3>3 DEF SessionSteps
      <4>2. call'[d] = IF call[d].user = u /\ call[d].pc \in SessionSteps
                       THEN [call[d] EXCEPT !.late = TRUE] ELSE call[d]
        BY <2>1, <4>1 DEF AdminPassword, Overtake
      <4>3. call[d] \in GoodCall
        BY DEF TypeInv
      <4> QED BY <3>3, <4>2, <4>3, LateGood
    <3> QED BY <3>2, <3>3 DEF LateNext
  <2>2. CASE call[c].pc = "admin_user" /\ u = call[c].user
    <3>1. LateFrom(u) /\ Changing(u)
      BY <2>2 DEF PassInv, Changing, ChangeSteps
    <3>2. ASSUME NEW t \in Tokens, Live(t)', refresh'[t].user = u PROVE refresh'[t].late
      <4>1. Live(t) => [refresh[t] EXCEPT !.pre = TRUE].user = refresh[t].user
                       /\ [refresh[t] EXCEPT !.pre = TRUE].late = refresh[t].late
        BY <1>0 DEF RefreshToken
      <4> QED BY <3>1, <3>2, <4>1, LiveRows DEF LiveRow, LateFrom
    <3>3. ASSUME NEW d \in Calls, call'[d].pc \in SessionSteps, call'[d].user = u
          PROVE  call'[d].late
      BY <3>1, <3>3, LateCalls DEF LateFrom
    <3> QED BY <3>2, <3>3 DEF LateNext
  <2> QED BY <1>3, <2>1, <2>2, AdminSlots
<1>4. (\A t \in Tokens : Live(t) /\ refresh[t].pre
          => refresh[t].late \/ Changing(refresh[t].user))'
  BY <1>1 DEF ChangingNext, Changing
<1>5. (\A c \in Calls : call[c].pc = "admin_user" => LateFrom(call[c].user))'
  BY <1>3 DEF LateNext, LateFrom
<1> QED BY <1>2, <1>4, <1>5 DEF PassInv

LEMMA RestartsStay == ASSUME TypeInv, [Next]_vars, ~Restart PROVE restarts' = restarts
<1>1. ASSUME NEW c \in Calls, Begins(c) PROVE restarts' = restarts
  BY <1>1 DEF Begins, Register, LoginCheck, ResendCheck, ChangePassword, AdminPassword,
     DeleteAdminUser, RefreshCheck, LogoutCheck, VerifyCheck, ResetCheck
<1>2. ASSUME NEW c \in Calls, Continues(c) PROVE restarts' = restarts
  BY <1>2 DEF Continues, RegisterMail, LoginFails, LoginSave, LoginIssue, Issue, Rotate,
     LogoutSave, Refused, VerifyMark, MarkUsed, VerifyUser, ResendMark, ResendIssue,
     ResetUser, ResetMark, ResetRevoke, ChangeUser, ChangeRevoke, AdminPasswordWrite,
     DeleteRow
<1>3. ASSUME \/ UNCHANGED vars
             \/ \E u \in Users : \/ CreateAdminUser(u) \/ LogoutAll(u) \/ ForgotPassword(u)
                                 \/ LockExpires(u)
                                 \/ \E active \in BOOLEAN : AdminActivate(u, active)
             \/ \E t \in Tokens : SessionExpires(t)
             \/ \E k \in Mails : MailExpires(k)
      PROVE  restarts' = restarts
  BY <1>3 DEF vars, CreateAdminUser, LogoutAll, ForgotPassword, LockExpires, AdminActivate,
     SessionExpires, MailExpires
<1> QED BY <1>1, <1>2, <1>3 DEF Next

\* Unless the service restarts in the middle, a change of the password, by its owner, by
\* mail or by an administrator, ends every session that began before it, but for those of
\* calls that overlapped it; whatever is registered, deleted or refreshed meanwhile.
THEOREM PasswordChangesEndSessions == Spec => []PasswordChangeEndsSessions
<1> DEFINE Inv == restarts = 0 => PassInv
<1>1. Init => Inv /\ OwnedInv
  BY IdleGood DEF Init, PassInv, OwnedInv, Live, IsRow, SessionSteps
<1>2. TypeInv /\ OwnedInv /\ Inv /\ [Next]_vars => Inv'
  <2> SUFFICES ASSUME TypeInv, OwnedInv, Inv, [Next]_vars, restarts' = 0 PROVE PassInv'
    OBVIOUS
  <2>1. ~Restart
    BY DEF Restart, TypeInv, TypeOK
  <2>2. restarts = 0
    BY <2>1, RestartsStay
  <2> QED BY <2>1, <2>2, NextPass
<1>3. Inv => PasswordChangeEndsSessions
  BY DEF PassInv, PasswordChangeEndsSessions
<1>4. Spec => [](TypeInv /\ OwnedInv /\ Inv)
  <2> HIDE DEF Inv
  <2> QED BY <1>1, <1>2, InitTypes, NextTypes, NextOwned, PTL DEF Spec
<1> HIDE DEF Inv
<1> QED BY <1>3, <1>4, PTL
=============================================================================
