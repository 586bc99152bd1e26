CONSTANTS
    Users = {u1}
    Passwords = {p1, p2}
    Tokens = {t1, t2}
    Mails = {k1}
    Calls = {c1, c2}
    NoUser = NoUser
    NoToken = NoToken
    Deleted = Deleted
    MaxAttempts = 2
    MaxCount = 2
    MaxRestarts = 1
SPECIFICATION Spec
CHECK_DEADLOCK FALSE
INVARIANTS PasswordChangeEndsSessions OpenSessionHasNoSuccessor CountIsExact
PROPERTIES VerificationSticks
SYMMETRY Sym
