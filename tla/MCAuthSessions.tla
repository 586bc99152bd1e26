--------------------------- MODULE MCAuthSessions ---------------------------
(***************************************************************************)
(* AuthSessions for TLC: passwords, tokens, mails and calls are            *)
(* interchangeable.                                                        *)
(***************************************************************************)
EXTENDS AuthSessions, TLC

Sym == Permutations(Passwords) \cup Permutations(Tokens)
         \cup Permutations(Mails) \cup Permutations(Calls)
=============================================================================
