--------------------------- MODULE MCAnteproyecto ---------------------------
(***************************************************************************)
(* The instance of Anteproyecto that TLC checks.                           *)
(***************************************************************************)
EXTENDS Anteproyecto, TLC

\* The setting, smaller than its fallback so that the run stays small.
MCLimits == {1}

\* Bounds: two votes in the history, and one request at a time that is not the
\* student's or a jurado's.
FewVotes == Cardinality(history) <= 2

OneClerk ==
    Cardinality({r \in Requests :
        req[r].pc \in {"comment_save", "extend_save", "expire_save"}}) <= 1

MCSymmetry == Permutations(Jurados) \cup Permutations(Requests)
=============================================================================
