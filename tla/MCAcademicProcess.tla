-------------------------- MODULE MCAcademicProcess -------------------------
(* Instances of AcademicProcess for TLC. *)
EXTENDS AcademicProcess, TLC

CONSTANTS a1, s1, s2

MCLimitTwo == [s \in Supervisors |-> 2]

\* No jurados: they touch neither the asesor nor the application.
MCNoList == {{}}

\* Bound of the runs with overlapping requests: no profile is saved, which
\* touches nothing but the counter.
NoProfile == \A r \in Requests : req[r].pc # "profile_save"

MCSymmetry == Permutations(Supervisors)
=============================================================================
