----------------------- MODULE MCSupervisorAssignment -----------------------
(* Instances of SupervisorAssignment for TLC. *)
EXTENDS SupervisorAssignment, TLC

CONSTANTS a1, a2, s1, s2, s3

\* Room for one student each: the second application may meet a full supervisor.
MCLimitOne == [s \in Supervisors |-> 1]

MCAnyList == SUBSET Supervisors
\* Bound: one application at a time has jurados; those of two do not meet.
OneJury ==
    Cardinality({a \in Applications : \E s \in Supervisors :
                    jurado[a][s] # "none" \/ juradoFinal[a][s] # "none"}) <= 1

MCSymmetry == Permutations(Applications) \cup Permutations(Supervisors \ Inactive)
=============================================================================
