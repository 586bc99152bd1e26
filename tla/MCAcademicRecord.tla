-------------------------- MODULE MCAcademicRecord --------------------------
(***************************************************************************)
(* The instance of AcademicRecord that TLC checks.                         *)
(***************************************************************************)
EXTENDS AcademicRecord

CONSTANTS d1, d2, f1, f2

\* One mandatory document of each kind, and one of each that is not.
MCMandatory == {d1, f1}
=============================================================================
