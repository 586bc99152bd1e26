------------------------- MODULE MCProjectLifecycle -------------------------
(***************************************************************************)
(* ProjectLifecycle for TLC: students, documents and requests are          *)
(* interchangeable.                                                        *)
(***************************************************************************)
EXTENDS ProjectLifecycle, TLC

Sym == Permutations(Students) \cup Permutations(Documents) \cup Permutations(Requests)
=============================================================================
