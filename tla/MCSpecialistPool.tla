-------------------------- MODULE MCSpecialistPool --------------------------
(***************************************************************************)
(* TLC instances of SpecialistPool.                                        *)
(***************************************************************************)
EXTENDS SpecialistPool

\* One unit that can be split twice, unevenly, and an empty one (no file
\* matched the leaf).
SizeTwoUnits == <<3, 0>>
KeysTwoUnits == <<"a1", "b1">>
=============================================================================
