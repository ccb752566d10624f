--------------------------- MODULE MCRegistration ---------------------------
(* Instance of Registration for TLC.                                         *)
EXTENDS Registration, TLC
CONSTANTS p1, p2, new, old
TwoProcs == {p1, p2}
TwoDirs  == {new, old}
Bitness  == (new :> {64, 32}) @@ (old :> {64})
EitherProc == Permutations(TwoProcs)
=============================================================================
