------------------------ MODULE MCFailureProtocol ------------------------
(* TLC instances of FailureProtocol.  Of two operators, each either removes        *)
(* without a blocklist row or keeps with one, so that no flag of one call can pass  *)
(* for the other call's.  A single operator always keeps the torrent: the stall    *)
(* heal, the cycle and a cancel remove it.                                     *)
EXTENDS FailureProtocol, TLC

KeepChoice == {<<TRUE, FALSE>>}
OpposedChoices == {<<FALSE, TRUE>>, <<TRUE, FALSE>>}
Symmetry == Permutations(Operators)
=============================================================================
