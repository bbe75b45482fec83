---------------------------- MODULE MCPermissive ----------------------------
(* Instances of Permissive for TLC.                                        *)
EXTENDS Permissive, TLC

CONSTANTS d1, d2

OneDomain == {d1}
TwoDomains == {d1, d2}
Symmetric == Permutations(TwoDomains)

=============================================================================
