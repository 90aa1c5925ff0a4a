--------------------------- MODULE MCEuiccProfiles ---------------------------
(* TLC instances of EuiccProfiles; ICCIDs are interchangeable. *)
EXTENDS EuiccProfiles, TLC

IccidSymmetry == Permutations(Iccid)
=============================================================================
