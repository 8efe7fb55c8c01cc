---------------------------- MODULE MCActiveAsns ----------------------------
(***************************************************************************)
(* Instances of ActiveAsns for TLC: three ASNs, compared only for equality.*)
(***************************************************************************)
EXTENDS ActiveAsns, TLC

CONSTANTS a1, a2, a3

MCAsns == {a1, a2, a3}

MCSymmetry == Permutations(MCAsns)

=============================================================================
