-------------------------- MODULE MCRpkiValidator --------------------------
(***************************************************************************)
(* Instances of RpkiValidator for TLC: three ROAs, bulk statements of two  *)
(* rows, and exports of three, two and one ROA (a full statement plus a    *)
(* partial one, exactly one full statement, one partial statement).        *)
(***************************************************************************)
EXTENDS RpkiValidator

CONSTANTS r1, r2, r3

MCRoas == {r1, r2, r3}

MCExports == {<<r1, r2, r3>>, <<r2, r3>>, <<r1>>}

=============================================================================
