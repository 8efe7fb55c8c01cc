--------------------------- MODULE MCAsnStatsStore ---------------------------
(***************************************************************************)
(* Instances of AsnStatsStore for TLC: two ASNs, count vectors that       *)
(* differ in one column at a time, and a few cron runs.                    *)
(***************************************************************************)
EXTENDS AsnStatsStore, TLC

CONSTANTS a1, a2

MCAsns == {a1, a2}

\* ASNs are only compared for equality here.
MCSymmetry == Permutations(MCAsns)

V(tv4, tv6, ov4, ov6) ==
    [transit_v4_prefixes |-> tv4, transit_v6_prefixes |-> tv6,
     origin_v4_prefixes |-> ov4, origin_v6_prefixes |-> ov6]

\* transit_v4 3 <-> 4000 (a ratio beyond DECIMAL(8,5) either way), and
\* origin_v6 3 <-> 4 alone (4/3 rounded to 4 decimals: +-1.33330).
MCChoices == {V(3, 0, 1, 3), V(4000, 0, 1, 3), V(4000, 0, 1, 4)}

=============================================================================
