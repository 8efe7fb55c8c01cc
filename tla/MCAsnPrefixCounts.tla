-------------------------- MODULE MCAsnPrefixCounts --------------------------
(***************************************************************************)
(* Instances of AsnPrefixCounts for TLC.  Each ASN plays a distinct role:  *)
(* origin only, transit only, both roles, v4 only, v6 only, no prefix at   *)
(* all; 23456 sits among them.                                             *)
(***************************************************************************)
EXTENDS AsnPrefixCounts

C(ov4, ov6, tv4, tv6) ==
    [origin_v4_prefixes |-> ov4, origin_v6_prefixes |-> ov6,
     transit_v4_prefixes |-> tv4, transit_v6_prefixes |-> tv6]

\* Nine eligible rows: four full batches of two (each slot is reused) and
\* a trailing partial batch.
MCAsnsFull == <<<<100>>, <<200>>, <<23456>>, <<300>>, <<400>>, <<500>>, <<600>>, <<700>>, <<800>>, <<900>>>>

MCCountsFull ==
    [a \in {100, 200, 23456, 300, 400, 500, 600, 700, 800, 900} |->
        CASE a = 100 -> C(3, 1, 0, 2)
          [] a = 200 -> C(0, 0, 0, 0)
          [] a = 300 -> C(0, 0, 5, 0)
          [] a = 400 -> C(2, 0, 1, 1)
          [] a = 500 -> C(0, 4, 0, 0)
          [] OTHER   -> C(1, 1, 1, 0)]

\* The end-to-end scenario of spec section 8.
MCAsnsSpec == <<<<100>>, <<200>>, <<23456>>, <<300>>>>

MCCountsSpec ==
    [a \in {100, 200, 23456, 300} |->
        CASE a = 100 -> C(3, 1, 0, 2)
          [] a = 300 -> C(0, 0, 5, 0)
          [] OTHER   -> C(0, 0, 0, 0)]

=============================================================================
