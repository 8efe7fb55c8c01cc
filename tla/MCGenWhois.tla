------------------------------ MODULE MCGenWhois ------------------------------
(***************************************************************************)
(* Instances of GenWhois for TLC.  64495 is the last public ASN before the *)
(* documentation range and ARIN names it; 64496 is reserved; ARIN refers 3 *)
(* to RIPE and 9 to APNIC, whose file names 9; ARIN has no record of 5.    *)
(* ARIN names 11 with an apostrophe in its record (an org name such as     *)
(* "People's ...").                                                        *)
(***************************************************************************)
EXTENDS GenWhois

CONSTANTS nPlain, nRipe, nApnic, notFound

MCNames == {nPlain, nRipe, nApnic}

MCArinName == (64495 :> nPlain) @@ (64496 :> nPlain) @@ (3 :> nRipe) @@ (9 :> nApnic)
                  @@ (5 :> notFound) @@ (11 :> nPlain)

MCStatsAsns == DOMAIN MCArinName

\* The ASNs of a whois walk with no ARIN misses.
MCStatsReferred == {64495, 3, 9}
MCArinReferred == [a \in MCStatsReferred |-> MCArinName[a]]

\* The ASNs of a whois walk over the apostrophe case alone.
MCStatsQuoted == {11}
MCArinQuoted == [a \in MCStatsQuoted |-> MCArinName[a]]

AutNum(d) == Attr("aut-num", <<"A", "S">> \o d)

\* A header comment, 9 with a name, address and remarks, and 7 without a name.
MCApnicFile ==
    << Comment, AutNum(<<"9">>), Attr("as-name", <<"N", "#", "x">>), Attr("descr", <<"D">>),
       Attr("remarks", <<"R">>), Blank, AutNum(<<"7">>), Attr("country", <<"C">>), Blank >>

\* Every file of at most four lines over the line kinds below, and every
\* file of at most six aut-num, descr and blank lines, each with a final blank.
LineKinds ==
    {Blank, Comment, Other, AutNum(<<"1">>), AutNum(<<"2">>),
     Attr("as-name", <<"N", "#", "x">>), Attr("descr", <<"D", "#">>), Attr("remarks", <<"R">>)}

MCLoaderFiles ==
    {s \o <<Blank>> : s \in BoundedSeq(LineKinds, 4)}
        \cup {s \o <<Blank>> : s \in BoundedSeq({AutNum(<<"1">>), Attr("descr", <<"D">>), Blank}, 6)}

=============================================================================
