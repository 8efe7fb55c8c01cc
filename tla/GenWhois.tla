------------------------------- MODULE GenWhois -------------------------------
(***************************************************************************)
(* rest-gen-whois-asn.py across successive cron runs.  main() lists the    *)
(* ASNs of gen_asn_stats that have no whois name yet (get_asn_list), looks *)
(* each up at ARIN (walk_whois), pausing after every MAX_REQUESTS_PER_     *)
(* INTERVAL ASNs, then downloads APNIC's aut-num file and REPLACEs its     *)
(* records (apnic).  A gen_whois_asn row is abstracted to whether as_name  *)
(* is set and which source wrote it.  Faults: an HTTP or FTP call raises,  *)
(* a query returns None, a REPLACE fails; at most MaxFailures in all.      *)
(* Besides these transient faults, update_whois_db wraps every value in    *)
(* single quotes and escapes none of them (arin() turns ' into " only in   *)
(* remarks), so the REPLACE of an ASN whose ARIN name, org name or address *)
(* holds an apostrophe is a syntax error in every run.                     *)
(***************************************************************************)
EXTENDS Integers, Sequences, SequencesExt, FiniteSets, ApnicLoader

CONSTANTS
    StatsAsns,     \* the ASNs of gen_asn_stats
    Names,         \* the AS names ARIN may return
    RipeNames,     \* the names whose lower() contains 'ripe'
    ApnicNames,    \* the names whose lower() contains 'apnic'
    ArinName,      \* ASN -> its ARIN name, or NotFound when the status is not 200
    Quoted,        \* the ASNs whose ARIN record has a value with an apostrophe
    NotFound,
    ApnicFile,     \* the lines of apnic.db.aut-num.gz
    LoaderFiles,   \* the files the reader is checked on against RecordRows
    MaxRequests,   \* MAX_REQUESTS_PER_INTERVAL (100 in the code)
    NumRuns,       \* cron invocations of the script
    MaxFailures,   \* faults in a behaviour
    Private4Start  \* 4200000000, beyond TLC's integers: a bound above the model's ASNs

ASSUME /\ ArinName \in [StatsAsns -> Names \cup {NotFound}]
       /\ RipeNames \cup ApnicNames \subseteq Names
       /\ Quoted \subseteq StatsAsns
       /\ MaxRequests \in Nat \ {0}
       /\ {NumRuns, MaxFailures} \subseteq Nat
       /\ \A a \in StatsAsns : a < Private4Start

VARIABLES
    whoisTbl,     \* gen_whois_asn: ASN -> [named, source]
    pc,           \* "idle", "list", "walk", "apnic"
    runs,         \* runs started so far
    asnList,      \* asn_list of the current run
    pos,          \* the position of the next ASN of asn_list
    requestsNum,  \* requests_num
    failures      \* faults so far

vars == <<whoisTbl, pc, runs, asnList, pos, requestsNum, failures>>

\* Mutation variant: the documentation range starts one ASN early.
IsReservedAsnOffByOne(a) ==
    \/ a = 0 \/ a = 23456 \/ a \in 64495..65535 \/ a \in 65536..131071
    \/ a >= Private4Start

\* The private/reserved test of get_asn_list.
IsReservedAsn(a) ==
    \/ a = 0 \/ a = 23456 \/ a \in 64496..65535 \/ a \in 65536..131071
    \/ a >= Private4Start

\* long() of the digits MySQL reads for an unquoted asn value.
Digit(c) == CHOOSE d \in 0..9 : <<"0","1","2","3","4","5","6","7","8","9">>[d + 1] = c
RECURSIVE Number(_)
Number(s) == IF s = <<>> THEN 0 ELSE 10 * Number(Front(s)) + Digit(Last(s))
IsNumeral(s) == s # <<>> /\ \A k \in DOMAIN s : s[k] \in {"0","1","2","3","4","5","6","7","8","9"}

Faults == IF failures < MaxFailures THEN BOOLEAN ELSE {FALSE}

\* Whether arin() yields a record with as_name for the ASN.
ArinNames(a) == ArinName[a] \in Names \ (RipeNames \cup ApnicNames)

TypeOK ==
    /\ DOMAIN whoisTbl \subseteq Nat
    /\ \A a \in DOMAIN whoisTbl : whoisTbl[a] \in [named : BOOLEAN, source : {"arin", "apnic"}]
    /\ pc \in {"idle", "list", "walk", "apnic"}
    /\ runs \in 0..NumRuns /\ failures \in 0..MaxFailures
    /\ asnList \in Seq(StatsAsns) /\ pos \in 1..Len(asnList) + 1
    /\ requestsNum \in 0..MaxRequests - 1

Init ==
    /\ whoisTbl = [a \in {} |-> [named |-> FALSE, source |-> "arin"]]
    /\ pc = "idle" /\ runs = 0 /\ asnList = <<>> /\ pos = 1
    /\ requestsNum = 0 /\ failures = 0

-----------------------------------------------------------------------------

\* Cron starts the script, long after the previous run.
Start ==
    /\ pc = "idle" /\ runs < NumRuns
    /\ pc' = "list" /\ runs' = runs + 1
    /\ UNCHANGED <<whoisTbl, asnList, pos, requestsNum, failures>>

(***************************************************************************)
(* get_asn_list: QUERY_AS_LIST selects the distinct ASNs whose left-joined *)
(* as_name is NULL, in no particular order, and the reserved ones are      *)
(* dropped.  A failed query returns None and len(None) raises.             *)
(***************************************************************************)
GetAsnList ==
    /\ pc = "list"
    /\ \E fail \in Faults :
         IF fail THEN pc' = "idle" /\ failures' = failures + 1 /\ UNCHANGED asnList
         ELSE /\ asnList' \in SetToSeqs({a \in StatsAsns : a \notin DOMAIN whoisTbl \/ ~whoisTbl[a].named}
                                         \ {a \in StatsAsns : IsReservedAsn(a)})
              /\ pc' = "walk" /\ UNCHANGED failures
    /\ pos' = 1 /\ requestsNum' = 0
    /\ UNCHANGED <<whoisTbl, runs>>

\* `requests_num += 1`
NextRequestsNum(n) == n + 1

\* Mutation variant: the pause is taken once requests_num exceeds the limit.
PausesAfterOffByOne(n) == n > MaxRequests

\* `if requests_num >= MAX_REQUESTS_PER_INTERVAL`
PausesAfter(n) == n >= MaxRequests

\* update_whois_db: REPLACE INTO gen_whois_asn with as_name among the
\* columns; with an apostrophe in a quoted value it is a syntax error.
UpdateWhoisDb(tbl, a) == IF a \in Quoted THEN tbl ELSE (a :> [named |-> TRUE, source |-> "arin"]) @@ tbl

(***************************************************************************)
(* One iteration of walk_whois: arin() answers 'RIPE' or 'AS in APNIC' for *)
(* a name containing those words, {} for a status other than 200, and     *)
(* otherwise fetches the org and returns a record with as_name, which      *)
(* update_whois_db REPLACEs.  requests.get raising ends the script.  Then  *)
(* the pause: sleep(15) and requests_num = 0.                              *)
(***************************************************************************)
LookupAsn ==
    /\ pc = "walk" /\ pos <= Len(asnList)
    /\ LET a == asnList[pos] IN
       \E raise \in Faults, replaceFails \in Faults :
            /\ ~(raise /\ replaceFails)
            /\ failures' = failures + (IF raise \/ replaceFails THEN 1 ELSE 0)
            /\ IF raise
               THEN pc' = "idle" /\ UNCHANGED <<whoisTbl, requestsNum>>
               ELSE /\ whoisTbl' = IF ArinNames(a) /\ ~replaceFails
                                   THEN UpdateWhoisDb(whoisTbl, a)
                                   ELSE whoisTbl
                    /\ requestsNum' = IF PausesAfter(NextRequestsNum(requestsNum))
                                      THEN 0 ELSE NextRequestsNum(requestsNum)
                    /\ UNCHANGED pc
    /\ pos' = pos + 1
    /\ UNCHANGED <<runs, asnList>>

WalkDone ==
    /\ pc = "walk" /\ pos > Len(asnList)
    /\ pc' = "apnic"
    /\ UNCHANGED <<whoisTbl, runs, asnList, pos, requestsNum, failures>>

\* The records load_file_to_db sends for the file downloaded.
ApnicRows == LoadFile(ApnicFile)

\* add_record_to_db: REPLACE with the asn unquoted; a value MySQL cannot
\* read as a number is a syntax error, caught by queryNoResults.
ReplaceApnic(tbl, row) ==
    IF IsNumeral(row["asn"])
    THEN (Number(row["asn"]) :> [named |-> "as_name" \in DOMAIN row, source |-> "apnic"]) @@ tbl
    ELSE tbl

(***************************************************************************)
(* apnic(): the FTP download raises on error; otherwise load_file_to_db    *)
(* REPLACEs the file's records in order, each of which may fail alone.     *)
(***************************************************************************)
Apnic ==
    /\ pc = "apnic"
    /\ LET rows == ApnicRows IN
       \/ /\ failures < MaxFailures
          /\ failures' = failures + 1 /\ UNCHANGED whoisTbl
       \/ \E lost \in SUBSET DOMAIN rows :
            /\ failures + Cardinality(lost) <= MaxFailures
            /\ failures' = failures + Cardinality(lost)
            /\ LET kept == SelectSeq([k \in DOMAIN rows |-> k], LAMBDA k : k \notin lost)
               IN whoisTbl' = FoldLeft(ReplaceApnic, whoisTbl, [j \in DOMAIN kept |-> rows[kept[j]]])
    /\ pc' = "idle"
    /\ UNCHANGED <<runs, asnList, pos, requestsNum>>

Finished ==
    /\ pc = "idle" /\ runs = NumRuns
    /\ UNCHANGED vars

Step == Start \/ GetAsnList \/ LookupAsn \/ WalkDone \/ Apnic

Next == Step \/ Finished

\* Cron keeps starting the script; a started run keeps executing.
Spec == Init /\ [][Next]_vars /\ WF_vars(Step)

-----------------------------------------------------------------------------
(* Properties.                                                              *)

Named(a) == a \in DOMAIN whoisTbl /\ whoisTbl[a].named

\* The ASNs a source of the script can name: ARIN itself, or the APNIC file.
ApnicNamed(a) ==
    \E r \in ToSet(ApnicRows) : IsNumeral(r["asn"]) /\ Number(r["asn"]) = a /\ "as_name" \in DOMAIN r
\* IANA's special-purpose ASNs, range by range (RFCs 7607, 6793, 5398,
\* 6996, 7300), independent of the test the code writes.
IanaSpecial(a) ==
    \/ a \in {0, 23456, 65535}
    \/ a \in 64496..64511 \/ a \in 64512..65534 \/ a \in 65536..65551 \/ a \in 65552..131071
    \/ a >= Private4Start
\* The ASNs a source can name and the script can store.
Resolvable == {a \in StatsAsns : ~IanaSpecial(a) /\ ((ArinNames(a) /\ a \notin Quoted) \/ ApnicNamed(a))}

(***************************************************************************)
(* Whenever apnic() runs, the reader of load_file_to_db yields, for the   *)
(* file and every small file ending in a blank line, exactly the records  *)
(* of the reference split: no attribute or descr value leaks from one     *)
(* record into the next, repeated attributes are joined in order, and     *)
(* records without aut-num are skipped.                                   *)
(***************************************************************************)
ReaderMatchesReference == \A f \in LoaderFiles \cup {ApnicFile} : LoadFile(f) = RecordRows(f)
LoadMatchesRecords == pc = "apnic" => ReaderMatchesReference

(***************************************************************************)
(* Retry by re-query: a failed lookup, REPLACE or download leaves as_name  *)
(* NULL, so QUERY_AS_LIST lists the ASN again in the next run.  Every      *)
(* public ASN of gen_asn_stats that the APNIC file names, or that ARIN     *)
(* names with no apostrophe in its values, is eventually named, as long as *)
(* the runs outnumber the transient faults.                                *)
(***************************************************************************)
EventuallyNamed == \A a \in Resolvable : <>Named(a)

-----------------------------------------------------------------------------
(* What the docstring of walk_whois says, checked by a run that expects a   *)
(* violation.                                                               *)

(***************************************************************************)
(* "The whois starts with arin and follows the referral": every public ASN *)
(* of gen_asn_stats is eventually named, whichever registry holds it.      *)
(***************************************************************************)
EveryPublicAsnNamed == \A a \in StatsAsns : ~IanaSpecial(a) => <>Named(a)

(***************************************************************************)
(* walk_whois: "Only process the record if whois responded", then "Update  *)
(* database with required": every public ASN that ARIN answers with an     *)
(* as_name is eventually stored with it.                                   *)
(***************************************************************************)
ArinAnswerStored == \A a \in StatsAsns : ~IanaSpecial(a) /\ ArinNames(a) => <>Named(a)

=============================================================================
