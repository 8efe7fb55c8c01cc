---------------------------- MODULE AsnStatsStore ----------------------------
(***************************************************************************)
(* The snapshot writer of gen-asn-stats.py across successive cron runs.    *)
(* Each run captures INTERVAL_TIMESTAMP when the script starts, aggregates *)
(* RECORD_DICT (module AsnPrefixCounts), then UpdateDB sends one           *)
(*   INSERT IGNORE ... VALUES (...),... ON DUPLICATE KEY UPDATE            *)
(*   repeats=repeats+1                                                     *)
(* into gen_asn_stats, whose BEFORE INSERT trigger ins_gen_asn_stats       *)
(* compares each new row with the newest row of its ASN: identical counts  *)
(* move the new row onto that row's timestamp (so the key collides and     *)
(* repeats is bumped), different counts get change ratios.  The `timestamp`*)
(* column is ON UPDATE CURRENT_TIMESTAMP, so the bump also moves the row   *)
(* to the statement's NOW().  UpdateDB then runs INSERT_LAST_ASN_STATS,    *)
(* which REPLACEs into gen_asn_stats_last one row per ASN among the rows   *)
(* stamped within the last 8 minutes (GROUP BY asn: MySQL returns the      *)
(* non-grouped columns of any row of the group).                           *)
(***************************************************************************)
EXTENDS Integers, FiniteSets, Sequences

CONSTANTS
    Asns,       \* ASNs that may have a record
    Choices,    \* the count vectors a record may carry
    NumRuns,    \* cron invocations of the script
    Window,     \* ticks of INSERT_LAST_ASN_STATS's window (8 minutes in the code)
    RunTime,    \* longest time a run takes from start to its last statement
    Overlap,    \* whether a run may start before the previous one exited
    MaxClock,   \* bound on the minutes modelled
    InsertMayFail, \* whether the bulk statement may fail (queryNoResults -> None)
    TriggerInPlace \* whether ins_gen_asn_stats exists when the runs insert

Columns == {"transit_v4_prefixes", "transit_v6_prefixes",
            "origin_v4_prefixes", "origin_v6_prefixes"}

ZeroCounts == [c \in Columns |-> 0]

ASSUME /\ Choices \subseteq [Columns -> Nat]
       \* a record exists only for an ASN some query returned a row for
       /\ ZeroCounts \notin Choices
       /\ NumRuns \in Nat \ {0}
       /\ {Window, RunTime, MaxClock} \subseteq Nat
       /\ {Overlap, InsertMayFail, TriggerInPlace} \subseteq BOOLEAN

Runs == 1..NumRuns

\* A run's phases after it exited: UpdateDB skipped, or its statements ran.
Exited == {"skipped", "done"}

VARIABLES
    clock,      \* the database's current_timestamp, in ticks of the model
    stats,      \* gen_asn_stats: a set of rows keyed by (asn, ts)
    last,       \* gen_asn_stats_last: asn -> counts
    rphase,     \* per run: "waiting", "aggregating", then "skipped" or "done"
    rts,        \* per run: INTERVAL_TIMESTAMP
    wrote,      \* per run: the minute its bulk statement ran
    rrec,       \* per run: the RECORD_DICT it inserted
    written     \* history: asn -> counts of the newest successful insert

vars == <<clock, stats, last, rphase, rts, wrote, rrec, written>>

\* The largest DECIMAL(8,5) in units of 10^-5: 999.99999.
DecimalCap == 99999999

Row == [asn : Asns, ts : Nat, counts : [Columns -> Nat],
        change : [Columns -> -DecimalCap..DecimalCap], repeats : Nat,
        isTransit : BOOLEAN, isOrigin : BOOLEAN]

NoRecord == [a \in {} |-> ZeroCounts]

(***************************************************************************)
(* The change ratio of one column, as the trigger computes it:             *)
(*   cast(if(new > old, new / old, old / new * -1) as decimal(8,5))        *)
(* when both counts are positive and differ, else the column default 0.    *)
(* MySQL's `/` yields div_precision_increment = 4 more decimals than its   *)
(* integer operands, rounded half up; the cast to DECIMAL(8,5) appends a   *)
(* zero digit and, with sql_mode '' set by the trigger, clips to           *)
(* +-999.99999.  Ratios are in units of 10^-5.                             *)
(***************************************************************************)
Div4(x, y) == 10 * ((20000 * x + y) \div (2 * y))

Clip(v) == IF v > DecimalCap THEN DecimalCap ELSE IF v < -DecimalCap THEN -DecimalCap ELSE v

\* Mutation variant: no clip to the column's range (a strict sql_mode).
ChangeRatioNoClip(old, new) ==
    IF old > 0 /\ new > 0 /\ new # old
    THEN IF new > old THEN Div4(new, old) ELSE -Div4(old, new)
    ELSE 0

\* Mutation variant: the quotient's operands swapped.
ChangeRatioSwapped(old, new) ==
    IF old > 0 /\ new > 0 /\ new # old
    THEN Clip(IF new > old THEN Div4(old, new) ELSE -Div4(new, old))
    ELSE 0

ChangeRatio(old, new) ==
    IF old > 0 /\ new > 0 /\ new # old
    THEN Clip(IF new > old THEN Div4(new, old) ELSE -Div4(old, new))
    ELSE 0

RowsOf(S, a) == {s \in S : s.asn = a}

\* `ORDER BY timestamp DESC limit 1` over the rows of the ASN.
Newest(S, a) == CHOOSE s \in RowsOf(S, a) : \A u \in RowsOf(S, a) : u.ts <= s.ts

\* Mutation variant: the test leaves out origin_v6_prefixes.
SameCountsNoOriginV6(c, prior) ==
    \A col \in Columns \ {"origin_v6_prefixes"} : c[col] = prior[col]

\* The trigger's test: all four counts equal those of the newest row.
SameCounts(c, prior) == \A col \in Columns : c[col] = prior[col]

\* Mutation variant: the duplicate is ignored without counting it.
BumpRepeatsNoCount(S, row, now) == (S \ {row}) \cup {[row EXCEPT !.ts = now]}

\* ON DUPLICATE KEY UPDATE repeats=repeats+1: the row changes, so its ON
\* UPDATE CURRENT_TIMESTAMP column takes the statement's NOW().
BumpRepeats(S, row, now) ==
    (S \ {row}) \cup {[row EXCEPT !.repeats = @ + 1, !.ts = now]}

\* `IF (all four counts equal) THEN set new.timestamp = last_ts`
CollapseKey(same, lastTs, ts) == IF same THEN lastTs ELSE ts

(***************************************************************************)
(* Whether ins_gen_asn_stats runs for a row.  createTrigger, called by     *)
(* every init, sends DROP TRIGGER IF EXISTS and then CREATE TRIGGER; a     *)
(* failed CREATE is only printed, and init goes on.  After such an init    *)
(* the table has no trigger until init succeeds again, and every bulk      *)
(* insert stores its rows as sent, with the change columns' default 0.     *)
(***************************************************************************)
TriggerRuns == TriggerInPlace

(***************************************************************************)
(* One VALUES row of UpdateDB's statement through ins_gen_asn_stats and    *)
(* the primary key (asn, timestamp).  No prior row leaves the trigger's    *)
(* variables at their defaults (counts 0); a record never has all counts 0 *)
(* so the NULL last_ts of that case is never assigned.  Without the        *)
(* trigger the same holds: the row keeps its key and the ratios are 0.     *)
(***************************************************************************)
InsertRow(S, a, c, ts, now) ==
    LET hasPrior == TriggerRuns /\ RowsOf(S, a) # {}
        prior == IF hasPrior THEN Newest(S, a).counts ELSE ZeroCounts
        same == SameCounts(c, prior)
        key == CollapseKey(same, IF hasPrior THEN Newest(S, a).ts ELSE ts, ts)
        dup == {s \in RowsOf(S, a) : s.ts = key}
        new == [asn |-> a, ts |-> key, counts |-> c, repeats |-> 0,
                change |-> [col \in Columns |->
                              IF same THEN 0 ELSE ChangeRatio(prior[col], c[col])],
                isTransit |-> c["transit_v4_prefixes"] > 0 \/ c["transit_v6_prefixes"] > 0,
                isOrigin |-> c["origin_v4_prefixes"] > 0 \/ c["origin_v6_prefixes"] > 0]
    IN IF dup # {} THEN BumpRepeats(S, CHOOSE s \in dup : TRUE, now) ELSE S \cup {new}

\* The whole bulk statement: rows of distinct ASNs do not see each other.
InsertAll(S, rec, ts, now) ==
    LET D == DOMAIN rec
    IN {s \in S : s.asn \notin D} \cup UNION {InsertRow(RowsOf(S, a), a, rec[a], ts, now) : a \in D}

\* `WHERE timestamp >= date_sub(current_timestamp, interval 8 minute)`
InWindow(s, now) == s.ts >= now - Window

(***************************************************************************)
(* INSERT_LAST_ASN_STATS at minute `now` over snapshot table S: the tables  *)
(* it may leave.  For each ASN with rows in the window, REPLACE its row     *)
(* with the counts of one of those rows (GROUP BY asn picks any of them);   *)
(* the other rows of gen_asn_stats_last stay.                              *)
(***************************************************************************)
RefreshedLast(S, now) ==
    LET recent == {s \in S : InWindow(s, now)}
        D == {s.asn : s \in recent}
    IN {[a \in DOMAIN last \cup D |-> IF a \in D THEN pick[a].counts ELSE last[a]] :
          pick \in {p \in [D -> recent] : \A a \in D : p[a].asn = a}}

TypeOK ==
    /\ clock \in 0..MaxClock
    /\ stats \subseteq Row
    /\ DOMAIN last \subseteq Asns /\ \A a \in DOMAIN last : last[a] \in [Columns -> Nat]
    /\ rphase \in [Runs -> {"waiting", "aggregating"} \cup Exited]
    /\ rts \in [Runs -> 0..MaxClock]
    /\ wrote \in [Runs -> 0..MaxClock]
    /\ \A r \in Runs : DOMAIN rrec[r] \subseteq Asns
    /\ DOMAIN written \subseteq Asns

Init ==
    /\ clock = 0
    /\ stats = {}
    /\ last = NoRecord
    /\ rphase = [r \in Runs |-> "waiting"]
    /\ rts = [r \in Runs |-> 0]
    /\ wrote = [r \in Runs |-> 0]
    /\ rrec = [r \in Runs |-> NoRecord]
    /\ written = NoRecord

-----------------------------------------------------------------------------

\* Cron starts run r: INTERVAL_TIMESTAMP = time().  Runs start in order;
\* without Overlap, after the previous run exited and in a later minute
\* than its statements.
Start(r) ==
    /\ rphase[r] = "waiting"
    /\ r > 1 => IF Overlap THEN rphase[r - 1] # "waiting"
                ELSE rphase[r - 1] \in Exited /\ clock > wrote[r - 1]
    /\ rphase' = [rphase EXCEPT ![r] = "aggregating"]
    /\ rts' = [rts EXCEPT ![r] = clock]
    /\ UNCHANGED <<clock, stats, last, wrote, rrec, written>>

\* UpdateDB with an empty RECORD_DICT: "No records, skipping update".
SkipEmpty(r) ==
    /\ rphase[r] = "aggregating"
    /\ rphase' = [rphase EXCEPT ![r] = "skipped"]
    /\ UNCHANGED <<clock, stats, last, rts, wrote, rrec, written>>

(***************************************************************************)
(* UpdateDB with a nonempty RECORD_DICT rec: the bulk statement, which     *)
(* either applies as a whole or fails (queryNoResults logs and returns     *)
(* None), then INSERT_LAST_ASN_STATS whatever the insert did.              *)
(***************************************************************************)
UpdateDB(r) ==
    /\ rphase[r] = "aggregating"
    /\ \E D \in SUBSET Asns \ {{}} : \E rec \in [D -> Choices], ok \in {TRUE, ~InsertMayFail} :
         LET S == IF ok THEN InsertAll(stats, rec, rts[r], clock) ELSE stats
         IN /\ stats' = S
            /\ last' \in RefreshedLast(S, clock)
            /\ rrec' = IF ok THEN [rrec EXCEPT ![r] = rec] ELSE rrec
            /\ written' = IF ok THEN [a \in DOMAIN written \cup D |-> IF a \in D THEN rec[a] ELSE written[a]]
                          ELSE written
    /\ rphase' = [rphase EXCEPT ![r] = "done"]
    /\ wrote' = [wrote EXCEPT ![r] = clock]
    /\ UNCHANGED <<clock, rts>>

\* A minute passes; no run outlives RunTime.
Tick ==
    /\ clock < MaxClock
    /\ \A r \in Runs : rphase[r] = "aggregating" => clock + 1 - rts[r] <= RunTime
    /\ clock' = clock + 1
    /\ UNCHANGED <<stats, last, rphase, rts, wrote, rrec, written>>

\* Every run has exited, or the clock bound stops the remaining ones.
Finished ==
    /\ \/ \A r \in Runs : rphase[r] \in Exited
       \/ clock = MaxClock /\ \A r \in Runs : rphase[r] # "aggregating"
    /\ UNCHANGED vars

Next ==
    \/ \E r \in Runs : Start(r) \/ SkipEmpty(r) \/ UpdateDB(r)
    \/ Tick
    \/ Finished

Spec == Init /\ [][Next]_vars

-----------------------------------------------------------------------------
(* Properties.                                                              *)

\* The row of the same ASN just before s in timestamp order.
HasPred(s) == \E u \in RowsOf(stats, s.asn) : u.ts < s.ts

Pred(s) == CHOOSE u \in RowsOf(stats, s.asn) :
               /\ u.ts < s.ts
               /\ \A v \in RowsOf(stats, s.asn) : v.ts < s.ts => v.ts <= u.ts

(***************************************************************************)
(* The time series of an ASN never holds two consecutive rows with the     *)
(* same four counts: an unchanged ASN is collapsed by the trigger onto its *)
(* newest row instead of starting a new point.                             *)
(***************************************************************************)
NoRepeatedPoint ==
    \A s \in stats : HasPred(s) => Pred(s).counts # s.counts

(***************************************************************************)
(* Reference for one change ratio, in 10^-5 units: the larger count over   *)
(* the smaller, truncated to 4 decimals and rounded up when the remainder  *)
(* is at least half the divisor, then given the cast's fifth digit 0,      *)
(* capped at 999.99999 and signed by the direction of the change; 0 when   *)
(* either count is 0 or they are equal.                                    *)
(***************************************************************************)
RefRatio(old, new) ==
    LET hi == IF new > old THEN new ELSE old
        lo == IF new > old THEN old ELSE new
        q == (10000 * hi) \div lo
        rounded == IF 2 * ((10000 * hi) % lo) >= lo THEN q + 1 ELSE q
        capped == IF 10 * rounded > DecimalCap THEN DecimalCap ELSE 10 * rounded
    IN IF lo = 0 \/ hi = lo THEN 0 ELSE IF new > old THEN capped ELSE -capped

(***************************************************************************)
(* The change ratios of every row are those of its counts against the row  *)
(* just before it in the series (0 for an ASN's first row), however many   *)
(* runs failed, were skipped or were collapsed in between.                 *)
(***************************************************************************)
RatioOfPredecessor ==
    \A s \in stats :
        s.change = [col \in Columns |->
                      IF HasPred(s) THEN RefRatio(Pred(s).counts[col], s.counts[col]) ELSE 0]

(***************************************************************************)
(* The newest row of every ASN carries the counts of the newest successful *)
(* insert that had a record for it.                                        *)
(***************************************************************************)
LatestIsCurrent ==
    \A a \in DOMAIN written : Newest(stats, a).counts = written[a]

(***************************************************************************)
(* Refinement: gen_asn_stats, read per ASN in timestamp order, is a        *)
(* snapshot series.  Every successful bulk insert extends the series of    *)
(* the ASNs it carries by exactly one repeat or one new point, and never   *)
(* rewrites an older point; failed inserts, skipped runs and the refresh   *)
(* of gen_asn_stats_last leave it alone.                                   *)
(***************************************************************************)
RECURSIVE SeriesOf(_)
SeriesOf(S) ==
    IF S = {} THEN <<>>
    ELSE LET o == CHOOSE s \in S : \A u \in S : s.ts <= u.ts
         IN <<[counts |-> o.counts, repeats |-> o.repeats]>> \o SeriesOf(S \ {o})

Abstract == INSTANCE SnapshotSeries WITH series <- [a \in Asns |-> SeriesOf(RowsOf(stats, a))],
         reports <- [a \in Asns |-> Cardinality({r \in Runs : a \in DOMAIN rrec[r]})]

ImplementsSnapshotSeries == Abstract!Spec

-----------------------------------------------------------------------------
(* What the spec says of the code, checked by runs that expect a violation. *)

(***************************************************************************)
(* Spec 4.5: once a run has refreshed the last-state table, it holds the   *)
(* newest counts of every ASN the run wrote.                               *)
(***************************************************************************)
LastStateCurrent ==
    \A a \in DOMAIN written : a \in DOMAIN last /\ last[a] = written[a]

=============================================================================
