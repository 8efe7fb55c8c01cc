---------------------------- MODULE RpkiValidator ----------------------------
(***************************************************************************)
(* rpki_validator.py across successive cron runs.  main() records the     *)
(* current ROA count in rpki_history_stats, then load_export fetches the   *)
(* validator's export and REPLACEs its ROAs into rpki_validator in bulk    *)
(* statements of at most MAX_BULK_INSERT_QUEUE_SIZE rows, each stamped     *)
(* with its statement's NOW(); then every ROA older than one hour is       *)
(* purged and gen_prefix_validation is recomputed from the ROAs left.      *)
(* A ROA is a model value standing for its key (prefix, prefix_len,        *)
(* prefix_len_max, origin_as).                                             *)
(***************************************************************************)
EXTENDS Integers, Sequences, SequencesExt, FiniteSets

CONSTANTS
    Roas,            \* the ROA keys an export may carry
    Exports,         \* the exports the validator may serve: sequences of ROAs
    MaxBulk,         \* MAX_BULK_INSERT_QUEUE_SIZE (2000 in the code)
    NumRuns,         \* cron invocations of the script
    Hour,            \* ticks in the purge's `interval 1 hour`
    RunTime,         \* longest time a run takes from start to its last statement
    MaxClock,        \* bound on the time modelled
    FetchMayFail,    \* whether urlopen may raise URLError
    QueryMayFail     \* whether a statement may fail (mysql.Error caught, None)

ASSUME /\ Exports \subseteq Seq(Roas)
       /\ \A e \in Exports : \A j, k \in 1..Len(e) : j # k => e[j] # e[k]
       /\ MaxBulk \in Nat \ {0}
       /\ {NumRuns, Hour, RunTime, MaxClock} \subseteq Nat
       /\ {FetchMayFail, QueryMayFail} \subseteq BOOLEAN

VARIABLES
    clock,      \* the database's current_timestamp
    roas,       \* rpki_validator: ROA -> its timestamp column
    genView,    \* the ROAs gen_prefix_validation was last computed from
    history,    \* rpki_history_stats: the total_prefix values recorded
    pc,         \* where main() is: "idle", "stats", "fetch", "load", "purge", "gen"
    runs,       \* runs started so far
    started,    \* the minute the current run started
    data,       \* json_response['roas'] of the current run (<<>> if the fetch failed)
    pending,    \* the bulk statements load_export has still to send
    sent,       \* history: the statements load_export sent in the current run
    loadOk      \* history: the current run fetched and every statement succeeded

vars == <<clock, roas, genView, history, pc, runs, started, data, pending, sent, loadOk>>

(***************************************************************************)
(* The statements the loop of load_export sends for `data`: a row is       *)
(* appended and counted; below MAX_BULK_INSERT_QUEUE_SIZE rows a ", " is   *)
(* added, at the limit the statement is sent and restarted with counter 0; *)
(* after the loop a statement ending in ", " (rows pending) is trimmed and *)
(* sent.  `rows` is the VALUES list of the statement being built.          *)
(***************************************************************************)
RECURSIVE BulkFrom(_, _)

\* Mutation variant: the flush test is `counter <= MAX_BULK_INSERT_QUEUE_SIZE`.
BulkFromOffByOne(rest, rows) ==
    IF rest = <<>> THEN IF rows # <<>> THEN <<rows>> ELSE <<>>
    ELSE LET next == Append(rows, Head(rest))
         IN IF Len(next) <= MaxBulk THEN BulkFrom(Tail(rest), next)
            ELSE <<next>> \o BulkFrom(Tail(rest), <<>>)

\* Mutation variant: the trailing statement is never sent.
BulkFromNoTail(rest, rows) ==
    IF rest = <<>> THEN <<>>
    ELSE LET next == Append(rows, Head(rest))
         IN IF Len(next) < MaxBulk THEN BulkFrom(Tail(rest), next)
            ELSE <<next>> \o BulkFrom(Tail(rest), <<>>)

BulkFrom(rest, rows) ==
    IF rest = <<>> THEN IF rows # <<>> THEN <<rows>> ELSE <<>>
    ELSE LET next == Append(rows, Head(rest))
         IN IF Len(next) < MaxBulk THEN BulkFrom(Tail(rest), next)
            ELSE <<next>> \o BulkFrom(Tail(rest), <<>>)

BulkStatements(d) == BulkFrom(d, <<>>)

\* Mutation variant: an existing key keeps its row (INSERT IGNORE).
UpsertIgnore(tbl, rows, now) ==
    [r \in DOMAIN tbl \cup ToSet(rows) |-> IF r \in DOMAIN tbl THEN tbl[r] ELSE now]

\* `REPLACE INTO rpki_validator ... NOW()`: every row of the statement,
\* new or existing, gets the statement's timestamp.
Upsert(tbl, rows, now) ==
    [r \in DOMAIN tbl \cup ToSet(rows) |-> IF r \in ToSet(rows) THEN now ELSE tbl[r]]

\* `DELETE ... WHERE timestamp < date_sub(current_timestamp, interval 1 hour)`
Purged(tbl, now) == [r \in {x \in DOMAIN tbl : tbl[x] >= now - Hour} |-> tbl[r]]

\* Outcomes of one statement: dbAcccess catches mysql.Error and returns None.
Outcomes == IF QueryMayFail THEN BOOLEAN ELSE {TRUE}

NoRoas == [r \in {} |-> 0]

TypeOK ==
    /\ clock \in 0..MaxClock
    /\ DOMAIN roas \subseteq Roas /\ \A r \in DOMAIN roas : roas[r] \in 0..MaxClock
    /\ genView \subseteq Roas
    /\ history \in Seq(0..Cardinality(Roas))
    /\ pc \in {"idle", "stats", "fetch", "load", "purge", "gen"}
    /\ runs \in 0..NumRuns
    /\ started \in 0..MaxClock
    /\ data \in Exports \cup {<<>>}
    \* a bulk statement holds 1..MAX_BULK_INSERT_QUEUE_SIZE rows
    /\ \A stmts \in {pending, sent} :
         stmts \in Seq(Seq(Roas)) /\ \A k \in 1..Len(stmts) : Len(stmts[k]) \in 1..MaxBulk
    /\ loadOk \in BOOLEAN

Init ==
    /\ clock = 0
    /\ roas = NoRoas
    /\ genView = {}
    /\ history = <<>>
    /\ pc = "idle"
    /\ runs = 0
    /\ started = 0
    /\ data = <<>>
    /\ pending = <<>>
    /\ sent = <<>>
    /\ loadOk = FALSE

-----------------------------------------------------------------------------

\* Cron starts the script; runs do not overlap.
Start ==
    /\ pc = "idle" /\ runs < NumRuns
    /\ pc' = "stats" /\ runs' = runs + 1 /\ started' = clock
    /\ data' = <<>> /\ pending' = <<>> /\ sent' = <<>> /\ loadOk' = FALSE
    /\ UNCHANGED <<clock, roas, genView, history>>

(***************************************************************************)
(* "Record old stats": the two count queries and the INSERT IGNORE into    *)
(* rpki_history_stats.  A failed count query returns None and `[0][0]`     *)
(* raises: the script dies before loading anything.                        *)
(***************************************************************************)
RecordStats ==
    /\ pc = "stats"
    /\ \E ok \in Outcomes :
         IF ok THEN /\ pc' = "fetch"
                    /\ \E hist \in Outcomes :
                         history' = IF hist THEN Append(history, Cardinality(DOMAIN roas)) ELSE history
               ELSE pc' = "idle" /\ UNCHANGED history
    /\ UNCHANGED <<clock, roas, genView, runs, started, data, pending, sent, loadOk>>

\* urlopen and json.load; URLError makes load_export return at once.
Fetch ==
    /\ pc = "fetch"
    /\ \/ \E e \in Exports :
            /\ data' = e /\ pending' = BulkStatements(e) /\ loadOk' = TRUE
       \/ FetchMayFail /\ UNCHANGED <<data, pending, loadOk>>
    /\ pc' = "load"
    /\ UNCHANGED <<clock, roas, genView, history, runs, started, sent>>

\* db.queryNoResults of the next bulk statement; a failure is only printed.
SendStatement ==
    /\ pc = "load" /\ pending # <<>>
    /\ \E ok \in Outcomes :
         /\ roas' = IF ok THEN Upsert(roas, Head(pending), clock) ELSE roas
         /\ loadOk' = (loadOk /\ ok)
    /\ sent' = Append(sent, Head(pending))
    /\ pending' = Tail(pending)
    /\ UNCHANGED <<clock, genView, history, pc, runs, started, data>>

\* load_export returns.
EndLoad ==
    /\ pc = "load" /\ pending = <<>>
    /\ pc' = "purge"
    /\ UNCHANGED <<clock, roas, genView, history, runs, started, data, pending, sent, loadOk>>

\* "Purge old entries that didn't get updated".
Purge ==
    /\ pc = "purge"
    /\ \E ok \in Outcomes : roas' = IF ok THEN Purged(roas, clock) ELSE roas
    /\ pc' = "gen"
    /\ UNCHANGED <<clock, genView, history, runs, started, data, pending, sent, loadOk>>

\* QUERY_UPDATE_GEN_PREFIX_TABLE: the rib joined with the ROAs now present.
UpdateGenPrefix ==
    /\ pc = "gen"
    /\ \E ok \in Outcomes : genView' = IF ok THEN DOMAIN roas ELSE genView
    /\ pc' = "idle"
    /\ UNCHANGED <<clock, roas, history, runs, started, data, pending, sent, loadOk>>

\* Time passes; a started run ends within RunTime.
Tick ==
    /\ clock < MaxClock
    /\ pc # "idle" => clock + 1 - started <= RunTime
    /\ clock' = clock + 1
    /\ UNCHANGED <<roas, genView, history, pc, runs, started, data, pending, sent, loadOk>>

\* All runs are over, or the clock bound is reached between runs.
Finished ==
    /\ pc = "idle" /\ (runs = NumRuns \/ clock = MaxClock)
    /\ UNCHANGED vars

Next ==
    \/ Start \/ RecordStats \/ Fetch \/ SendStatement \/ EndLoad \/ Purge \/ UpdateGenPrefix
    \/ Tick \/ Finished

Spec == Init /\ [][Next]_vars

-----------------------------------------------------------------------------
(* Properties.                                                              *)

(***************************************************************************)
(* Once load_export has returned, the statements it sent hold, one after   *)
(* the other, exactly the rows of the export in order: no ROA is lost at a *)
(* statement boundary or in the trailing partial statement, whether or not *)
(* the export size is a multiple of MAX_BULK_INSERT_QUEUE_SIZE.            *)
(***************************************************************************)
BulkCoversExport == pc \in {"purge", "gen"} => FlattenSeq(sent) = data

(***************************************************************************)
(* After a run whose fetch and statements all succeeded, the purge that    *)
(* follows keeps every ROA of that export: the REPLACE refreshed the       *)
(* timestamp of the ROAs already present, so an old but still exported ROA *)
(* is not taken for stale.                                                 *)
(***************************************************************************)
ExportSurvivesPurge ==
    pc = "gen" /\ loadOk => ToSet(data) \subseteq DOMAIN roas

=============================================================================
