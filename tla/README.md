# TLA+ models of openbmp-mysql-consumer's cron scripts

This directory holds TLA+ models of the three cron scripts under `src/cron_scripts/`, the TLC configurations that check them, and `PROJECT.json`. `PROJECT.json` lists:
- the components;
- the runs;
- the mutants;
- the definition-to-source map;
- the findings;
- the hazards.

Every definition is translated from the Python source and the SQL it embeds. `PROJECT.json` "map" gives each definition's lines.

## 1. The system

### gen-asn-stats.py

This is the core, and spec.md describes it. In "run" mode, one cron invocation does the following:

1. It captures `INTERVAL_TIMESTAMP = time()` at import (line 22).
2. It reads the ASN list from `gen_active_asns` (line 587) and opens 20 connections (`db_pool`).
3. It calls `UpdatePrefixesCounts` twice: first with the origin query, then with the transit query. Each call does three things:
   - **Batch Partitioner.** It walks the rows, skips 23456, and builds `asn_list` of up to `batch_count` (10) ASNs. It flushes when the batch is full, or when the row is the last one. That last-row test never holds (see finding 1).
   - **Batch Scheduler.** A round-robin cursor `i` polls `thrs[i]`:
     - an unused slot gets a new `ThreadPool` task on `db_pool[i]`;
     - a ready slot has its result merged, then is popped and replaced with the new task;
     - a busy slot just advances the cursor.

     After the rows, a final join waits on every task left.
   - **Aggregation Merger.** Only the main thread updates `RECORD_DICT`. An ASN new to it gets this pass's two columns, with 0 in the other pass's columns. A known ASN has only this pass's columns overwritten.
4. **Worker task.** `UpdatePrefixesCountsThread` runs one grouped query on its connection and folds the rows into `(asn, v4, v6)` tuples. `dbAcccess.query` returns `None` on a `mysql.Error`, and the fold then raises.
5. **Snapshot Writer.** `UpdateDB` sends one `INSERT IGNORE ... VALUES ... ON DUPLICATE KEY UPDATE repeats=repeats+1` with every record at `INTERVAL_TIMESTAMP`. For each row, the `BEFORE INSERT` trigger `ins_gen_asn_stats` reads the ASN's newest row:
   - If all four counts are equal, it moves the new row onto that row's timestamp. The key `(asn, timestamp)` then collides, and `repeats` is bumped. Because the column is `ON UPDATE CURRENT_TIMESTAMP`, the bump also moves the row's timestamp to `NOW()`.
   - Otherwise it computes per-column change ratios as `DECIMAL(8,5)`.

   `INSERT_LAST_ASN_STATS` then `REPLACE`s one row per ASN into `gen_asn_stats_last`. The row comes from the snapshot rows stamped in the last 8 minutes, and `GROUP BY asn` may return any row of the group.

"init" mode (run by hand) creates the tables with `CREATE TABLE IF NOT EXISTS`, and drops and re-creates the trigger. It then reseeds `gen_active_asns` in three autocommitted statements (lines 576-583):
1. `UPDATE ... SET old = 1`;
2. the slow `REPLACE INTO ... SELECT distinct asn,0 from as_path_analysis where isWithdrawn = False`;
3. `DELETE ... WHERE old = 1`.

Each statement's error is printed and ignored (`queryNoResults` returns `None`).

### rpki_validator.py

One cron invocation does the following:
1. It records `count(*)` of `rpki_validator` and of the violations in `rpki_history_stats`. A failed count query makes `[0][0]` raise.
2. `load_export` fetches the validator's JSON and `REPLACE`s its ROAs in statements of up to 2000 rows, each stamped `NOW()`. A `URLError` makes it return at once.
3. It deletes ROAs older than one hour.
4. It recomputes `gen_prefix_validation`.

### rest-gen-whois-asn.py

One cron invocation does the following:
1. `get_asn_list` selects the distinct ASNs of `gen_asn_stats` whose left-joined `as_name` is NULL, and drops the reserved ranges. If the query fails, `len(None)` raises.
2. `walk_whois` asks ARIN for each ASN. `WHOIS_SOURCES` holds only `arin`; the RIPE entry is commented out. `arin()` gives one of four answers:
   - `'RIPE'` when the name contains "ripe";
   - `'AS in APNIC'` when it contains "apnic";
   - `{}` when the status is not 200;
   - otherwise, a record built from a second request for the org.

   Only a record with `as_name` is `REPLACE`d. After every 100 ASNs (`requests_num`) the walk sleeps 15 s. A raising request ends the script.
3. `apnic` downloads APNIC's aut-num file. `load_file_to_db` reads it line by line:
   - comments are skipped;
   - a blank line ends a record, which is `REPLACE`d if it has an `asn`;
   - `descr` values make the address;
   - mapped attributes are joined when repeated.

### How the parts interact

- The two passes share `RECORD_DICT`, and `UpdateDB` reads it.
- Successive cron runs share the tables. The trigger and the last-state refresh relate each run's rows to earlier runs' rows.
- The worker threads share nothing with the main thread except their result objects.
- Init mode writes `gen_active_asns`, and every run-mode invocation reads it with `QUERY_DISTINCT_ASNS` (line 587).
- The whois script reads `gen_asn_stats`, which gen-asn-stats writes. Its only retry is that a run that failed to name an ASN leaves `as_name` NULL, so the next run's query lists the ASN again.
- The RPKI script shares tables with the rest of OpenBMP, not with gen-asn-stats.

## 2. The hard behaviours

- **Threads.** Up to W queries are in flight at once and complete in any order. The main thread polls readiness, and the slot/connection alignment rests on `pop(i)`/`insert(i)` and the cursor wrap.
- **Failure inside a task.** A failed query surfaces only when the main thread calls `get()` on that task.
- **Several cron runs over the same tables.** This involves:
  - the trigger's read of the newest row;
  - the key collision that turns a repeat into a bump;
  - the `ON UPDATE` timestamp;
  - the 8-minute window measured from `NOW()` while rows carry the start time;
  - runs that fail part-way, skip `UpdateDB`, or overlap.
- **Arithmetic.** MySQL's `/` keeps 4 decimals, the ratio is cast to `DECIMAL(8,5)`, and `sql_mode=''` makes an out-of-range value clip.
- **RPKI.** This involves:
  - batching at the 2000-row boundary;
  - a failed fetch or statement that is swallowed while the purge still runs;
  - `REPLACE` refreshing timestamps that the purge relies on.
- **Init mode.** The three reseeding statements commit one by one. A failure or a kill between them leaves marks, stale rows or an empty table for the run-mode invocations that read it meanwhile or later.
- **Whois.** This involves:
  - a pacing counter that counts ASNs, while each ASN costs one or two requests;
  - values quoted into SQL without escaping, so some REPLACEs fail the same way in every run;
  - faults at any call ending the whole script, including the APNIC load that comes after the walk;
  - a line reader whose record state must be reset at every blank line.

## 3. Modules

| Module | Models | State | Actions |
|---|---|---|---|
| `AsnPrefixCounts` | One run's two `UpdatePrefixesCounts` calls (gen-asn-stats.py 360-487, 587-611) | `phase` (origin/transit/update/crashed), `stage` (row/dispatch/drain), `pos`, `batch`, `asn_list`, `i`, `thrs` (one record per `AsyncResult`: connection, ASNs, ready, failed, result), `drain`, `RECORD_DICT`, and a history `sent` of dispatched batches | `SkipReserved`, `AddToBatch`, `PollBusy`, `StartTask`, `ReuseSlot`, `ReuseSlotRaises`, `EndOfRows`, `DrainTask`, `DrainRaises`, `EndPass` (main thread); `Complete(k)` (worker k's query, which may fail); `Finished` |
| `AsnStatsStore` | `UpdateDB`, the trigger and the last-state refresh over `NumRuns` cron runs (40-93, 95-129, 155-162, 490-545) | `clock`, `stats` (the `gen_asn_stats` rows), `last`, and per run its phase, `INTERVAL_TIMESTAMP`, write time and record; a history `written` The constant `TriggerInPlace` says whether `ins_gen_asn_stats` exists: `createTrigger` (274-297) drops it before creating it, and ignores a failed create | `Start(r)`, `SkipEmpty(r)`, `UpdateDB(r)` (bulk statement, which may fail, then the refresh, in one step as the code runs them back to back), `Tick`, `Finished` |
| `SnapshotSeries` | The abstract promise of the snapshot table: per ASN, a series of points `[counts, repeats]` and the number of runs that reported it | `series`, `reports` | `Snapshot`: each reported ASN's series is extended once, by a repeat of the newest point or by a new point |
| `ApnicLoader` | `load_file_to_db` (rest-gen-whois-asn.py 286-335) as a fold (`LoadFile`), plus a reference `RecordRows` that splits the file at blank lines | none (pure operators) | `ReadLine`: `EndRecord` at a blank line, `AttrLine` at a line with ':', other lines skipped |
| `GenWhois` | `main()` of rest-gen-whois-asn.py over `NumRuns` runs, with at most `MaxFailures` faults | `whoisTbl` (ASN → `[named, source]`), `pc`, `runs`, `asnList`, `pos`, `requestsNum` and `failures`. The constant `Quoted` names the ASNs whose ARIN record has a value with an apostrophe | `Start`, `GetAsnList`, `LookupAsn` (one loop iteration: ARIN answer, REPLACE, pause), `WalkDone`, `Apnic` (download, then the file's REPLACEs, each of which may fail), `Finished` |
| `ActiveAsns` | The init branch of `main()` (gen-asn-stats.py 563-583) as it maintains `gen_active_asns`, against a collector that changes which ASNs are unwithdrawn | `active`, `exists`, `tbl` (ASN → old bit), `ipc` (the next statement), `inits`, `churn`, `faults`, and the histories `seeded` (ASNs of the last successful REPLACE) and `clean` | `StartInit`, `CreateSchema`, `MarkOld`, `ReplaceActive`, `DeleteOld` (each of which may fail), `Kill` (between statements), `Churn` |
| `RpkiValidator` | `main()` and `load_export` of rpki_validator.py over `NumRuns` runs | `clock`, `roas` (ROA → timestamp), `genView`, `history`, `pc`, the fetched `data`, `pending` and `sent` statements, and a history `loadOk` | `Start`, `RecordStats`, `Fetch`, `SendStatement`, `EndLoad`, `Purge`, `UpdateGenPrefix`, `Tick`, `Finished` |

Each model has an `MC*` module that gives its constants small values.

Data is abstracted to what the properties tell apart:
- An ASN is an integer (so the reserved ranges can be tested) or a model value.
- A count vector is a record of four small integers.
- A ROA is a model value standing for its primary key.
- An APNIC line is its kind, plus an attribute and a value made of a few characters. Only `A`, `S`, `#`, digits and the separators matter. The conversions are modelled by what they do: `value[2:]`, `split('#')[0]`, the `' '` and `', '` joins, and MySQL reading an unquoted asn as a number.
- An ARIN name is a model value. `RipeNames` and `ApnicNames` are the names whose `lower()` contains "ripe" or "apnic".
- SQL text and formatting are left out.
- The query results a batch gets are `Counts[asn]`, projected the way the grouped query groups them: no row for a zero count.

## 4. Runs and what they show

| Run | Expect | Checks | Shows |
|---|---|---|---|
| `pipeline` | pass | `TypeOK`, `DistinctConnections`, `BatchesInOrder`, `MergeMatchesData`, `Terminates` | No two live tasks share a connection. Each call's batches are the eligible rows in order, with 1..B per batch. After both calls, `RECORD_DICT` is exactly the query data of the dispatched ASNs, whatever the completion order. The run always reaches `UpdateDB` or the crash. |
| `pipeline_lastbatch` | violation | `AllAsnsDispatched` | The partial last batch is never sent (finding 1). |
| `pipeline_queryfail` | violation | `QueryFailureNotFatal` | A failed worker query kills the run. |
| `store` | pass | `TypeOK`, `RatioOfPredecessor`, `LatestIsCurrent`, `ImplementsSnapshotSeries` | Over runs that insert, fail or skip: every ratio is the reference ratio against the predecessor row; the newest point is the newest successful insert; ratios stay within `DECIMAL(8,5)`. Refinement: `gen_asn_stats`, read per ASN in timestamp order with `reports` = the runs whose insert carried the ASN, implements `SnapshotSeries!Spec`. Each successful report extends the series by exactly one repeat or one new point, older points never change, and failures, skips and the refresh are stutters. Because `SnapshotSeries` never appends a point equal to the newest one, the refinement also implies that no two consecutive points are equal (`NoRepeatedPoint`), so that invariant is only checked on its own in `store_notrigger`. |
| `store_stalelast` | violation | `LastStateCurrent` | A single run that writes 3 ticks after its start, against a 2-tick window, leaves `gen_asn_stats_last` without its rows (finding 3). The cfg has one run, so the trace cannot use a second run's rows instead. |
| `store_notrigger` | violation | `NoRepeatedPoint` | Without the trigger, an unchanged ASN gets a second identical point (finding 4). |
| `rpki` | pass | `TypeOK`, `BulkCoversExport`, `ExportSurvivesPurge` | Statements hold 1..MaxBulk rows and together are the export in order. A fully loaded export survives its purge. |
| `whois` | pass | `TypeOK`, `LoadMatchesRecords`, `EventuallyNamed` | The reader equals the reference split on the downloaded file and on every file of up to four lines over eight line kinds, and of up to six aut-num/descr/blank lines. Every public ASN that the APNIC file names, or that ARIN names with no apostrophe in its record, is eventually named, because a lookup that failed transiently is re-queried in the next run. The ASN with an apostrophe (11) is listed and fails again in every run, and the other ASNs still get their names. |
| `whois_ripe` | violation | `EveryPublicAsnNamed` | An ASN that ARIN refers to RIPE is never named (finding 6). |
| `whois_quote` | violation | `ArinAnswerStored` | An ASN that ARIN names, with an apostrophe in its record, is never stored (finding 5). |
| `active` | pass | `TypeOK`, `SeededKept`, `InitExact` | Three inits over ASNs that come and go, with failing schema, mark and delete statements and kills between statements. `gen_active_asns` always holds every ASN of the last successful REPLACE, so a run-mode read at any moment lists them. After an init whose statements all succeeded, the table holds exactly those ASNs, none marked old. |
| `active_replace` | violation | `SeededKept` | A failed REPLACE followed by the DELETE empties `gen_active_asns` (finding 7). |

Each property of a passing run has a mutant in `PROJECT.json`: a plausible bug in a mapped definition that TLC catches under that run's cfg. The mutants are:
- `NextCursorOffByOne`;
- `PyInsertAppend`;
- `ExtendBatchNoRestart`;
- `MergeResultZeroDefault`;
- `SlotFreeNotStarted`;
- `ChangeRatioNoClip`;
- `ChangeRatioSwapped`;
- `SameCountsNoOriginV6`;
- `BumpRepeatsNoCount` (caught by the refinement);
- `BulkFromOffByOne`;
- `BulkFromNoTail`;
- `UpsertIgnore`;
- `PausesAfterOffByOne`;
- `EndRecordKeepAddr`;
- `IsReservedAsnOffByOne`;
- `ReplaceRowsKeepBit` (an INSERT IGNORE in place of the REPLACE);
- `MarkAllOmitted`;
- `MarkAllIncrement` (the UPDATE written as `old = old + 1`).

`EventuallyNamed` and `EveryPublicAsnNamed` test reservedness with `IanaSpecial`. This is the IANA range list, written independently of the code's test, so a boundary slip in `IsReservedAsn` is caught.

### Findings

1. **The partial last batch is never sent.** `row[0] == asns[len(asns)-1]` (line 392) compares an int with a 1-tuple, so a trailing batch shorter than `batch_count` is never sent.
2. **A failed worker query kills the run.** `db.query` returns `None`, and the worker raises at line 475. Spec §4.2 says such a failure is not fatal.
3. **The refresh misses slow runs.** The refresh window is 8 minutes before `NOW()`, while rows carry the start time. A run whose bulk insert comes more than 8 minutes after it started leaves none of its rows in the window.
4. **A failed CREATE TRIGGER disables change detection.** `createTrigger` sends `DROP TRIGGER IF EXISTS` and then `CREATE TRIGGER`. An error on the create (for example, missing privileges for triggers under binary logging) is only printed, and init exits normally. Until init succeeds again:
   - every run stores each ASN as a new point with ratios 0;
   - an unchanged ASN is no longer collapsed.

   Spec §4.5 says such a row is a repeat of the newest row. A run-mode bulk insert that lands between the drop and the create of an init gets the same treatment. `TriggerInPlace = FALSE` models both cases.
5. **An apostrophe in ARIN data means the ASN is never stored.** `update_whois_db` wraps every value in single quotes and escapes none (line 435). `arin()` replaces `'` only in `remarks` (line 183). An ASN whose as_name, org name or street address contains an apostrophe gets a REPLACE that is a syntax error in every run. `queryNoResults` only prints the error, and the ASN is looked up again in each run without ever being stored. The comments of walk_whois say the database is updated whenever whois responded.
6. **RIPE referrals are never followed.** `arin()` answers `'RIPE'` for any name containing "ripe", and no RIPE source is configured. Such an ASN never gets a name, and each run asks ARIN for it again. The walk_whois docstring says the walk "follows the referral".
7. **A failed reseed empties the ASN list.** Init mode marks every row of `gen_active_asns` old, then runs the slow REPLACE. If the REPLACE fails, `main()` still sends the `DELETE ... WHERE old = 1`, so every row goes. Every run-mode invocation after that reads no ASN and skips its update until someone reruns init. Spec §6 says init seeds the table, and §7 says re-running is safe.

Observations with no run of their own. Their violation runs were retired to keep the project within 12 runs.
- gen-asn-stats filters only 23456 before dispatch (line 380). Spec §3 excludes every reserved and private ASN, as get_asn_list of the whois script does.
- The `ON UPDATE CURRENT_TIMESTAMP` column moves a repeated point to the time of the later run, contrary to spec §8's collapse and idempotence. `BumpRepeats` models this. The `store_repeat` run that showed it gave its place to `store_notrigger`.
- MySQL's `/` keeps 4 decimals, so 4/3 is stored as 1.33330 rather than the spec's 1.33333. `ChangeRatio` models this. The store's count vectors include an origin_v6 change 3 ↔ 4, so `RatioOfPredecessor` checks ±1.33330 against `RefRatio`, which rounds by truncating and looking at the remainder rather than by `Div4`'s added half.
- An ASN that no query returns a row for gets no record and no snapshot, where spec §8's scenario expects an all-zero record. `AsnPrefixCounts` models this: `MergeResult` only sees the tuples a worker returns.
- `INSERT_LAST_ASN_STATS` only REPLACEs and never deletes, so `gen_asn_stats_last` keeps ASNs that no longer report, where spec §3 says it is superseded wholesale. `RefreshedLast` models this.
- `APNIC_ATTR_MAP` maps the misspelt key `'remars'`, so APNIC `remarks:` lines are never loaded. `ApnicAttrMap` keeps the typo.
- The pacing counter counts ASNs. A named ASN costs two requests (the ASN and its org), so up to 200 HTTP requests fall between pauses. The docstring says "a delay ever 100 queries". That holds if a query means an ASN and fails if it means an HTTP request. `TypeOK` checks the counter against `MAX_REQUESTS_PER_INTERVAL`; no property counts HTTP requests.
- After a failed fetch (URLError) or a failed bulk statement, the RPKI purge deletes every ROA that was not refreshed within the hour, even if the validator still exports it. That is what the comment at line 235 says the purge does ("old entries that didn't get updated"), and no source promises that ROAs outlive an outage, so no run treats it as a disagreement.
- Both `parse_cmd_args` functions count option occurrences, not distinct options. So `-u a -u b host` passes the whois check with no password, and rpki_validator's count of 4 passes without `-s`. These parsers are not modelled (section 5).

Overlapping cron runs also break `LatestIsCurrent` (`AsnStatsStore` with `Overlap = TRUE`). No run is kept for this, because the cron period is deployment configuration.

### Bounds and why they are enough

**`pipeline`:** W = 2, B = 2, and nine eligible ASNs plus 23456.
- Four full batches make every slot get reused twice, the cursor wrap, and both `pop`/`insert` positions.
- The ninth ASN exercises the (dead) partial flush.
- The count profiles cover every column combination the merge distinguishes: origin only, transit only, both, v4 only, v6 only, none.
- 563 distinct states.

**`store`:** two ASNs (symmetric), three count vectors, three runs, and a window of 2 ticks (a tick is 4 minutes).
- The three vectors differ in one column at a time. transit_v4 3 ↔ 4000 gives a ratio beyond the `DECIMAL(8,5)` range, and origin_v6 3 ↔ 4 gives one that is rounded to 4 decimals.
- Three runs are enough for insert, repeat, change and insert again, with failures and skips in between.
- 1.0M distinct states.

**`rpki`:** three ROAs, MaxBulk = 2, exports of 3, 2 and 1 ROAs (a full plus partial statement, exactly one full, one partial), three runs, and Hour = 2 ticks.
- 1.4M distinct states in about 10 s.

**`whois`:** six ASNs, three runs, two transient faults and MaxRequests = 2. The ASNs cover every kind of ARIN answer: 64495 (named by ARIN, the last public ASN before the documentation range), 64496 (reserved), 3 (referred to RIPE), 9 (referred to APNIC, named by the file) 5 (not found) and 11 (named by ARIN, with an apostrophe in its record).
- A list of four ASNs at one or two requests each crosses the pause at both parities.
- The faults can land in any call of any run. Three runs outnumber two faults, so the re-query can succeed.
- About 20,000 distinct states in under 2 minutes. The reader check covers about 5,000 files once.

**`active`:** three ASNs (symmetric), any initial unwithdrawn set, three inits, two changes of that set, and two faults.
- Two faults are enough for a kill in one init followed by a failed mark in the next, or a failure and a kill in the same init, before a clean third init.
- With three inits, a clean init can follow a faulty one and be followed by another.
- About 2,700 distinct states.

The violation run needs two inits and one failure: the first init seeds the table, and the second one's REPLACE fails.

The store run is 1.0M states in about 2 minutes 10 seconds with the refinement.

**`store_stalelast`:** one run, RunTime = 3 and Window = 2, so the run can write after its rows have left the window.

### Fairness

Only `AsnPrefixCounts` has a liveness property. `Terminates` assumes:
- weak fairness of the main thread (the interpreter always runs it again);
- weak fairness of each live task's completion: a query on a live connection eventually returns.

The code has no timeout, so a hung query would stall the run. `PROJECT.json` lists this as a hazard that the fairness assumes away.

`GenWhois` has `EventuallyNamed`, which assumes weak fairness of the script's steps. Cron keeps starting runs, and a started run keeps executing. Transient faults are bounded by `MaxFailures`, a named assumption of the environment: ARIN, MySQL and the APNIC FTP server do not fail forever. A hung request is not in the fault model, because `requests.get` has no timeout (hazard). A REPLACE that fails on an apostrophe is not counted as a transient fault. It fails in every run for the ASNs in `Quoted`, so `EventuallyNamed` leaves those ASNs out, and `whois_quote` shows them never named.

The store models and `ActiveAsns` check safety only, so they have no fairness. Init is run by hand, so nothing obliges it to run again.

## 5. Not modelled, and the plan

**Not modelled, and out of TLC's reach or pure I/O:**
- connection setup (`connectDb`) and the environment bootstrap (sourcing `/etc/default/openbmpd`);
- the command-line parsers (`parse_cmd_args` in the whois and RPKI scripts). They are sequential and touch no shared state. Their one disagreement is listed above, and showing it would need a run of its own;
- the DDL of the snapshot tables. `ActiveAsns` folds it into one schema step. The trigger's outcome is the `AsnStatsStore` constant `TriggerInPlace`, not a step: a failed create leaves the trigger missing for every later run, and the window between the drop and the create is one run's insert in that same condition;
- the HTTP and FTP transfers;
- SQL text construction.

`dbAcccess.query` and `queryNoResults` are modelled by their outcomes (rows or `None`).

`ripe()` is not modelled: it is unreachable, because `WHOIS_SOURCES` holds only `arin`. The field-level processing of the ARIN record (address split, truncation) is abstracted to whether `as_name` is set.

**Composition.** The components are composed by their interfaces, not by a product module:
- The store takes any nonempty `RECORD_DICT` over `Choices`. `MergeMatchesData` shows that the pipeline's `RECORD_DICT` is exactly the query data of the ASNs it read, so every record the pipeline can produce is one the store is checked with.
- The pipeline reads any ASN list, and `SeededKept`/`InitExact` describe which lists `ActiveAsns` leaves.

A product of `AsnPrefixCounts` (563 states per run) and `AsnStatsStore` (1.0M states) would be out of reach within the run time. It would also check nothing the interfaces do not already cover, because no property relates a run's thread schedule to another run's snapshot.

**The kill between the bulk insert and the last-state refresh** (gen-asn-stats.py:545) is not modelled. Its only effect is a skipped refresh. That leaves `gen_asn_stats_last` behind in the same way as a run slower than the window (finding 3, `store_stalelast`), and no property that holds constrains `gen_asn_stats_last`.
