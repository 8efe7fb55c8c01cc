--------------------------- MODULE AsnPrefixCounts ---------------------------
(***************************************************************************)
(* The batched parallel aggregation of gen-asn-stats.py.  main() calls     *)
(* UpdatePrefixesCounts twice over the same rows of QUERY_DISTINCT_ASNS:   *)
(* first with the origin query, then with the transit query.  Each call    *)
(* walks the rows, builds a batch of up to batch_count ASNs, and hands the *)
(* batch to a ThreadPool task on connection db_pool[i] of a round-robin    *)
(* cursor i, polling until the slot thrs[i] is empty or its task is ready; *)
(* a ready task's result is merged into RECORD_DICT before the slot is     *)
(* reused.  After the rows, the call waits on and drains every task left   *)
(* in thrs.  Worker threads only run the query (UpdatePrefixesCountsThread)*)
(* and never touch RECORD_DICT; the main thread does every merge.          *)
(***************************************************************************)
EXTENDS Integers, Sequences, SequencesExt, FiniteSets

CONSTANTS
    ASNS,         \* rows of QUERY_DISTINCT_ASNS: a sequence of 1-tuples <<asn>>
    Counts,       \* Counts[asn][column]: distinct prefixes the queries count
    W,            \* len(db_pool): connections opened by main() (20 in the code)
    B,            \* batch_count: MAX_BATCH_SELECT_ORIGIN/_TRANSIT (10 in the code)
    QueryMayFail  \* whether dbAcccess.query may return None on a mysql.Error

AsnSet == {ASNS[k][1] : k \in 1..Len(ASNS)}

Columns == {"origin_v4_prefixes", "origin_v6_prefixes",
            "transit_v4_prefixes", "transit_v6_prefixes"}

ASSUME /\ W \in Nat \ {0}
       /\ B \in Nat \ {0}
       /\ QueryMayFail \in BOOLEAN
       /\ \A j, k \in 1..Len(ASNS) : j # k => ASNS[j] # ASNS[k]
       /\ Counts \in [AsnSet -> [Columns -> Nat]]

VARIABLES
    phase,        \* which call of main() runs: "origin", "transit", then
                  \* "update" (UpdateDB is next) or "crashed" (uncaught raise)
    stage,        \* where the call is: "row" (the for loop), "dispatch"
                  \* (the `while batch > 0` poll loop) or "drain" (final join)
    pos,          \* index of the current row of `for row in asns`
    batch,        \* number of ASNs in asn_list
    asn_list,     \* the ASNs of the batch being built
    i,            \* the cursor over db_pool and thrs (0-based, as in the code)
    thrs,         \* the AsyncResult list: one record per task
    drain,        \* index of `for thr in thrs` in the final join
    RECORD_DICT,  \* asn -> the four prefix counts
    sent          \* history: the batches dispatched by each call, in order

vars == <<phase, stage, pos, batch, asn_list, i, thrs, drain, RECORD_DICT, sent>>

Passes == {"origin", "transit"}

\* The `origin` argument of the running call.
IsOrigin == phase = "origin"

V4Col(origin) == IF origin THEN "origin_v4_prefixes" ELSE "transit_v4_prefixes"
V6Col(origin) == IF origin THEN "origin_v6_prefixes" ELSE "transit_v6_prefixes"

(***************************************************************************)
(* QUERY_AS_ORIGIN_PREFIXES / QUERY_AS_TRANSIT_PREFIXES: one row           *)
(* <<asn, isIPv4, count>> per (asn, IP version) that has prefixes; an      *)
(* (asn, version) group with no prefix yields no row at all.               *)
(***************************************************************************)
QueryRows(origin, list) ==
    {<<a, 1, Counts[a][V4Col(origin)]>> : a \in {b \in ToSet(list) : Counts[b][V4Col(origin)] > 0}}
    \cup
    {<<a, 0, Counts[a][V6Col(origin)]>> : a \in {b \in ToSet(list) : Counts[b][V6Col(origin)] > 0}}

(***************************************************************************)
(* UpdatePrefixesCountsThread: fold the rows into one (asn, v4, v6) tuple  *)
(* per ASN that has a row, the missing version defaulting to 0.            *)
(***************************************************************************)
ThreadResult(rows) ==
    LET Count(a, isV4) ==
            LET match == {r \in rows : r[1] = a /\ (r[2] = 1) = isV4}
            IN IF match = {} THEN 0 ELSE (CHOOSE r \in match : TRUE)[3]
    IN {[asn |-> a, v4 |-> Count(a, TRUE), v6 |-> Count(a, FALSE)] : a \in {r[1] : r \in rows}}

ZeroRecord == [c \in Columns |-> 0]

\* Mutation variant: a merged ASN starts from zeros even when already known.
MergeResultZeroDefault(rec, res, origin) ==
    LET new == {t.asn : t \in res}
        Fill(t, old) == [old EXCEPT ![V4Col(origin)] = t.v4, ![V6Col(origin)] = t.v6]
    IN [a \in DOMAIN rec \cup new |->
          IF a \in new THEN Fill(CHOOSE t \in res : t.asn = a, ZeroRecord) ELSE rec[a]]

(***************************************************************************)
(* The merge loop of UpdatePrefixesCounts (the same code after a poll and  *)
(* in the final join): an ASN new to RECORD_DICT gets this pass's counts   *)
(* and 0 for the other pass; a known ASN has only this pass's columns      *)
(* overwritten.                                                            *)
(***************************************************************************)
MergeResult(rec, res, origin) ==
    LET new == {t.asn : t \in res}
        Fill(t, old) == [old EXCEPT ![V4Col(origin)] = t.v4, ![V6Col(origin)] = t.v6]
    IN [a \in DOMAIN rec \cup new |->
          IF a \in new
          THEN Fill(CHOOSE t \in res : t.asn = a, IF a \in DOMAIN rec THEN rec[a] ELSE ZeroRecord)
          ELSE rec[a]]

\* Mutation variant: the task always goes to the end of thrs.
PyInsertAppend(s, idx, e) == Append(s, e)

\* list.insert(i, x) with a 0-based i: an index past the end appends.
PyInsert(s, idx, e) == IF idx >= Len(s) THEN Append(s, e) ELSE InsertAt(s, idx + 1, e)

(***************************************************************************)
(* `row[0] == asns[len(asns) - 1]` compares an ASN (an int) with the last  *)
(* row (a 1-tuple).  Python 2 never finds an int equal to a tuple, so the  *)
(* test is false for every row.                                            *)
(***************************************************************************)
IsLastRow(row) == FALSE

\* Mutation variant: the wrap test compares with len(db_pool).
NextCursorOffByOne(c) == IF c < W THEN c + 1 ELSE 0

\* `i += 1` below len(db_pool) - 1, else `i = 0`.
NextCursor(c) == IF c < W - 1 THEN c + 1 ELSE 0

\* Mutation variant: the poll treats a started slot as busy even when ready.
SlotFreeNotStarted == i >= Len(thrs)

\* thrs[i] is not yet started, or its task is ready.
SlotFree == i >= Len(thrs) \/ (i < Len(thrs) /\ thrs[i + 1].ready)

NewTask == [conn |-> i, asns |-> asn_list, ready |-> FALSE, failed |-> FALSE, result |-> {}]

TypeOK ==
    /\ phase \in Passes \cup {"update", "crashed"}
    /\ stage \in {"row", "dispatch", "drain"}
    /\ pos \in 1..Len(ASNS) + 1
    /\ batch \in 0..B
    /\ asn_list \in Seq(AsnSet)
    /\ i \in 0..W - 1
    /\ thrs \in Seq([conn : 0..W - 1, asns : Seq(AsnSet), ready : BOOLEAN,
                     failed : BOOLEAN, result : SUBSET [asn : AsnSet, v4 : Nat, v6 : Nat]])
    /\ drain \in 1..W + 1
    /\ DOMAIN RECORD_DICT \subseteq AsnSet
    /\ \A a \in DOMAIN RECORD_DICT : RECORD_DICT[a] \in [Columns -> Nat]
    /\ sent \in [Passes -> Seq(Seq(AsnSet))]

Init ==
    /\ phase = "origin"
    /\ stage = "row"
    /\ pos = 1
    /\ batch = 0
    /\ asn_list = <<>>
    /\ i = 0
    /\ thrs = <<>>
    /\ drain = 1
    /\ RECORD_DICT = [a \in {} |-> ZeroRecord]
    /\ sent = [p \in Passes |-> <<>>]

-----------------------------------------------------------------------------
(* Main thread: the loop over the rows.                                     *)

\* `if int(row[0]) == 23456: continue`
SkipReserved ==
    /\ phase \in Passes /\ stage = "row" /\ pos <= Len(ASNS)
    /\ ASNS[pos][1] = 23456
    /\ pos' = pos + 1
    /\ UNCHANGED <<phase, stage, batch, asn_list, i, thrs, drain, RECORD_DICT, sent>>

\* Mutation variant: asn_list is never restarted after a dispatch.
ExtendBatchNoRestart(list, n, asn) == IF n >= B THEN list ELSE Append(list, asn)

\* `asn_list` grows by one ASN while batch < batch_count; batch 0 restarts it.
ExtendBatch(list, n, asn) ==
    IF n >= B THEN list
    ELSE IF n > 0 THEN Append(list, asn) ELSE <<asn>>

\* Add the row's ASN to the batch, then enter the poll loop if the batch is
\* full or the row is the last one.
AddToBatch ==
    /\ phase \in Passes /\ stage = "row" /\ pos <= Len(ASNS)
    /\ ASNS[pos][1] # 23456
    /\ batch' = IF batch < B THEN batch + 1 ELSE batch
    /\ asn_list' = ExtendBatch(asn_list, batch, ASNS[pos][1])
    /\ IF batch' >= B \/ IsLastRow(ASNS[pos])
       THEN stage' = "dispatch" /\ pos' = pos
       ELSE stage' = "row" /\ pos' = pos + 1
    /\ UNCHANGED <<phase, i, thrs, drain, RECORD_DICT, sent>>

\* One turn of the poll loop that finds thrs[i] busy: advance the cursor.
PollBusy ==
    /\ phase \in Passes /\ stage = "dispatch"
    /\ ~SlotFree
    /\ i' = NextCursor(i)
    /\ UNCHANGED <<phase, stage, pos, batch, asn_list, thrs, drain, RECORD_DICT, sent>>

\* The poll loop finds slot i never used: start the task on db_pool[i];
\* batch = 0 ends the poll loop and the for loop moves to the next row.
StartTask ==
    /\ phase \in Passes /\ stage = "dispatch"
    /\ SlotFree /\ i >= Len(thrs)
    /\ thrs' = PyInsert(thrs, i, NewTask)
    /\ batch' = 0
    /\ i' = NextCursor(i)
    /\ stage' = "row" /\ pos' = pos + 1
    /\ sent' = [sent EXCEPT ![phase] = Append(@, asn_list)]
    /\ UNCHANGED <<phase, asn_list, drain, RECORD_DICT>>

\* The poll loop finds thrs[i] ready: merge its result, pop it, and start
\* the new task in its place.
ReuseSlot ==
    /\ phase \in Passes /\ stage = "dispatch"
    /\ SlotFree /\ i < Len(thrs) /\ thrs[i + 1].ready /\ ~thrs[i + 1].failed
    /\ RECORD_DICT' = MergeResult(RECORD_DICT, thrs[i + 1].result, IsOrigin)
    /\ thrs' = PyInsert(RemoveAt(thrs, i + 1), i, NewTask)
    /\ batch' = 0
    /\ i' = NextCursor(i)
    /\ stage' = "row" /\ pos' = pos + 1
    /\ sent' = [sent EXCEPT ![phase] = Append(@, asn_list)]
    /\ UNCHANGED <<phase, asn_list, drain>>

\* thrs[i].get() re-raises the worker's TypeError: main() dies.
ReuseSlotRaises ==
    /\ phase \in Passes /\ stage = "dispatch"
    /\ SlotFree /\ i < Len(thrs) /\ thrs[i + 1].ready /\ thrs[i + 1].failed
    /\ phase' = "crashed"
    /\ UNCHANGED <<stage, pos, batch, asn_list, i, thrs, drain, RECORD_DICT, sent>>

\* The for loop is exhausted: go to the final join.
EndOfRows ==
    /\ phase \in Passes /\ stage = "row" /\ pos > Len(ASNS)
    /\ stage' = "drain"
    /\ UNCHANGED <<phase, pos, batch, asn_list, i, thrs, drain, RECORD_DICT, sent>>

\* `thr.wait()` then merge `thr.get()`.
DrainTask ==
    /\ phase \in Passes /\ stage = "drain" /\ drain <= Len(thrs)
    /\ thrs[drain].ready /\ ~thrs[drain].failed
    /\ RECORD_DICT' = MergeResult(RECORD_DICT, thrs[drain].result, IsOrigin)
    /\ drain' = drain + 1
    /\ UNCHANGED <<phase, stage, pos, batch, asn_list, i, thrs, sent>>

\* `thr.get()` re-raises the worker's TypeError: main() dies.
DrainRaises ==
    /\ phase \in Passes /\ stage = "drain" /\ drain <= Len(thrs)
    /\ thrs[drain].ready /\ thrs[drain].failed
    /\ phase' = "crashed"
    /\ UNCHANGED <<stage, pos, batch, asn_list, i, thrs, drain, RECORD_DICT, sent>>

\* UpdatePrefixesCounts returns; main() makes the transit call with fresh
\* locals, or goes on to close the pool and call UpdateDB.
EndPass ==
    /\ phase \in Passes /\ stage = "drain" /\ drain > Len(thrs)
    /\ phase' = IF phase = "origin" THEN "transit" ELSE "update"
    /\ stage' = "row" /\ pos' = 1 /\ batch' = 0 /\ asn_list' = <<>>
    /\ i' = 0 /\ thrs' = <<>> /\ drain' = 1
    /\ UNCHANGED <<RECORD_DICT, sent>>

-----------------------------------------------------------------------------
(* Worker threads.                                                          *)

\* Whether dbAcccess.query fails: it catches mysql.Error and returns None.
QueryFails == IF QueryMayFail THEN BOOLEAN ELSE {FALSE}

\* UpdatePrefixesCountsThread runs the query of task k on its connection;
\* on None, `for row in rows` raises TypeError.
Complete(k) ==
    /\ phase \in Passes
    /\ ~thrs[k].ready
    /\ \E failed \in QueryFails :
         thrs' = [thrs EXCEPT
                    ![k].ready = TRUE,
                    ![k].failed = failed,
                    ![k].result = IF failed THEN {}
                                  ELSE ThreadResult(QueryRows(IsOrigin, thrs[k].asns))]
    /\ UNCHANGED <<phase, stage, pos, batch, asn_list, i, drain, RECORD_DICT, sent>>

\* The aggregation is over: UpdateDB (or the exit) follows.
Finished ==
    /\ phase \in {"update", "crashed"}
    /\ UNCHANGED vars

MainStep ==
    \/ SkipReserved \/ AddToBatch \/ PollBusy \/ StartTask \/ ReuseSlot
    \/ ReuseSlotRaises \/ EndOfRows \/ DrainTask \/ DrainRaises \/ EndPass

Next ==
    \/ MainStep
    \/ \E k \in 1..Len(thrs) : Complete(k)
    \/ Finished

(***************************************************************************)
(* The main thread always gets the interpreter back, and a query on a live *)
(* connection eventually returns (the code has no timeout: a hung query    *)
(* would stall its slot and the final join forever).                       *)
(***************************************************************************)
Fairness ==
    /\ WF_vars(MainStep)
    /\ \A k \in 1..W : WF_vars(k <= Len(thrs) /\ Complete(k))

Spec == Init /\ [][Next]_vars /\ Fairness

-----------------------------------------------------------------------------
(* Properties.                                                              *)

AsnSeq == [k \in 1..Len(ASNS) |-> ASNS[k][1]]

\* The rows the for loop does not `continue` past.
Eligible == SelectSeq(AsnSeq, LAMBDA a : a # 23456)

\* The ASNs a call has handed to worker tasks.
Dispatched(p) == ToSet(FlattenSeq(sent[p]))

OriginColumns == {"origin_v4_prefixes", "origin_v6_prefixes"}

\* What RECORD_DICT must hold once both calls returned: every dispatched ASN
\* that a query has rows for, with the counts of the passes that sent it.
Expected ==
    LET HasRows(a, origin) == Counts[a][V4Col(origin)] + Counts[a][V6Col(origin)] > 0
        SentIn(a, c) == a \in Dispatched(IF c \in OriginColumns THEN "origin" ELSE "transit")
    IN [a \in {b \in Dispatched("origin") : HasRows(b, TRUE)}
                \cup {b \in Dispatched("transit") : HasRows(b, FALSE)} |->
          [c \in Columns |-> IF SentIn(a, c) THEN Counts[a][c] ELSE 0]]

(***************************************************************************)
(* No two tasks in thrs ever hold the same db_pool connection.  A dbAcccess *)
(* object owns one cursor; two tasks on it would interleave their          *)
(* execute/fetchall.  This rests on thrs[i] always being the task started  *)
(* on db_pool[i], which the pop(i)/insert(i) pair and the cursor wrap      *)
(* maintain together.                                                      *)
(***************************************************************************)
DistinctConnections ==
    \A j, k \in 1..Len(thrs) : j # k => thrs[j].conn # thrs[k].conn

(***************************************************************************)
(* Each call of UpdatePrefixesCounts sends batches of 1..batch_count ASNs  *)
(* which, read one after the other, are the non-23456 rows in input order  *)
(* from the first row on: no ASN is sent twice, reordered, or skipped      *)
(* ahead of the last one sent (the asn_list restart when batch is 0).      *)
(***************************************************************************)
BatchesInOrder ==
    \A p \in Passes :
        /\ \A k \in 1..Len(sent[p]) : Len(sent[p][k]) \in 1..B
        /\ IsPrefix(FlattenSeq(sent[p]), Eligible)

(***************************************************************************)
(* When both calls have returned, RECORD_DICT holds exactly the counts the *)
(* queries return for the dispatched ASNs, whatever order the tasks        *)
(* completed and were collected in (after a poll or in the final join):    *)
(* the transit pass never clobbers origin columns, no ready task is lost.  *)
(***************************************************************************)
MergeMatchesData == phase = "update" => RECORD_DICT = Expected

(***************************************************************************)
(* The run always gets past both calls, to UpdateDB or to the exit: the    *)
(* poll loop never spins forever and the final join ends.                  *)
(***************************************************************************)
Terminates == <>(phase \in {"update", "crashed"})

-----------------------------------------------------------------------------
(* What the spec says of the code, checked by runs that expect a violation. *)

(***************************************************************************)
(* Spec 4.1 and 8: every non-reserved ASN appears in exactly one batch;    *)
(* the last row always flushes the partial batch.                          *)
(***************************************************************************)
AllAsnsDispatched ==
    phase = "update" => \A p \in Passes : FlattenSeq(sent[p]) = Eligible

(***************************************************************************)
(* Spec 4.2: a query failure on a worker yields an empty result for that   *)
(* batch and is not fatal to the run.                                      *)
(***************************************************************************)
QueryFailureNotFatal == phase # "crashed"

=============================================================================
