----------------------------- MODULE ActiveAsns -----------------------------
(***************************************************************************)
(* The "init" mode of gen-asn-stats.py, as it maintains gen_active_asns,   *)
(* the list of ASNs that every later run-mode invocation reads with        *)
(* QUERY_DISTINCT_ASNS.  main() sends, one after the other and each one    *)
(* committed on its own (autocommit):                                      *)
(*   CREATE TABLE IF NOT EXISTS gen_active_asns (the schema statements)    *)
(*   UPDATE gen_active_asns SET old = 1                                    *)
(*   REPLACE INTO gen_active_asns (asn,old)                                *)
(*       SELECT distinct asn,0 from as_path_analysis where isWithdrawn=False*)
(*   DELETE from gen_active_asns WHERE old = 1                             *)
(* createTable returns False and queryNoResults returns None on a          *)
(* mysql.Error; main() ignores both and sends the next statement.  The     *)
(* process may also be killed between two statements (the REPLACE is slow *)
(* and init is run by hand).  Meanwhile the collector keeps changing which *)
(* ASNs as_path_analysis holds unwithdrawn.                                *)
(***************************************************************************)
EXTENDS Naturals, FiniteSets

CONSTANTS
    Asns,               \* ASNs that may appear in as_path_analysis
    NumInits,           \* invocations of the script with argument "init"
    MaxChurn,           \* changes of the unwithdrawn ASN set modelled
    MaxFaults,          \* failed statements plus kills modelled
    FailingStatements   \* the statements that may raise a mysql.Error

Statements == {"create", "mark", "replace", "delete"}

ASSUME /\ NumInits \in Nat /\ MaxChurn \in Nat /\ MaxFaults \in Nat
       /\ FailingStatements \subseteq Statements

VARIABLES
    active,     \* ASNs with an unwithdrawn row in as_path_analysis
    exists,     \* whether gen_active_asns has been created
    tbl,        \* gen_active_asns: asn -> the old bit
    ipc,        \* the init process: "idle" or the next statement to send
    inits,      \* init invocations started
    churn,      \* changes of `active` so far
    faults,     \* failed statements and kills so far
    seeded,     \* history: the ASNs the last successful REPLACE selected
    clean       \* history: every statement of the current (or last) init succeeded

vars == <<active, exists, tbl, ipc, inits, churn, faults, seeded, clean>>

\* queryNoResults or createTable either succeeds or fails (mysql.Error).
Outcomes(s) == IF s \in FailingStatements /\ faults < MaxFaults THEN BOOLEAN ELSE {TRUE}

Faulted(ok) == faults' = IF ok THEN faults ELSE faults + 1

\* Mutation variant: the UPDATE that marks the rows is left out.
MarkAllOmitted(t) == t

\* Mutation variant: the UPDATE written as SET old = old + 1.
MarkAllIncrement(t) == [a \in DOMAIN t |-> t[a] + 1]

\* UPDATE gen_active_asns SET old = 1
MarkAll(t) == [a \in DOMAIN t |-> 1]

\* Mutation variant: the rows are inserted with INSERT IGNORE, so a row that
\* is already present keeps its old bit.
ReplaceRowsKeepBit(t, A) == [a \in DOMAIN t \cup A |-> IF a \in DOMAIN t THEN t[a] ELSE 0]

\* REPLACE ... SELECT distinct asn,0: a row with the same key is deleted
\* and inserted again, so every selected ASN ends with old = 0.
ReplaceRows(t, A) == [a \in DOMAIN t \cup A |-> IF a \in A THEN 0 ELSE t[a]]

\* DELETE from gen_active_asns WHERE old = 1
DeleteMarked(t) == [a \in {b \in DOMAIN t : t[b] = 0} |-> 0]

TypeOK ==
    /\ active \subseteq Asns
    /\ exists \in BOOLEAN
    /\ DOMAIN tbl \subseteq Asns /\ \A a \in DOMAIN tbl : tbl[a] \in {0, 1}
    /\ ipc \in {"idle"} \cup Statements
    /\ inits \in 0..NumInits
    /\ churn \in 0..MaxChurn
    /\ faults \in 0..MaxFaults
    /\ seeded \subseteq Asns
    /\ clean \in BOOLEAN

\* Before the first init the table does not exist; the collector may
\* already hold any set of ASNs.
Init ==
    /\ active \in SUBSET Asns
    /\ exists = FALSE
    /\ tbl = [a \in {} |-> 0]
    /\ ipc = "idle"
    /\ inits = 0 /\ churn = 0 /\ faults = 0
    /\ seeded = {}
    /\ clean = FALSE

-----------------------------------------------------------------------------

\* `gen-asn-stats.py init`
StartInit ==
    /\ ipc = "idle" /\ inits < NumInits
    /\ ipc' = "create" /\ inits' = inits + 1 /\ clean' = TRUE
    /\ UNCHANGED <<active, exists, tbl, churn, faults, seeded>>

\* The createTable/createTrigger calls; only CREATE TABLE IF NOT EXISTS
\* gen_active_asns (dropIfExists False) touches this table.
CreateSchema ==
    /\ ipc = "create"
    /\ \E ok \in Outcomes("create") :
         /\ exists' = (exists \/ ok)
         /\ clean' = (clean /\ ok)
         /\ Faulted(ok)
    /\ ipc' = "mark"
    /\ UNCHANGED <<active, tbl, inits, churn, seeded>>

\* A statement on a table that does not exist fails as well.
MarkOld ==
    /\ ipc = "mark"
    /\ \E ok \in Outcomes("mark") :
         /\ tbl' = IF ok /\ exists THEN MarkAll(tbl) ELSE tbl
         /\ clean' = (clean /\ ok /\ exists)
         /\ Faulted(ok)
    /\ ipc' = "replace"
    /\ UNCHANGED <<active, exists, inits, churn, seeded>>

\* INSERT_DISTINCT_ASNS reads the unwithdrawn ASNs at the moment it runs.
ReplaceActive ==
    /\ ipc = "replace"
    /\ \E ok \in Outcomes("replace") :
         /\ tbl' = IF ok /\ exists THEN ReplaceRows(tbl, active) ELSE tbl
         /\ seeded' = IF ok /\ exists THEN active ELSE seeded
         /\ clean' = (clean /\ ok /\ exists)
         /\ Faulted(ok)
    /\ ipc' = "delete"
    /\ UNCHANGED <<active, exists, inits, churn>>

\* The last statement; main() then prints DONE and closes the connection.
DeleteOld ==
    /\ ipc = "delete"
    /\ \E ok \in Outcomes("delete") :
         /\ tbl' = IF ok /\ exists THEN DeleteMarked(tbl) ELSE tbl
         /\ clean' = (clean /\ ok /\ exists)
         /\ Faulted(ok)
    /\ ipc' = "idle"
    /\ UNCHANGED <<active, exists, inits, churn, seeded>>

\* The process dies between two statements; those sent are committed.
Kill ==
    /\ ipc # "idle" /\ faults < MaxFaults
    /\ ipc' = "idle" /\ clean' = FALSE /\ faults' = faults + 1
    /\ UNCHANGED <<active, exists, tbl, inits, churn, seeded>>

\* The collector withdraws the last route of an ASN or announces a new one.
Churn ==
    /\ churn < MaxChurn
    /\ \E a \in Asns : active' = (active \ {a}) \cup ({a} \ active)
    /\ churn' = churn + 1
    /\ UNCHANGED <<exists, tbl, ipc, inits, faults, seeded, clean>>

Finished ==
    /\ ipc = "idle" /\ inits = NumInits
    /\ UNCHANGED vars

Next ==
    \/ StartInit \/ CreateSchema \/ MarkOld \/ ReplaceActive \/ DeleteOld
    \/ Kill \/ Churn \/ Finished

Spec == Init /\ [][Next]_vars

-----------------------------------------------------------------------------
(* Properties.                                                              *)

(***************************************************************************)
(* Every ASN that the last successful REPLACE selected is in               *)
(* gen_active_asns in every state, so a run-mode QUERY_DISTINCT_ASNS sent  *)
(* at any moment of a later init, failed or killed, still lists it: the    *)
(* DELETE of a later init only removes rows that its REPLACE did not       *)
(* reset.                                                                  *)
(***************************************************************************)
SeededKept == seeded \subseteq DOMAIN tbl

(***************************************************************************)
(* After an init whose statements all succeeded, gen_active_asns holds     *)
(* exactly the ASNs its REPLACE selected, all with old = 0: no ASN         *)
(* withdrawn before it and no mark left by an earlier killed or failed     *)
(* init survives.                                                          *)
(***************************************************************************)
InitExact ==
    ipc = "idle" /\ clean =>
        /\ DOMAIN tbl = seeded
        /\ \A a \in DOMAIN tbl : tbl[a] = 0

=============================================================================
