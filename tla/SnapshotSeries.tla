---------------------------- MODULE SnapshotSeries ----------------------------
(***************************************************************************)
(* What the snapshot table promises, per ASN: a time series of points,     *)
(* each the four prefix counts of a run and the number of later runs that *)
(* reported the same counts.  A run that records counts for some ASNs      *)
(* extends each of their series: a repeat of the newest point is counted   *)
(* on it, a change starts a new point.  Earlier points never change.       *)
(***************************************************************************)
EXTENDS Naturals, Sequences

CONSTANTS Asns, Choices

VARIABLES
    series,   \* asn -> sequence of [counts, repeats], oldest first
    reports   \* asn -> the runs that recorded counts for it

TypeOK == series \in [Asns -> Seq([counts : Choices, repeats : Nat])] /\ reports \in [Asns -> Nat]

Init == series = [a \in Asns |-> <<>>] /\ reports = [a \in Asns |-> 0]

\* One run's counts c for an ASN whose series is s.
Extend(s, c) ==
    IF s # <<>> /\ s[Len(s)].counts = c
    THEN [s EXCEPT ![Len(s)].repeats = @ + 1]
    ELSE Append(s, [counts |-> c, repeats |-> 0])

\* A run records counts for some ASNs: exactly their series are extended,
\* each once.
Snapshot ==
    LET old == series
        new == series'
    IN \A a \in Asns :
         \/ reports'[a] = reports[a] /\ new[a] = old[a]
         \/ reports'[a] = reports[a] + 1 /\ \E c \in Choices : new[a] = Extend(old[a], c)

Spec == Init /\ [][Snapshot]_<<series, reports>>

=============================================================================
