------------------------------ MODULE Timeline ------------------------------
(***************************************************************************)
(* What read_mft promises the query that calls it, with no word on how:    *)
(* the rows of the sources arrive in order (by source, then by entry, then *)
(* by stream), batch by batch, never half of a record's rows, no row twice *)
(* and none left out; the scan is declared over only when all are there.   *)
(* A scan may also fail, and then what arrived is still such a beginning.  *)
(***************************************************************************)
EXTENDS Naturals, Sequences

VARIABLES
    expected,     \* the rows the sources hold; fixed
    received,     \* the rows that have arrived
    status        \* "running", "done" or "failed"

vars == <<expected, received, status>>

SameRecord(r, q) == r.src = q.src /\ r.entry = q.entry

Before(r, q) ==
    \/ r.src < q.src
    \/ r.src = q.src /\ r.entry < q.entry
    \/ SameRecord(r, q) /\ r.stream < q.stream

\* Rows in timeline order; in particular no row is there twice.
Ordered(rows) == \A i, j \in 1..Len(rows) : i < j => Before(rows[i], rows[j])

\* An initial part of the timeline, cut between two records.
IsBeginning(rows) ==
    /\ \A i \in 1..Len(rows) : rows[i] \in expected
    /\ Ordered(rows)
    /\ \A i \in 1..Len(rows) : \A r \in expected :
          SameRecord(r, rows[i]) \/ Before(r, rows[i]) => \E j \in 1..Len(rows) : rows[j] = r

\* Every row has arrived.
IsComplete(rows) == \A r \in expected : \E i \in 1..Len(rows) : rows[i] = r

Init ==
    /\ received = << >>
    /\ status = "running"

\* A batch arrives: at least one row, after the ones already there.
Deliver ==
    /\ status = "running"
    /\ Len(received') > Len(received)
    /\ \A i \in 1..Len(received) : received'[i] = received[i]
    /\ IsBeginning(received')
    /\ UNCHANGED <<expected, status>>

Finish ==
    /\ status = "running"
    /\ IsComplete(received)
    /\ status' = "done"
    /\ UNCHANGED <<expected, received>>

Fail ==
    /\ status = "running"
    /\ status' = "failed"
    /\ UNCHANGED <<expected, received>>

Next == Deliver \/ Finish \/ Fail

Spec == Init /\ [][Next]_vars
=============================================================================
