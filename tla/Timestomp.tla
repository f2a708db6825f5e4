------------------------------ MODULE Timestomp -------------------------------
(***************************************************************************)
(* The timestomp heuristic (mft-core/src/timestomp.rs, filetime.rs) and    *)
(* the scalar that answers a batch of rows with it                         *)
(* (mft-worker/src/scalar/timestomp.rs, arrow_io.rs ts_micros).            *)
(*                                                                         *)
(* A time that may be unset is << >> or <<time>>.  On disk a time is a     *)
(* FILETIME, a count of ticks since the year 1601.                         *)
(***************************************************************************)
EXTENDS Integers, Sequences

CONSTANTS
    Batches,      \* the batches of rows: sequences of pairs of MACB quads
    TICKS,        \* ticks of a microsecond (10 in the code)
    NANO,         \* nanoseconds of a microsecond (1_000)
    MILLI,        \* microseconds of a millisecond (1_000)
    SECOND,       \* microseconds of a second (1_000_000)
    FILETIME_EPOCH_UNIX_SECS    \* the year 1601, in seconds from the Unix epoch: negative

Times == {"created", "modified", "accessed", "mft_modified"}

Units == {"Second", "Millisecond", "Microsecond", "Nanosecond"}

Rows == [si : [Times -> Nat], fn : [Times -> Nat]]

ASSUME TimesAssumption ==
    /\ TICKS \in Nat \ {0} /\ NANO \in Nat \ {0} /\ MILLI \in Nat \ {0} /\ SECOND \in Nat \ {0}
    /\ FILETIME_EPOCH_UNIX_SECS \in Int /\ FILETIME_EPOCH_UNIX_SECS <= 0
    /\ Batches \subseteq Seq(Rows)

-----------------------------------------------------------------------------
(***************************************************************************)
(* fn to_micros.                                                           *)
(***************************************************************************)
\* Division that rounds towards zero.
Quotient(a, b) == IF a >= 0 THEN a \div b ELSE -((-a) \div b)

\* What a FILETIME is in ticks from the Unix epoch, as the crate decodes it.
UnixTicks(filetime) == filetime + FILETIME_EPOCH_UNIX_SECS * SECOND * TICKS

\* (mutant: an unset time is a time)
ToMicrosOfUnset(filetime) == <<Quotient(UnixTicks(filetime), TICKS)>>

ToMicros(filetime) ==
    IF Quotient(UnixTicks(filetime), SECOND * TICKS) <= FILETIME_EPOCH_UNIX_SECS
    THEN << >>
    ELSE <<Quotient(UnixTicks(filetime), TICKS)>>

Macb(quad) == [t \in Times |-> ToMicros(quad[t])]

-----------------------------------------------------------------------------
(***************************************************************************)
(* fn evaluate.                                                            *)
(***************************************************************************)
Before(a, b) == a # << >> /\ b # << >> /\ a[1] < b[1]

IsZeroSubsecond(a) == a # << >> /\ a[1] % SECOND = 0

AllFourEqual(quad) == quad.created # << >> /\ \A t \in Times : quad[t] = quad.created

\* A reason, if it applies.
When(applies, reason) == IF applies THEN <<reason>> ELSE << >>

Reasons(si, fn) ==
    When(Before(si.created, fn.created), "si-creation-before-fn-creation")
    \o When(Before(si.modified, fn.modified), "si-before-fn")
    \o When(IsZeroSubsecond(si.created) /\ IsZeroSubsecond(si.modified), "zero-subsecond")
    \o When(Before(si.created, fn.created), "fn-newer-than-si")
    \o When(AllFourEqual(si), "all-four-equal")

Has(reasons, reason) == \E i \in 1..Len(reasons) : reasons[i] = reason

Suspect(reasons) ==
    \E r \in {"si-creation-before-fn-creation", "si-before-fn", "zero-subsecond"} :
        Has(reasons, r)

\* The column is_timestomp_suspect of read_mft.
IsTimestompSuspect(row) == Suspect(Reasons(Macb(row.si), Macb(row.fn)))

-----------------------------------------------------------------------------
(***************************************************************************)
(* fn process of the scalar.  The columns hold the times of the records in *)
(* one of Arrow's units, as DuckDB casts them.                             *)
(***************************************************************************)
CastTo(unit, micros) ==
    IF micros = << >> THEN << >>
    ELSE CASE unit = "Second"      -> <<micros[1] \div SECOND>>
           [] unit = "Millisecond" -> <<micros[1] \div MILLI>>
           [] unit = "Microsecond" -> micros
           [] unit = "Nanosecond"  -> <<micros[1] * NANO>>

\* (mutant: milliseconds are taken for microseconds)
TsMicrosWithoutMilli(unit, cell) ==
    IF cell = << >> THEN << >>
    ELSE CASE unit = "Second"      -> <<cell[1] * SECOND>>
           [] unit = "Millisecond" -> cell
           [] unit = "Microsecond" -> cell
           [] unit = "Nanosecond"  -> <<Quotient(cell[1], NANO)>>

TsMicros(unit, cell) ==
    IF cell = << >> THEN << >>
    ELSE CASE unit = "Second"      -> <<cell[1] * SECOND>>
           [] unit = "Millisecond" -> <<cell[1] * MILLI>>
           [] unit = "Microsecond" -> cell
           [] unit = "Nanosecond"  -> <<Quotient(cell[1], NANO)>>

ReadQuad(unit, quad) == [t \in Times |-> TsMicros(unit, CastTo(unit, Macb(quad)[t]))]

VARIABLES
    batch,        \* the rows
    unit,         \* the unit of the columns
    suspect,      \* the column of verdicts
    reasons,      \* the reasons of all rows, one row after the other
    offsets,      \* where each row's reasons begin, and where the last row's end
    count,        \* reasons so far
    phase         \* "rows" or "done"

vars == <<batch, unit, suspect, reasons, offsets, count, phase>>

Init ==
    /\ batch \in Batches
    /\ unit \in Units
    /\ suspect = << >>
    /\ reasons = << >>
    /\ offsets = <<0>>
    /\ count = 0
    /\ phase = "rows"

\* (mutant: the offset is taken before the row is counted)
ScoreRowOffsetFirst ==
    /\ phase = "rows"
    /\ Len(suspect) < Len(batch)
    /\ LET row == batch[Len(suspect) + 1]
           rs  == Reasons(ReadQuad(unit, row.si), ReadQuad(unit, row.fn))
       IN  /\ suspect' = Append(suspect, Suspect(rs))
           /\ reasons' = reasons \o rs
           /\ count' = count + Len(rs)
           /\ offsets' = Append(offsets, count)
    /\ UNCHANGED <<batch, unit, phase>>

ScoreRow ==
    /\ phase = "rows"
    /\ Len(suspect) < Len(batch)
    /\ LET row == batch[Len(suspect) + 1]
           rs  == Reasons(ReadQuad(unit, row.si), ReadQuad(unit, row.fn))
       IN  /\ suspect' = Append(suspect, Suspect(rs))
           /\ reasons' = reasons \o rs
           /\ count' = count + Len(rs)
           /\ offsets' = Append(offsets, count')
    /\ UNCHANGED <<batch, unit, phase>>

Finish ==
    /\ phase = "rows"
    /\ Len(suspect) = Len(batch)
    /\ phase' = "done"
    /\ UNCHANGED <<batch, unit, suspect, reasons, offsets, count>>

Done == phase = "done" /\ UNCHANGED vars

Next == ScoreRow \/ Finish \/ Done

Spec == Init /\ [][Next]_vars /\ WF_vars(ScoreRow \/ Finish)

-----------------------------------------------------------------------------
(***************************************************************************)
(* Properties.                                                             *)
(***************************************************************************)
\* The reasons of row i, as a reader of the list column finds them.
ReasonsOfRow(i) == SubSeq(reasons, offsets[i] + 1, offsets[i + 1])

Scale == CASE unit = "Second" -> SECOND [] unit = "Millisecond" -> MILLI [] OTHER -> 1

\* The unit of the columns loses nothing of the times of a row.
Exact(row) ==
    \A q \in {row.si, row.fn}, t \in Times :
        ToMicros(q[t]) # << >> => ToMicros(q[t])[1] % Scale = 0

\* The list column is in step with the verdicts: a row is suspect if and only if one of
\* the reasons found at that row, not at a neighbour, is a strong one.
SuspectForOwnReasons ==
    /\ Len(offsets) = Len(suspect) + 1
    /\ offsets[Len(offsets)] = Len(reasons)
    /\ \A i \in 1..Len(suspect) : suspect[i] = Suspect(ReasonsOfRow(i))

\* timestomp(si, fn) and the flag of read_mft ("= timestomp(si, fn).suspect",
\* arrow_map.rs) agree on a record, in whatever unit the times reach the scalar.
VerdictMatchesTimeline ==
    \A i \in 1..Len(suspect) : Exact(batch[i]) => suspect[i] = IsTimestompSuspect(batch[i])

\* An accusation of the order of two times is true of the times on disk: both are set,
\* and the first is really before the second.
OrderReasonsAreTrue ==
    \A i \in 1..Len(suspect) : Exact(batch[i]) =>
        LET si == batch[i].si
            fn == batch[i].fn
        IN  /\ Has(ReasonsOfRow(i), "si-before-fn") =>
                   0 < si.modified /\ si.modified < fn.modified
            /\ Has(ReasonsOfRow(i), "si-creation-before-fn-creation") =>
                   0 < si.created /\ si.created < fn.created
=============================================================================
