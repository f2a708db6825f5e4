---------------------------- MODULE StructScalars -----------------------------
(***************************************************************************)
(* The three scalars that answer with a struct, asked of the same rows:    *)
(* record_header and well_formed (mft-worker/src/scalar), whose structs    *)
(* have flat fields, and mft_record, which is RecordColumns.  Each call    *)
(* goes through the batch on its own, and puts a value or a NULL into one  *)
(* builder for each field and one for the struct's validity.               *)
(***************************************************************************)
EXTENDS RecordColumns

CONSTANTS
    HeaderOf,     \* mft_core::record_header: << >>, or <<the fields of a header>>
    ProbeOf       \* mft_core::well_formed: the fields of a verdict

HeaderFields ==
    {"signature", "sequence", "in_use", "is_dir", "base_ref", "lsn", "used_size",
     "allocated_size"}

ProbeFields == {"ok", "error", "kind"}

\* The fields of the two structs; how the answers to one slot agree is said of the decoder
\* (VerdictMatchesRecord in SlotScan).
ASSUME ProbesAssumption ==
    \A b \in Blobs, e \in Entries :
        LET header == HeaderOf[<<b, e>>]
            probe == ProbeOf[<<b, e>>]
        IN  /\ header = << >> \/ (header = <<header[1]>> /\ DOMAIN header[1] = HeaderFields)
            /\ DOMAIN probe = ProbeFields

VARIABLES
    call,         \* "record_header", "well_formed", "mft_record" or "done"
    turn,         \* rows that the call has gone through, if it is one of the first two
    headers,      \* the builders of record_header
    probes        \* the builders of well_formed

flatVars == <<call, turn, headers, probes>>

structVars == <<vars, flatVars>>

FlatColumns(fields) == [values |-> [f \in fields |-> << >>], validity |-> << >>]

StructInit ==
    /\ Init
    /\ call = "record_header"
    /\ turn = 0
    /\ headers = FlatColumns(HeaderFields)
    /\ probes = FlatColumns(ProbeFields)

-----------------------------------------------------------------------------
HasArguments(cells) == cells.blob # << >> /\ cells.entry # << >>

\* What record_header puts into its builders for a row: << >>, or a value for each field.
HeaderAnswer(cells) ==
    IF ~HasArguments(cells) THEN << >>
    ELSE LET header == HeaderOf[<<cells.blob[1], cells.entry[1]>>]
         IN  IF header = << >> THEN << >> ELSE <<[f \in HeaderFields |-> <<header[1][f]>>]>>

\* The same for well_formed, which answers every row that has arguments.
ProbeAnswer(cells) ==
    IF ~HasArguments(cells) THEN << >>
    ELSE LET probe == ProbeOf[<<cells.blob[1], cells.entry[1]>>]
         IN  <<[ok |-> <<probe.ok>>, error |-> probe.error, kind |-> <<probe.kind>>]>>

\* (mutant: a NULL takes no place where a value may be missing anyway)
PushFlatUnlessNull(column, answer) ==
    [values   |-> [f \in DOMAIN column.values |->
                      IF answer = << >> THEN column.values[f]
                      ELSE Append(column.values[f], answer[1][f])],
     validity |-> Append(column.validity, answer # << >>)]

\* append_value, append_option or append_null, and the validity.
PushFlat(column, answer) ==
    [values   |-> [f \in DOMAIN column.values |->
                      Append(column.values[f], IF answer = << >> THEN << >> ELSE answer[1][f])],
     validity |-> Append(column.validity, answer # << >>)]

HeaderRow ==
    /\ call = "record_header"
    /\ turn < Len(batch)
    /\ headers' = PushFlat(headers, HeaderAnswer(batch[turn + 1]))
    /\ turn' = turn + 1
    /\ UNCHANGED <<vars, call, probes>>

\* The array is assembled and returned; the next call begins.
HeadersDone ==
    /\ call = "record_header"
    /\ turn = Len(batch)
    /\ call' = "well_formed"
    /\ turn' = 0
    /\ UNCHANGED <<vars, headers, probes>>

ProbeRow ==
    /\ call = "well_formed"
    /\ turn < Len(batch)
    /\ probes' = PushFlat(probes, ProbeAnswer(batch[turn + 1]))
    /\ turn' = turn + 1
    /\ UNCHANGED <<vars, call, headers>>

ProbesDone ==
    /\ call = "well_formed"
    /\ turn = Len(batch)
    /\ call' = "mft_record"
    /\ UNCHANGED <<vars, turn, headers, probes>>

RecordStep == call = "mft_record" /\ Step /\ UNCHANGED flatVars

RecordsDone ==
    /\ call = "mft_record"
    /\ phase = "done"
    /\ call' = "done"
    /\ UNCHANGED <<vars, turn, headers, probes>>

Answered == call = "done" /\ UNCHANGED structVars

StructStep ==
    HeaderRow \/ HeadersDone \/ ProbeRow \/ ProbesDone \/ RecordStep \/ RecordsDone

StructNext == StructStep \/ Answered

\* Sequential code: it keeps running until it returns.
StructSpec == StructInit /\ [][StructNext]_structVars /\ WF_structVars(StructStep)

-----------------------------------------------------------------------------
\* What an Arrow reader makes of flat columns at a row.
ReadFlat(column, i) ==
    IF column.validity[i] THEN <<[f \in DOMAIN column.values |-> column.values[f][i]]>>
    ELSE << >>

\* The rows that record_header and well_formed have gone through.
HeaderRows == IF call = "record_header" THEN turn ELSE Len(batch)

ProbeRows ==
    CASE call = "record_header" -> 0
      [] call = "well_formed"   -> turn
      [] OTHER                  -> Len(batch)

IsFlat(column, fields, n) ==
    /\ DOMAIN column.values = fields
    /\ Len(column.validity) = n
    /\ \A f \in fields : Len(column.values[f]) = n

\* Types.  StructArray::new panics, and the whole batch is lost, unless every builder, those
\* of mft_record included, has one value or NULL for each row gone through.
BuildersAreShaped ==
    /\ TypeOK
    /\ WellShaped
    /\ IsFlat(headers, HeaderFields, HeaderRows)
    /\ IsFlat(probes, ProbeFields, ProbeRows)

\* The rows that are in the builders read as what their own cells ask for, whatever NULLs
\* came before them: the header, the verdict or the record of that entry of that blob.
RowsAnswered ==
    /\ ReadsBack
    /\ AnswersEveryRow
    /\ \A i \in 1..HeaderRows :
          LET cells == batch[i]
              h == HeaderOf[<<cells.blob[1], cells.entry[1]>>]
          IN  ReadFlat(headers, i) =
                IF cells.blob = << >> \/ cells.entry = << >> \/ h = << >> THEN << >>
                ELSE <<[f \in HeaderFields |-> <<h[1][f]>>]>>
    /\ \A i \in 1..ProbeRows :
          LET cells == batch[i]
              p == ProbeOf[<<cells.blob[1], cells.entry[1]>>]
          IN  ReadFlat(probes, i) =
                IF cells.blob = << >> \/ cells.entry = << >> THEN << >>
                ELSE <<[ok |-> <<p.ok>>, error |-> p.error, kind |-> <<p.kind>>]>>
=============================================================================
