---------------------------- MODULE RecordColumns -----------------------------
(***************************************************************************)
(* The scalars that answer a batch of rows with a column of structs        *)
(* (mft-worker/src/scalar/mft_record.rs with arrow_map.rs                  *)
(* build_mft_record_array).  The structs are taken apart into columns: the *)
(* header fields, one child column for each struct that may be missing,    *)
(* and one list column for each list, whose items of all rows lie one      *)
(* after the other and are told apart by offsets.                          *)
(*                                                                         *)
(* A value that may be missing is << >> or <<value>>.                      *)
(***************************************************************************)
EXTENDS Integers, Sequences

CONSTANTS
    Blobs,        \* the contents of the blob column
    Entries,      \* the contents of the entry column
    Children,     \* the names of the struct children: si and data
    Lists,        \* the names of the lists: fn, ads and attributes
    Header,       \* values of the header fields of a record
    NoHeader,     \* what stands there for a missing record: zero and FALSE
    Child,        \* values of a struct child
    Item,         \* items of a list
    MAX_ROWS,     \* rows of a batch
    DecodeOne     \* decode_one: << >> for an error, else <<what the slot holds>>

Option(S) == {<< >>} \cup {<<v>> : v \in S}

\* A decoded record, as far as it has columns.
IsRecord(r) ==
    /\ r.header \in Header
    /\ r.child \in [Children -> Option(Child)]
    /\ r.list \in [Lists -> Seq(Item)]

IsDecoded(d) ==
    \/ d = << >>                                     \* the blob is no $MFT at all
    \/ d = << << >> >>                               \* an empty slot
    \/ d = << <<d[1][1]>> >> /\ IsRecord(d[1][1])

ASSUME ColumnsAssumption ==
    /\ MAX_ROWS \in Nat
    /\ NoHeader \in Header
    /\ \A b \in Blobs, e \in Entries : IsDecoded(DecodeOne[<<b, e>>])

VARIABLES
    batch,        \* the rows: a blob and an entry, either of which may be NULL
    records,      \* what the rows have been decoded to
    columns,      \* the builders
    row,          \* rows that have been put into the columns
    phase         \* "decode", "build" or "done"

vars == <<batch, records, columns, row, phase>>

EmptyList == [values |-> << >>, offsets |-> <<0>>, validity |-> << >>]

EmptyColumns ==
    [header   |-> << >>,
     validity |-> << >>,
     child    |-> [c \in Children |-> [values |-> << >>, validity |-> << >>]],
     list     |-> [l \in Lists |-> EmptyList]]

Cells == [blob : Option(Blobs), entry : Option(Entries)]

Batches == UNION {[1..n -> Cells] : n \in 0..MAX_ROWS}

Init ==
    /\ batch \in Batches
    /\ records = << >>
    /\ columns = EmptyColumns
    /\ row = 0
    /\ phase = "decode"

-----------------------------------------------------------------------------
(***************************************************************************)
(* fn process: every row is decoded on its own.                            *)
(***************************************************************************)
\* The `.ok().flatten()`: an error is a missing record.
Flatten(decoded) == IF decoded = << >> THEN << >> ELSE decoded[1]

Decoded(cells) ==
    IF cells.blob # << >> /\ cells.entry # << >>
    THEN Flatten(DecodeOne[<<cells.blob[1], cells.entry[1]>>])
    ELSE << >>

DecodeRow ==
    /\ phase = "decode"
    /\ Len(records) < Len(batch)
    /\ records' = Append(records, Decoded(batch[Len(records) + 1]))
    /\ UNCHANGED <<batch, columns, row, phase>>

StartBuild ==
    /\ phase = "decode"
    /\ Len(records) = Len(batch)
    /\ phase' = "build"
    /\ UNCHANGED <<batch, records, columns, row>>

-----------------------------------------------------------------------------
(***************************************************************************)
(* fn build_mft_record_array.                                              *)
(***************************************************************************)
\* fn push_si and fn push_data, with the validity of the row.
PushChild(column, value) ==
    [values   |-> Append(column.values, value),
     validity |-> Append(column.validity, value # << >>)]

\* (mutant: the row's end is taken before its items are pushed)
PushListOffsetFirst(column, items, valid) ==
    [values   |-> column.values \o items,
     offsets  |-> Append(column.offsets, Len(column.values)),
     validity |-> Append(column.validity, valid)]

\* The items of a row, then the offset at which they end (FnFlat, AdsFlat, AttrFlat).
PushList(column, items, valid) ==
    [values   |-> column.values \o items,
     offsets  |-> Append(column.offsets, Len(column.values \o items)),
     validity |-> Append(column.validity, valid)]

\* A missing record takes a place in every column.
AppendNull ==
    /\ phase = "build"
    /\ row < Len(records)
    /\ records[row + 1] = << >>
    /\ columns' =
          [header   |-> Append(columns.header, NoHeader),
           validity |-> Append(columns.validity, FALSE),
           child    |-> [c \in Children |-> PushChild(columns.child[c], << >>)],
           list     |-> [l \in Lists |-> PushList(columns.list[l], << >>, FALSE)]]
    /\ row' = row + 1
    /\ UNCHANGED <<batch, records, phase>>

AppendRecord ==
    /\ phase = "build"
    /\ row < Len(records)
    /\ records[row + 1] # << >>
    /\ LET r == records[row + 1][1]
       IN  columns' =
              [header   |-> Append(columns.header, r.header),
               validity |-> Append(columns.validity, TRUE),
               child    |-> [c \in Children |-> PushChild(columns.child[c], r.child[c])],
               list     |-> [l \in Lists |-> PushList(columns.list[l], r.list[l], TRUE)]]
    /\ row' = row + 1
    /\ UNCHANGED <<batch, records, phase>>

\* The arrays are assembled and the batch is returned.
Assemble ==
    /\ phase = "build"
    /\ row = Len(records)
    /\ phase' = "done"
    /\ UNCHANGED <<batch, records, columns, row>>

Done == phase = "done" /\ UNCHANGED vars

Step == DecodeRow \/ StartBuild \/ AppendNull \/ AppendRecord \/ Assemble

Next == Step \/ Done

Spec == Init /\ [][Next]_vars

-----------------------------------------------------------------------------
(***************************************************************************)
(* The reference: what an Arrow reader makes of the columns at a row.      *)
(***************************************************************************)
ReadChild(column, i) == IF column.validity[i] THEN column.values[i] ELSE << >>

ReadList(column, i) ==
    IF column.validity[i]
    THEN <<SubSeq(column.values, column.offsets[i] + 1, column.offsets[i + 1])>>
    ELSE << >>

-----------------------------------------------------------------------------
(***************************************************************************)
(* Properties.                                                             *)
(***************************************************************************)
TypeOK ==
    /\ batch \in Seq(Cells)
    /\ Len(records) <= Len(batch)
    /\ \A i \in 1..Len(records) : records[i] = << >> \/ IsRecord(records[i][1])
    /\ row \in 0..Len(records)
    /\ phase \in {"decode", "build", "done"}
    /\ phase = "decode" => row = 0 /\ columns = EmptyColumns
    /\ \A l \in Lists : \A k \in 1..Len(columns.list[l].offsets) :
          columns.list[l].offsets[k] \in 0..Len(columns.list[l].values)

\* A column has a place for each row; a list has one offset more, the offsets do not go
\* down and the last is the number of items.
IsListColumn(column, n) ==
    /\ Len(column.validity) = n
    /\ Len(column.offsets) = n + 1
    /\ column.offsets[1] = 0
    /\ \A i \in 1..n : column.offsets[i] <= column.offsets[i + 1]
    /\ column.offsets[n + 1] = Len(column.values)

\* What StructArray::new and ListArray::new insist on, else they panic and the call of
\* every row of the batch is lost: all columns are of one length, offsets in order.
WellShaped ==
    /\ Len(columns.header) = row
    /\ Len(columns.validity) = row
    /\ \A c \in Children :
          Len(columns.child[c].values) = row /\ Len(columns.child[c].validity) = row
    /\ \A l \in Lists : IsListColumn(columns.list[l], row)

\* Row for row, the columns read back as the records that went in: no item strays into
\* a neighbour, no NULL row shifts the rows after it, a missing child stays missing.
ReadsBack ==
    \A i \in 1..row :
        /\ columns.validity[i] = (records[i] # << >>)
        /\ columns.validity[i] =>
              LET r == records[i][1]
              IN  /\ columns.header[i] = r.header
                  /\ \A c \in Children : ReadChild(columns.child[c], i) = r.child[c]
                  /\ \A l \in Lists : ReadList(columns.list[l], i) = <<r.list[l]>>

\* The row answers the row asked: the column has one row for each row of the batch, and
\* it holds the record of that row's blob and entry, NULL exactly when there is none.
AnswersEveryRow ==
    phase = "done" =>
        /\ row = Len(batch)
        /\ \A i \in 1..row :
              columns.validity[i] <=>
                  /\ batch[i].blob # << >>
                  /\ batch[i].entry # << >>
                  /\ DecodeOne[<<batch[i].blob[1], batch[i].entry[1]>>] \notin {<< >>, << << >> >>}
=============================================================================
