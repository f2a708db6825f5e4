------------------------------- MODULE FanOut ---------------------------------
(***************************************************************************)
(* The relation functions attributes and streams                           *)
(* (mft-worker/src/table_in_out/): a relation of blobs and entries goes in *)
(* batch by batch, and every row is fanned out into the attributes, or     *)
(* into the $DATA streams, of its record.                                  *)
(*                                                                         *)
(* A cell is << >> for NULL, else <<its value>>.                           *)
(***************************************************************************)
EXTENDS Integers, Sequences, SequencesExt

CONSTANTS
    Relations,    \* the calls: which function, the columns, the rows batch by batch
    Item,         \* the attributes and the streams
    Records       \* what a pair of a blob and an entry decodes to: << >> or <<record>>

\* `name` is the name of a column in lower case.
Column == [name : {"blob", "entry", "other"}, type : {"binary", "integer", "varchar"}]

IsSequence(s) == s \in Seq(ToSet(s))

\* A row has a cell for each column; an integer column holds integers.
IsRow(cells, columns) ==
    /\ Len(cells) = Len(columns)
    /\ \A k \in 1..Len(columns) :
          columns[k].type = "integer" /\ cells[k] # << >> => cells[k][1] \in Int

IsRelation(r) ==
    /\ r.function \in {"attributes", "streams"}
    /\ r.columns \in Seq(Column)
    /\ IsSequence(r.batches)
    /\ \A b \in 1..Len(r.batches) :
          /\ IsSequence(r.batches[b])
          /\ \A i \in 1..Len(r.batches[b]) : IsRow(r.batches[b][i], r.columns)

\* The attributes of a record, and its streams: at most one unnamed, and the named ones.
\* The crate labels a record with the number it was asked for.
IsRecord(r, key) ==
    /\ r.entry = key[2]
    /\ r.attributes \in Seq(Item)
    /\ r.primary \in Seq(Item) /\ Len(r.primary) <= 1
    /\ r.ads \in Seq(Item)

ASSUME RelationsAssumption ==
    /\ \A r \in Relations : IsRelation(r)
    /\ \A k \in DOMAIN Records : Records[k] = << >> \/ IsRecord(Records[k][1], k)

VARIABLES
    relation,     \* the call, and the relation it is given
    phase,        \* "bind", "idle", "rows", "done" or "failed"
    batch,        \* batches that have been taken
    row,          \* rows of the batch that have been fanned out
    built,        \* the rows built for the batch
    output        \* the batches returned

vars == <<relation, phase, batch, row, built, output>>

Init ==
    /\ relation \in Relations
    /\ phase = "bind"
    /\ batch = 0
    /\ row = 0
    /\ built = << >>
    /\ output = << >>

-----------------------------------------------------------------------------
(***************************************************************************)
(* Which columns: the one of the name, else the first of the type.         *)
(***************************************************************************)
Columns == 1..Len(relation.columns)

Named(name) == {k \in Columns : relation.columns[k].name = name}
Typed(type) == {k \in Columns : relation.columns[k].type = type}
First(columns) == {k \in columns : \A j \in columns : k <= j}

\* (mutant: the type comes before the name)
FindColumnByType(name, type) == First(IF Typed(type) # {} THEN Typed(type) ELSE Named(name))

\* fn find_blob_col and fn find_entry_col: no column is an error.
FindColumn(name, type) == First(IF Named(name) # {} THEN Named(name) ELSE Typed(type))

BlobColumn == FindColumn("blob", "binary")
EntryColumn == FindColumn("entry", "integer")

\* fn on_bind.
Bind ==
    /\ phase = "bind"
    /\ BlobColumn # {} /\ EntryColumn # {}
    /\ phase' = "idle"
    /\ UNCHANGED <<relation, batch, row, built, output>>

BindFails ==
    /\ phase = "bind"
    /\ BlobColumn = {} \/ EntryColumn = {}
    /\ phase' = "failed"
    /\ UNCHANGED <<relation, batch, row, built, output>>

-----------------------------------------------------------------------------
(***************************************************************************)
(* fn process, one call for each batch.                                    *)
(***************************************************************************)
TakeBatch ==
    /\ phase = "idle"
    /\ batch < Len(relation.batches)
    /\ batch' = batch + 1
    /\ row' = 0
    /\ built' = << >>
    /\ phase' = "rows"
    /\ UNCHANGED <<relation, output>>

InRows == phase = "rows" /\ row < Len(relation.batches[batch])

Cell(columns) == relation.batches[batch][row + 1][CHOOSE k \in columns : TRUE]

NullRow == Cell(BlobColumn) = << >> \/ Cell(EntryColumn) = << >>

IsMistyped(columns, type) == Cell(columns) # << >> /\ columns \cap Typed(type) = {}

\* (mutant: a NULL is an error)
MistypedOrNull ==
    NullRow \/ IsMistyped(BlobColumn, "binary") \/ IsMistyped(EntryColumn, "integer")

\* A cell that is not NULL, in a column that does not have the type.
Mistyped == IsMistyped(BlobColumn, "binary") \/ IsMistyped(EntryColumn, "integer")

\* fn u64_val: a negative number is 0.
Entry(cell) == IF cell[1] < 0 THEN 0 ELSE cell[1]

Key == <<Cell(BlobColumn)[1], Entry(Cell(EntryColumn))>>

\* fn decode_one, an error and an empty slot being the same here.
Record == IF Key \in DOMAIN Records THEN Records[Key] ELSE << >>

\* The attributes, or the streams: the unnamed one, then the named ones.
Items(r) == IF relation.function = "attributes" THEN r.attributes ELSE r.primary \o r.ads

RowFails ==
    /\ InRows
    /\ Mistyped
    /\ phase' = "failed"
    /\ UNCHANGED <<relation, batch, row, built, output>>

\* A NULL blob or entry.
SkipRow ==
    /\ InRows
    /\ ~Mistyped
    /\ NullRow
    /\ row' = row + 1
    /\ UNCHANGED <<relation, phase, batch, built, output>>

NoRecord ==
    /\ InRows
    /\ ~Mistyped
    /\ ~NullRow
    /\ Record = << >>
    /\ row' = row + 1
    /\ UNCHANGED <<relation, phase, batch, built, output>>

Fan ==
    /\ InRows
    /\ ~Mistyped
    /\ ~NullRow
    /\ Record # << >>
    /\ LET r == Record[1]
       IN  built' = built \o [i \in 1..Len(Items(r)) |-> [entry |-> r.entry, item |-> Items(r)[i]]]
    /\ row' = row + 1
    /\ UNCHANGED <<relation, phase, batch, output>>

ReturnBatch ==
    /\ phase = "rows"
    /\ row = Len(relation.batches[batch])
    /\ output' = Append(output, built)
    /\ phase' = "idle"
    /\ UNCHANGED <<relation, batch, row, built>>

EndOfInput ==
    /\ phase = "idle"
    /\ batch = Len(relation.batches)
    /\ phase' = "done"
    /\ UNCHANGED <<relation, batch, row, built, output>>

Stopped == phase \in {"done", "failed"} /\ UNCHANGED vars

Next ==
    \/ Bind \/ BindFails \/ TakeBatch \/ RowFails \/ SkipRow \/ NoRecord \/ Fan
    \/ ReturnBatch \/ EndOfInput \/ Stopped

Spec == Init /\ [][Next]_vars

-----------------------------------------------------------------------------
(***************************************************************************)
(* The reference: the answer to one row, and to the rows of a batch.       *)
(***************************************************************************)
\* Column k is the one the function is about.
IsFor(k, name, type) ==
    LET wanted == IF Named(name) # {} THEN Named(name) ELSE Typed(type)
    IN  k \in wanted /\ \A j \in wanted : j >= k

\* The lines for a row with blob b and entry e, either of which may be NULL.
Answer(b, e) ==
    IF b = << >> \/ e = << >> THEN << >>
    ELSE LET n    == IF e[1] >= 0 THEN e[1] ELSE 0
             keys == {key \in DOMAIN Records : key = <<b[1], n>> /\ Records[key] # << >>}
         IN  IF keys = {} THEN << >>
             ELSE [i \in 1..Len(Items(Records[<<b[1], n>>][1])) |->
                      [entry |-> n, item |-> Items(Records[<<b[1], n>>][1])[i]]]

IsAnswer(lines, rows) ==
    \E kb, ke \in Columns :
        /\ IsFor(kb, "blob", "binary")
        /\ IsFor(ke, "entry", "integer")
        /\ lines = FlattenSeq([i \in 1..Len(rows) |-> Answer(rows[i][kb], rows[i][ke])])

-----------------------------------------------------------------------------
(***************************************************************************)
(* Properties.                                                             *)
(***************************************************************************)
\* Each batch is answered by its own rows, in order: no line of a batch before, no row
\* lost after a NULL or a missing record, and each line labelled with the entry it was
\* asked for, on the columns that the docs of find_blob_col and find_entry_col name; and
\* a batch is answered before the next one is taken, even if it has no line.
BatchesAnswered ==
    /\ phase \in {"idle", "done"} => Len(output) = batch
    /\ \A b \in 1..Len(output) : IsAnswer(output[b], relation.batches[b])

\* The column that the function is about, if there is one, does not have the type.
Unfit(name, type) ==
    \A k \in Columns : IsFor(k, name, type) => relation.columns[k].type # type

\* One bad row does not lose the query: what is NULL, empty or no $MFT is passed over,
\* and only a missing column, or one of the wrong type, is an error.
OnlyTypesFail == phase = "failed" => Unfit("blob", "binary") \/ Unfit("entry", "integer")
=============================================================================
