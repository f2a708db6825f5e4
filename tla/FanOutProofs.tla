----------------------------- MODULE FanOutProofs -----------------------------
(***************************************************************************)
(* For every relation and every table of records: each batch is answered   *)
(* by its own rows, in order, and only a missing or a mistyped column      *)
(* fails the query.                                                        *)
(***************************************************************************)
EXTENDS FanOut, SequenceTheorems, DataInduction

-----------------------------------------------------------------------------
(***************************************************************************)
(* The inductive invariant: what has been built of a batch are the answers *)
(* to its rows so far.                                                     *)
(***************************************************************************)
BCol == CHOOSE k \in BlobColumn : TRUE
ECol == CHOOSE k \in EntryColumn : TRUE

AnswersTo(rows, n) == [i \in 1..n |-> Answer(rows[i][BCol], rows[i][ECol])]

Line == [entry : {key[2] : key \in DOMAIN Records}, item : Item]

Control ==
    /\ relation \in Relations
    /\ phase \in {"bind", "idle", "rows", "done", "failed"}
    /\ batch \in 0..Len(relation.batches)
    /\ phase \in {"idle", "rows", "done"} => BlobColumn # {} /\ EntryColumn # {}
    /\ phase = "bind" => batch = 0 /\ output = << >>
    /\ phase = "rows" => batch >= 1 /\ row \in 0..Len(relation.batches[batch])

Answered ==
    /\ output \in Seq(Seq(Line))
    /\ phase \in {"idle", "done"} => Len(output) = batch
    /\ phase = "rows" =>
        /\ Len(output) = batch - 1
        /\ built = FlattenSeq(AnswersTo(relation.batches[batch], row))
    /\ \A b \in 1..Len(output) : IsAnswer(output[b], relation.batches[b])

FanInv == Control /\ Answered /\ OnlyTypesFail

-----------------------------------------------------------------------------
(***************************************************************************)
(* Lemmas on relations, columns and answers.                               *)
(***************************************************************************)
LEMMA RelationIs ==
    ASSUME relation \in Relations
    PROVE  /\ relation.function \in {"attributes", "streams"}
           /\ relation.columns \in Seq(Column)
           /\ Len(relation.columns) \in Nat
           /\ Len(relation.batches) \in Nat
           /\ \A b \in 1..Len(relation.batches) :
                /\ Len(relation.batches[b]) \in Nat
                /\ \A i \in 1..Len(relation.batches[b]) :
                      IsRow(relation.batches[b][i], relation.columns)
<1>1. IsRelation(relation)
  BY RelationsAssumption
<1>2. \A s : IsSequence(s) => Len(s) \in Nat
  BY DEF IsSequence
<1>3. Len(relation.columns) \in Nat
  BY <1>1 DEF IsRelation
<1> QED
  BY <1>1, <1>2, <1>3 DEF IsRelation

\* The column found is the one that the docs name, and there is no other.
LEMMA ColumnFound ==
    ASSUME relation \in Relations, NEW name, NEW type
    PROVE  /\ \A k \in Columns : k \in FindColumn(name, type) <=> IsFor(k, name, type)
           /\ FindColumn(name, type) \subseteq Columns
           /\ \A k, j \in FindColumn(name, type) : k = j
<1>1. Columns \subseteq Nat
  BY RelationIs DEF Columns
<1>2. Named(name) \subseteq Columns /\ Typed(type) \subseteq Columns
  BY DEF Named, Typed
<1> DEFINE wanted == IF Named(name) # {} THEN Named(name) ELSE Typed(type)
<1>3. wanted \subseteq Nat /\ wanted \subseteq Columns
  BY <1>1, <1>2
<1>4. FindColumn(name, type) = {k \in wanted : \A j \in wanted : k <= j}
  BY DEF FindColumn, First
<1>5. \A k : IsFor(k, name, type) <=> k \in wanted /\ \A j \in wanted : j >= k
  BY DEF IsFor
<1> HIDE DEF wanted
<1>6. \A k \in wanted, j \in wanted : k <= j <=> j >= k
  BY <1>3
<1>7. \A k : k \in FindColumn(name, type) <=> IsFor(k, name, type)
  BY <1>4, <1>5, <1>6
<1>8. FindColumn(name, type) \subseteq Columns
  BY <1>3, <1>4
<1>9. \A k, j \in FindColumn(name, type) : k = j
  <2> SUFFICES ASSUME NEW k \in FindColumn(name, type), NEW j \in FindColumn(name, type)
               PROVE  k = j
    OBVIOUS
  <2>1. k \in Nat /\ j \in Nat /\ k <= j /\ j <= k
    BY <1>3, <1>4
  <2> QED
    BY <2>1
<1> QED
  BY <1>7, <1>8, <1>9

\* The columns that the function is bound to are the ones found for their roles.
LEMMA ColumnChosen ==
    ASSUME relation \in Relations, BlobColumn # {}, EntryColumn # {}
    PROVE  /\ BCol \in Columns /\ IsFor(BCol, "blob", "binary") /\ BlobColumn = {BCol}
           /\ ECol \in Columns /\ IsFor(ECol, "entry", "integer") /\ EntryColumn = {ECol}
<1>1. BCol \in BlobColumn /\ ECol \in EntryColumn
  BY DEF BCol, ECol
<1>2. BCol \in Columns /\ IsFor(BCol, "blob", "binary") /\ \A k \in BlobColumn : k = BCol
  BY <1>1, ColumnFound DEF BlobColumn
<1>3. ECol \in Columns /\ IsFor(ECol, "entry", "integer") /\ \A k \in EntryColumn : k = ECol
  BY <1>1, ColumnFound DEF EntryColumn
<1> QED
  BY <1>1, <1>2, <1>3

\* The items of a record are a sequence of items.
LEMMA ItemsTyped ==
    ASSUME NEW key \in DOMAIN Records, Records[key] # << >>
    PROVE  Records[key][1].entry = key[2] /\ Items(Records[key][1]) \in Seq(Item)
<1>1. IsRecord(Records[key][1], key)
  BY RelationsAssumption
<1> QED
  BY <1>1 DEF IsRecord, Items

\* The answer to a cell pair is a sequence of lines.
LEMMA AnswerTyped ==
    ASSUME NEW b, NEW e
    PROVE  Answer(b, e) \in Seq(Line)
<1> DEFINE n == IF e[1] >= 0 THEN e[1] ELSE 0
           key == <<b[1], n>>
<1>1. CASE ~(b = << >> \/ e = << >>) /\ key \in DOMAIN Records /\ Records[key] # << >>
  <2>1. Answer(b, e) = [i \in 1..Len(Items(Records[key][1])) |->
                           [entry |-> n, item |-> Items(Records[key][1])[i]]]
    BY <1>1 DEF Answer
  <2>2. Items(Records[key][1]) \in Seq(Item)
    BY <1>1, ItemsTyped
  <2>3. n \in {k[2] : k \in DOMAIN Records}
    BY <1>1
  <2> HIDE DEF n, key
  <2> DEFINE items == Items(Records[key][1])
  <2>4. \A i \in 1..Len(items) : [entry |-> n, item |-> items[i]] \in Line
    BY <2>2, <2>3 DEF Line
  <2>5. Len(items) \in Nat
    BY <2>2
  <2> HIDE DEF items
  <2>6. [i \in 1..Len(items) |-> [entry |-> n, item |-> items[i]]] \in Seq(Line)
    BY <2>4, <2>5
  <2> QED
    BY <2>1, <2>6 DEF items
<1>2. CASE b = << >> \/ e = << >> \/ key \notin DOMAIN Records \/ Records[key] = << >>
  <2>1. Answer(b, e) = << >>
    BY <1>2 DEF Answer
  <2> QED
    BY <2>1
<1> QED
  BY <1>1, <1>2

\* So are the answers to the first rows of a batch.
LEMMA AnswersTyped ==
    ASSUME NEW rows, NEW n \in Nat
    PROVE  AnswersTo(rows, n) \in Seq(Seq(Line)) /\ Len(AnswersTo(rows, n)) = n
  BY AnswerTyped DEF AnswersTo

\* The answer to one more row comes behind the others.
LEMMA OneMoreRow ==
    ASSUME NEW rows, NEW n \in Nat
    PROVE  FlattenSeq(AnswersTo(rows, n + 1))
               = FlattenSeq(AnswersTo(rows, n)) \o Answer(rows[n + 1][BCol], rows[n + 1][ECol])
<1> DEFINE a(i) == Answer(rows[i][BCol], rows[i][ECol])
<1>1. AnswersTo(rows, n + 1) = Append(AnswersTo(rows, n), a(n + 1))
  <2>1. /\ AnswersTo(rows, n + 1) = [i \in 1..(n + 1) |-> a(i)]
        /\ AnswersTo(rows, n) = [i \in 1..n |-> a(i)]
    BY DEF AnswersTo
  <2> HIDE DEF a
  <2> QED
    BY <2>1
<1> QED
  BY <1>1, AnswersTyped, AnswerTyped, FlattenAppend

-----------------------------------------------------------------------------
(***************************************************************************)
(* A step leaves alone what only depends on the relation.                  *)
(***************************************************************************)
LEMMA RelationKept ==
    ASSUME UNCHANGED relation
    PROVE  /\ BlobColumn' = BlobColumn /\ EntryColumn' = EntryColumn
           /\ BCol' = BCol /\ ECol' = ECol
           /\ \A name, type : Unfit(name, type)' = Unfit(name, type)
<1>1. \A name, type : /\ Named(name)' = Named(name) /\ Typed(type)' = Typed(type)
                      /\ Columns' = Columns
  BY DEF Named, Typed, Columns
<1>2. \A name, type : FindColumn(name, type)' = FindColumn(name, type)
  BY <1>1 DEF FindColumn, First
<1>3. \A k, name, type : IsFor(k, name, type)' = IsFor(k, name, type)
  BY <1>1 DEF IsFor
<1> QED
  BY <1>1, <1>2, <1>3 DEF BlobColumn, EntryColumn, BCol, ECol, Unfit

AnswersIn(rows, kb, ke) == [i \in 1..Len(rows) |-> Answer(rows[i][kb], rows[i][ke])]

\* Answers depend on the relation alone.
LEMMA AnswersKept ==
    ASSUME UNCHANGED relation
    PROVE  /\ \A rows, n : AnswersTo(rows, n)' = AnswersTo(rows, n)
           /\ \A lines, rows : IsAnswer(lines, rows)' = IsAnswer(lines, rows)
<1>1. \A r : Items(r)' = Items(r)
  BY DEF Items
<1>2. \A b, e : Answer(b, e)' = Answer(b, e)
  BY <1>1 DEF Answer
<1>3. \A k, name, type : IsFor(k, name, type)' = IsFor(k, name, type)
  BY DEF IsFor, Named, Typed, Columns
<1>4. Columns' = Columns /\ BCol' = BCol /\ ECol' = ECol
  BY RelationKept DEF Columns
<1>5. \A rows, n : AnswersTo(rows, n)' = AnswersTo(rows, n)
  BY <1>2, <1>4 DEF AnswersTo
<1>6. \A lines, rows : IsAnswer(lines, rows)' = IsAnswer(lines, rows)
  <2> SUFFICES ASSUME NEW lines, NEW rows
               PROVE  IsAnswer(lines, rows)' = IsAnswer(lines, rows)
    OBVIOUS
  <2>1. IsAnswer(lines, rows)' <=>
           \E kb, ke \in Columns' :
              /\ IsFor(kb, "blob", "binary")' /\ IsFor(ke, "entry", "integer")'
              /\ lines = FlattenSeq(AnswersIn(rows, kb, ke)')
    BY DEF IsAnswer, AnswersIn
  <2>2. IsAnswer(lines, rows) <=>
           \E kb, ke \in Columns :
              /\ IsFor(kb, "blob", "binary") /\ IsFor(ke, "entry", "integer")
              /\ lines = FlattenSeq(AnswersIn(rows, kb, ke))
    BY DEF IsAnswer, AnswersIn
  <2>3. \A kb, ke : AnswersIn(rows, kb, ke)' = AnswersIn(rows, kb, ke)
    BY <1>2 DEF AnswersIn
  <2>4. IsAnswer(lines, rows)' <=> IsAnswer(lines, rows)
    BY <1>3, <1>4, <2>1, <2>2, <2>3
  <2>5. IsAnswer(lines, rows) \in BOOLEAN /\ IsAnswer(lines, rows)' \in BOOLEAN
    BY DEF IsAnswer
  <2> QED
    BY <2>4, <2>5
<1> QED
  BY <1>5, <1>6

-----------------------------------------------------------------------------
(***************************************************************************)
(* The steps of a batch.                                                   *)
(***************************************************************************)
\* What a row with a record adds is its answer.
LEMMA FanAnswers ==
    ASSUME FanInv, Fan
    PROVE  built' = built \o Answer(relation.batches[batch][row + 1][BCol],
                                    relation.batches[batch][row + 1][ECol])
<1> USE DEF FanInv
<1> DEFINE b == relation.batches[batch][row + 1][BCol]
           e == relation.batches[batch][row + 1][ECol]
           key == <<b[1], IF e[1] >= 0 THEN e[1] ELSE 0>>
           r == Records[key][1]
<1>1. phase = "rows" /\ BlobColumn # {} /\ EntryColumn # {} /\ relation \in Relations
  BY DEF Fan, InRows, Control
<1>2. BCol \in Columns /\ ECol \in Columns /\ BlobColumn = {BCol} /\ EntryColumn = {ECol}
  BY <1>1, ColumnChosen
<1>3. Cell(BlobColumn) = b /\ Cell(EntryColumn) = e
  BY DEF Cell, BCol, ECol
<1>4. b # << >> /\ e # << >>
  BY <1>3 DEF Fan, NullRow
<1>5. e[1] \in Int
  <2>1. relation.columns[ECol].type = "integer"
    BY <1>2, <1>3, <1>4 DEF Fan, Mistyped, IsMistyped, Typed
  <2>2. batch \in 1..Len(relation.batches) /\ row + 1 \in 1..Len(relation.batches[batch])
    BY <1>1, RelationIs DEF Control, Fan, InRows
  <2>3. IsRow(relation.batches[batch][row + 1], relation.columns)
    BY <1>1, <2>2, RelationIs
  <2> QED
    BY <1>2, <1>4, <2>1, <2>3 DEF IsRow, Columns
<1>6. Key = key
  BY <1>3, <1>5 DEF Key, Entry
<1>7. key \in DOMAIN Records /\ Records[key] # << >> /\ Record = Records[key]
  BY <1>6 DEF Fan, Record
<1>8. r.entry = key[2]
  BY <1>7, ItemsTyped
<1>9. Answer(b, e) = [i \in 1..Len(Items(r)) |-> [entry |-> r.entry, item |-> Items(r)[i]]]
  BY <1>4, <1>7, <1>8 DEF Answer
<1>10. built' = built \o [i \in 1..Len(Items(r)) |-> [entry |-> r.entry, item |-> Items(r)[i]]]
  BY <1>7 DEF Fan
<1> QED
  BY <1>9, <1>10

\* What a row that is passed over adds is its answer too: nothing.
LEMMA PassedOver ==
    ASSUME FanInv, SkipRow \/ NoRecord
    PROVE  Answer(relation.batches[batch][row + 1][BCol],
                  relation.batches[batch][row + 1][ECol]) = << >>
<1> USE DEF FanInv
<1> DEFINE b == relation.batches[batch][row + 1][BCol]
           e == relation.batches[batch][row + 1][ECol]
           key == <<b[1], IF e[1] >= 0 THEN e[1] ELSE 0>>
<1>1. phase = "rows" /\ BlobColumn # {} /\ EntryColumn # {} /\ relation \in Relations
  BY DEF SkipRow, NoRecord, InRows, Control
<1>2. BCol \in Columns /\ ECol \in Columns /\ BlobColumn = {BCol} /\ EntryColumn = {ECol}
  BY <1>1, ColumnChosen
<1>3. Cell(BlobColumn) = b /\ Cell(EntryColumn) = e
  BY DEF Cell, BCol, ECol
<1>4. CASE SkipRow
  <2>1. b = << >> \/ e = << >>
    BY <1>3, <1>4 DEF SkipRow, NullRow
  <2> QED
    BY <2>1 DEF Answer
<1>5. CASE NoRecord
  <2>1. b # << >> /\ e # << >>
    BY <1>3, <1>5 DEF NoRecord, NullRow
  <2>2. e[1] \in Int
    <3>1. relation.columns[ECol].type = "integer"
      BY <1>2, <1>3, <1>5, <2>1 DEF NoRecord, Mistyped, IsMistyped, Typed
    <3>2. batch \in 1..Len(relation.batches) /\ row + 1 \in 1..Len(relation.batches[batch])
      BY <1>1, <1>5, RelationIs DEF Control, NoRecord, InRows
    <3>3. IsRow(relation.batches[batch][row + 1], relation.columns)
      BY <1>1, <3>2, RelationIs
    <3> QED
      BY <1>2, <2>1, <3>1, <3>3 DEF IsRow, Columns
  <2>3. Key = key
    BY <1>3, <2>2 DEF Key, Entry
  <2>4. key \notin DOMAIN Records \/ Records[key] = << >>
    BY <1>5, <2>3 DEF NoRecord, Record
  <2> QED
    BY <2>1, <2>4 DEF Answer
<1> QED
  BY <1>4, <1>5

\* A row is answered, or skipped.
LEMMA RowStep ==
    ASSUME FanInv, SkipRow \/ NoRecord \/ Fan
    PROVE  FanInv'
<1> USE DEF FanInv
<1> DEFINE rows == relation.batches[batch]
           answer == Answer(rows[row + 1][BCol], rows[row + 1][ECol])
<1>1. /\ UNCHANGED <<relation, phase, batch, output>>
      /\ phase = "rows" /\ row' = row + 1 /\ row < Len(rows)
  BY DEF SkipRow, NoRecord, Fan, InRows
<1>2. built = FlattenSeq(AnswersTo(rows, row)) /\ row \in Nat
  BY <1>1 DEF Answered, Control
<1>3. built' = built \o answer
  <2>1. CASE Fan
    BY <2>1, FanAnswers
  <2>2. CASE SkipRow \/ NoRecord
    <3>1. answer = << >> /\ built' = built
      BY <2>2, PassedOver DEF SkipRow, NoRecord
    <3>2. built \in Seq(Line)
      BY <1>2, AnswersTyped, FlattenTyped
    <3>3. built \o << >> = built
      BY <3>2
    <3> QED
      BY <3>1, <3>3
  <2> QED
    BY <2>1, <2>2
<1>4. built' = FlattenSeq(AnswersTo(rows, row + 1))
  BY <1>2, <1>3, OneMoreRow
<1>5. AnswersTo(relation.batches[batch], row)' = AnswersTo(rows, row + 1)
  BY <1>1, AnswersKept
<1>6. Control'
  <2>1. relation \in Relations /\ Len(rows) \in Nat
    <3>1. relation \in Relations /\ batch \in 1..Len(relation.batches)
      BY <1>1, RelationIs DEF Control
    <3> QED
      BY <3>1, RelationIs
  <2>2. row' \in 0..Len(rows)
    BY <1>1, <1>2, <2>1
  <2> QED
    BY <1>1, <2>2, RelationKept DEF Control
<1>7. Answered'
  <2>1. \A b \in 1..Len(output) : IsAnswer(output[b], relation.batches[b])'
    BY <1>1, AnswersKept DEF Answered
  <2> QED
    BY <1>1, <1>4, <1>5, <2>1 DEF Answered
<1>8. OnlyTypesFail'
  BY <1>1 DEF OnlyTypesFail
<1> QED
  BY <1>6, <1>7, <1>8

\* A batch whose rows have all been answered is returned.
LEMMA BatchReturned ==
    ASSUME FanInv, ReturnBatch
    PROVE  FanInv'
<1> USE DEF FanInv
<1> DEFINE rows == relation.batches[batch]
<1>1. /\ phase = "rows" /\ row = Len(rows) /\ output' = Append(output, built)
      /\ phase' = "idle" /\ UNCHANGED <<relation, batch, row, built>>
  BY DEF ReturnBatch
<1>2. /\ relation \in Relations /\ BlobColumn # {} /\ EntryColumn # {}
      /\ batch \in 1..Len(relation.batches) /\ Len(rows) \in Nat
      /\ Len(output) = batch - 1 /\ output \in Seq(Seq(Line))
      /\ built = FlattenSeq(AnswersTo(rows, Len(rows)))
  <2>1. relation \in Relations /\ batch \in 1..Len(relation.batches)
    BY <1>1, RelationIs DEF Control
  <2> QED
    BY <1>1, <2>1, RelationIs DEF Control, Answered
<1>3. built \in Seq(Line)
  BY <1>2, AnswersTyped, FlattenTyped
<1>4. IsAnswer(built, rows)
  <2>1. AnswersTo(rows, Len(rows))
           = [i \in 1..Len(rows) |-> Answer(rows[i][BCol], rows[i][ECol])]
    BY DEF AnswersTo
  <2>2. /\ BCol \in Columns /\ IsFor(BCol, "blob", "binary")
        /\ ECol \in Columns /\ IsFor(ECol, "entry", "integer")
    BY <1>2, ColumnChosen
  <2> QED
    BY <1>2, <2>1, <2>2 DEF IsAnswer
<1>5. /\ Len(output') = batch /\ output' \in Seq(Seq(Line))
      /\ output'[batch] = built
      /\ \A b \in 1..(batch - 1) : output'[b] = output[b]
  BY <1>1, <1>2, <1>3
<1>6. \A b \in 1..Len(output') : IsAnswer(output'[b], relation.batches[b])
  <2> SUFFICES ASSUME NEW b \in 1..batch
               PROVE  IsAnswer(output'[b], relation.batches[b])
    BY <1>5
  <2>1. CASE b = batch
    BY <1>4, <1>5, <2>1
  <2>2. CASE b # batch
    <3>1. b \in 1..(batch - 1)
      BY <1>2, <2>2
    <3> QED
      BY <1>2, <1>5, <3>1 DEF Answered
  <2> QED
    BY <2>1, <2>2
<1>7. (\A b \in 1..Len(output) : IsAnswer(output[b], relation.batches[b]))'
  BY <1>1, <1>6, AnswersKept
<1>8. Control'
  BY <1>1, <1>2, RelationKept DEF Control
<1>9. Answered'
  BY <1>1, <1>5, <1>7 DEF Answered
<1>10. OnlyTypesFail'
  BY <1>1 DEF OnlyTypesFail
<1> QED
  BY <1>8, <1>9, <1>10

\* The other steps answer no row.
LEMMA OtherStep ==
    ASSUME FanInv, Bind \/ BindFails \/ TakeBatch \/ RowFails \/ EndOfInput \/ UNCHANGED vars
    PROVE  FanInv'
<1> USE DEF FanInv
<1>1. UNCHANGED <<relation, output>>
  BY DEF Bind, BindFails, TakeBatch, RowFails, EndOfInput, vars
<1>2. relation \in Relations /\ Len(relation.batches) \in Nat
  BY RelationIs DEF Control
<1>3. Control'
  <2>1. BlobColumn' = BlobColumn /\ EntryColumn' = EntryColumn
    BY <1>1, RelationKept
  <2>2. CASE TakeBatch
    <3>1. /\ phase = "idle" /\ phase' = "rows" /\ batch' = batch + 1 /\ row' = 0
          /\ batch < Len(relation.batches)
      BY <2>2 DEF TakeBatch
    <3>2. batch + 1 \in 1..Len(relation.batches)
      BY <1>2, <3>1 DEF Control
    <3>3. Len(relation.batches[batch + 1]) \in Nat
      BY <1>2, <3>2, RelationIs
    <3>4. row' \in 0..Len(relation.batches[batch + 1])
      BY <3>1, <3>3
    <3> QED
      BY <1>1, <1>2, <2>1, <3>1, <3>2, <3>4 DEF Control
  <2>3. CASE Bind
    BY <1>1, <2>1, <2>3 DEF Bind, Control
  <2>4. CASE BindFails \/ RowFails
    BY <1>1, <2>1, <2>4 DEF BindFails, RowFails, Control
  <2>5. CASE EndOfInput
    BY <1>1, <2>1, <2>5 DEF EndOfInput, Control
  <2>6. CASE UNCHANGED vars
    BY <2>1, <2>6 DEF vars, Control
  <2> QED
    BY <2>2, <2>3, <2>4, <2>5, <2>6
<1>4. Answered'
  <2>1. \A b \in 1..Len(output) : IsAnswer(output[b], relation.batches[b])'
    BY <1>1, AnswersKept DEF Answered
  <2>2. CASE TakeBatch
    <3>1. /\ phase' = "rows" /\ batch' = batch + 1 /\ row' = 0 /\ built' = << >>
          /\ Len(output) = batch /\ batch \in Nat
      BY <1>2, <2>2 DEF TakeBatch, Answered, Control
    <3>2. \A rows : AnswersTo(rows, 0) = << >>
      BY DEF AnswersTo
    <3>3. FlattenSeq(<< >>) = << >>
      BY DEF FlattenSeq
    <3>4. AnswersTo(relation.batches[batch], row)' = AnswersTo(relation.batches[batch + 1], 0)
      BY <1>1, <3>1, AnswersKept
    <3>5. Len(output') = batch' - 1
      BY <1>1, <3>1
    <3>6. built' = FlattenSeq(AnswersTo(relation.batches[batch], row)')
      BY <3>1, <3>2, <3>3, <3>4
    <3> QED
      BY <1>1, <2>1, <3>1, <3>5, <3>6 DEF Answered
  <2>3. CASE Bind
    BY <1>1, <2>1, <2>3 DEF Bind, Answered, Control
  <2>4. CASE BindFails \/ RowFails
    BY <1>1, <2>1, <2>4 DEF BindFails, RowFails, Answered
  <2>5. CASE EndOfInput
    BY <1>1, <2>1, <2>5 DEF EndOfInput, Answered
  <2>6. CASE UNCHANGED vars
    <3>1. AnswersTo(relation.batches[batch], row)' = AnswersTo(relation.batches[batch], row)
      BY <1>1, <2>6, AnswersKept DEF vars
    <3> QED
      BY <2>1, <2>6, <3>1 DEF vars, Answered
  <2> QED
    BY <2>2, <2>3, <2>4, <2>5, <2>6
<1>5. OnlyTypesFail'
  <2>1. \A name, type : Unfit(name, type)' = Unfit(name, type)
    BY <1>1, RelationKept
  <2>2. CASE BindFails
    <3>1. BlobColumn = {} => Unfit("blob", "binary")
      BY <1>2, ColumnFound DEF BlobColumn, Unfit
    <3>2. EntryColumn = {} => Unfit("entry", "integer")
      BY <1>2, ColumnFound DEF EntryColumn, Unfit
    <3> QED
      BY <2>1, <2>2, <3>1, <3>2 DEF BindFails, OnlyTypesFail
  <2>3. CASE RowFails
    <3>1. BlobColumn \cap Typed("binary") = {} \/ EntryColumn \cap Typed("integer") = {}
      BY <2>3 DEF RowFails, Mistyped, IsMistyped
    <3>2. BlobColumn \cap Typed("binary") = {} => Unfit("blob", "binary")
      BY <1>2, ColumnFound DEF BlobColumn, Unfit, Typed
    <3>3. EntryColumn \cap Typed("integer") = {} => Unfit("entry", "integer")
      BY <1>2, ColumnFound DEF EntryColumn, Unfit, Typed
    <3> QED
      BY <2>1, <3>1, <3>2, <3>3 DEF OnlyTypesFail
  <2>4. CASE Bind \/ TakeBatch \/ EndOfInput
    BY <2>4 DEF Bind, TakeBatch, EndOfInput, OnlyTypesFail
  <2>5. CASE UNCHANGED vars
    BY <2>1, <2>5 DEF vars, OnlyTypesFail
  <2> QED
    BY <2>2, <2>3, <2>4, <2>5
<1> QED
  BY <1>3, <1>4, <1>5

-----------------------------------------------------------------------------
(***************************************************************************)
(* The theorems.                                                           *)
(***************************************************************************)
\* The invariant is inductive.
THEOREM FanInvAlways == Spec => []FanInv
<1>1. Init => FanInv
  <2> SUFFICES ASSUME Init PROVE FanInv
    OBVIOUS
  <2>1. relation \in Relations /\ Len(relation.batches) \in Nat
    BY RelationIs DEF Init
  <2> QED
    BY <2>1 DEF Init, FanInv, Control, Answered, OnlyTypesFail
<1>2. FanInv /\ [Next]_vars => FanInv'
  <2> SUFFICES ASSUME FanInv, [Next]_vars PROVE FanInv'
    OBVIOUS
  <2>1. CASE SkipRow \/ NoRecord \/ Fan
    BY <2>1, RowStep
  <2>2. CASE ReturnBatch
    BY <2>2, BatchReturned
  <2>3. CASE Bind \/ BindFails \/ TakeBatch \/ RowFails \/ EndOfInput \/ UNCHANGED vars
    BY <2>3, OtherStep
  <2>4. Stopped => UNCHANGED vars
    BY DEF Stopped
  <2> QED
    BY <2>1, <2>2, <2>3, <2>4 DEF Next
<1> QED
  BY <1>1, <1>2, PTL DEF Spec

\* Each batch is answered by its own rows and nothing else, before the next one is taken.
THEOREM AnsweredInOrder == Spec => []BatchesAnswered
<1>1. FanInv => BatchesAnswered
  BY DEF FanInv, Answered, BatchesAnswered
<1> QED
  BY <1>1, FanInvAlways, PTL

\* Only a missing or a mistyped column fails the query.
THEOREM FailsForTypes == Spec => []OnlyTypesFail
<1>1. FanInv => OnlyTypesFail
  BY DEF FanInv
<1> QED
  BY <1>1, FanInvAlways, PTL
==============================================================================
