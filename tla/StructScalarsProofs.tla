------------------------- MODULE StructScalarsProofs --------------------------
(***************************************************************************)
(* First, the columns of mft_record read back as the records that went in, *)
(* for batches of any size and records of any shape (RecordColumns).       *)
(* Then record_header, well_formed and mft_record answer the rows they are *)
(* asked, and agree with each other (StructScalars, of whose steps those   *)
(* of RecordColumns are a part).                                           *)
(***************************************************************************)
EXTENDS StructScalars, SequenceTheorems, TLAPS

ListColumns == [values : Seq(Item), offsets : Seq(Nat), validity : Seq(BOOLEAN)]

ChildColumns == [values : Seq(Option(Child)), validity : Seq(BOOLEAN)]

AllColumns ==
    [header   : Seq(Header),
     validity : Seq(BOOLEAN),
     child    : [Children -> ChildColumns],
     list     : [Lists -> ListColumns]]

\* What a row may be decoded to.
Results == {<< >>} \cup {Decoded(c) : c \in Cells}

\* A list column of n rows; its offsets are offsets of items.
IsList(column, n) ==
    /\ column \in ListColumns
    /\ IsListColumn(column, n)
    /\ \A i \in 1..n + 1 : column.offsets[i] \in 0..Len(column.values)

\* A child column of n rows.
IsChild(column, n) ==
    column \in ChildColumns /\ Len(column.values) = n /\ Len(column.validity) = n

-----------------------------------------------------------------------------
(***************************************************************************)
(* One more row of a list column: the rows before it read as before, and   *)
(* the new row reads as the items pushed.                                  *)
(***************************************************************************)
LEMMA PushListKeeps ==
    ASSUME NEW n \in Nat, NEW column, IsList(column, n),
           NEW items \in Seq(Item), NEW valid \in BOOLEAN
    PROVE  LET pushed == PushList(column, items, valid)
           IN  /\ IsList(pushed, n + 1)
               /\ \A i \in 1..n : ReadList(pushed, i) = ReadList(column, i)
               /\ ReadList(pushed, n + 1) = IF valid THEN <<items>> ELSE << >>
<1> DEFINE pushed == PushList(column, items, valid)
           all == column.values \o items
           end == Len(column.values)
<1>1. column.offsets \in Seq(Nat) /\ column.values \in Seq(Item) /\ column.validity \in Seq(BOOLEAN)
  BY DEF IsList, ListColumns
<1>2. Len(column.offsets) = n + 1 /\ Len(column.validity) = n /\ column.offsets[n + 1] = end
  BY DEF IsList, IsListColumn
<1>3. /\ column.offsets[1] = 0
      /\ \A i \in 1..n : column.offsets[i] <= column.offsets[i + 1]
      /\ \A i \in 1..n + 1 : column.offsets[i] \in 0..end
  BY DEF IsList, IsListColumn
<1>4. /\ all \in Seq(Item) /\ end \in Nat /\ Len(items) \in Nat /\ Len(all) = end + Len(items)
      /\ \A k \in 1..end : all[k] = column.values[k]
      /\ \A k \in 1..Len(items) : all[end + k] = items[k]
  <2>1. all \in Seq(Item) /\ end \in Nat /\ Len(items) \in Nat /\ Len(all) = end + Len(items)
    BY <1>1, ConcatProperties, LenProperties
  <2>2. \A k \in 1..end + Len(items) :
           all[k] = IF k <= end THEN column.values[k] ELSE items[k - end]
    BY <1>1, ConcatProperties
  <2> QED BY <2>1, <2>2
<1>5. pushed = [values   |-> all,
                offsets  |-> Append(column.offsets, Len(all)),
                validity |-> Append(column.validity, valid)]
  BY DEF PushList
<1> HIDE DEF all, end, pushed
<1>6. /\ pushed.values = all
      /\ pushed.offsets \in Seq(Nat) /\ Len(pushed.offsets) = n + 2
      /\ \A i \in 1..n + 1 : pushed.offsets[i] = column.offsets[i]
      /\ pushed.offsets[n + 2] = Len(all)
  <2>1. pushed.values = all /\ pushed.offsets = Append(column.offsets, Len(all))
    BY <1>5
  <2>2. Len(all) \in Nat
    BY <1>4
  <2>3. /\ Append(column.offsets, Len(all)) \in Seq(Nat)
        /\ Len(Append(column.offsets, Len(all))) = Len(column.offsets) + 1
        /\ \A i \in 1..Len(column.offsets) :
              Append(column.offsets, Len(all))[i] = column.offsets[i]
        /\ Append(column.offsets, Len(all))[Len(column.offsets) + 1] = Len(all)
    BY <1>1, <2>2, AppendProperties
  <2> QED BY <2>1, <2>3, <1>2
<1>7. /\ pushed.validity \in Seq(BOOLEAN) /\ Len(pushed.validity) = n + 1
      /\ \A i \in 1..n : pushed.validity[i] = column.validity[i]
      /\ pushed.validity[n + 1] = valid
  <2>1. pushed.validity = Append(column.validity, valid)
    BY <1>5
  <2> QED BY <2>1, <1>1, <1>2, AppendProperties
<1>8. \A i \in 1..n + 2 : pushed.offsets[i] \in 0..Len(all)
  <2> TAKE i \in 1..n + 2
  <2>1. CASE i \in 1..n + 1
    <3>1. pushed.offsets[i] \in 0..end
      BY <2>1, <1>3, <1>6
    <3> QED BY <3>1, <1>4
  <2>2. CASE i = n + 2
    BY <2>2, <1>4, <1>6
  <2> QED BY <2>1, <2>2
<1>9. IsList(pushed, n + 1)
  <2>1. pushed \in ListColumns
    BY <1>4, <1>5, <1>6, <1>7 DEF ListColumns
  <2>2. pushed.offsets[1] = 0
    BY <1>3, <1>6
  <2>3. \A i \in 1..n + 1 : pushed.offsets[i] <= pushed.offsets[i + 1]
    <3> TAKE i \in 1..n + 1
    <3>1. CASE i \in 1..n
      <4>1. i \in 1..n + 1 /\ i + 1 \in 1..n + 1
        BY <3>1
      <4>2. pushed.offsets[i] = column.offsets[i] /\ pushed.offsets[i + 1] = column.offsets[i + 1]
        BY <4>1, <1>6
      <4> QED BY <4>2, <3>1, <1>3
    <3>2. CASE i = n + 1
      BY <3>2, <1>2, <1>4, <1>6
    <3> QED BY <3>1, <3>2
  <2>4. IsListColumn(pushed, n + 1)
    BY <2>2, <2>3, <1>6, <1>7 DEF IsListColumn
  <2> QED BY <2>1, <2>4, <1>6, <1>8 DEF IsList
<1>10. ASSUME NEW i \in 1..n PROVE ReadList(pushed, i) = ReadList(column, i)
  <2> DEFINE a == column.offsets[i]
             b == column.offsets[i + 1]
  <2>0. i \in 1..n + 1 /\ i + 1 \in 1..n + 1
    OBVIOUS
  <2>1. a \in 0..end /\ b \in 0..end /\ pushed.offsets[i] = a /\ pushed.offsets[i + 1] = b
    BY <2>0, <1>3, <1>6
  <2>2. SubSeq(all, a + 1, b) = SubSeq(column.values, a + 1, b)
    <3> HIDE DEF a, b
    <3>1. CASE a + 1 > b
      BY <3>1, <2>1, <1>4, SubSeqEmpty
    <3>2. CASE a + 1 <= b
      <4>1. a + 1 \in 1..end /\ b \in 1..end
        BY <3>2, <2>1, <1>4
      <4> QED BY <4>1, <1>1, SubSeqOfConcat1 DEF all, end
    <3> QED BY <3>1, <3>2, <2>1, <1>4
  <2> QED BY <2>1, <2>2, <1>6, <1>7 DEF ReadList
<1>11. ReadList(pushed, n + 1) = IF valid THEN <<items>> ELSE << >>
  <2>1. pushed.offsets[n + 1] = end /\ pushed.offsets[n + 1 + 1] = end + Len(items)
    BY <1>2, <1>4, <1>6
  <2>2. SubSeq(all, end + 1, end + Len(items)) = items
    <3>1. CASE Len(items) = 0
      <4>1. items = << >>
        BY <3>1, EmptySeq
      <4> QED BY <4>1, <3>1, <1>4, SubSeqEmpty
    <3>2. CASE Len(items) > 0
      <4>1. end + 1 \in end + 1..end + Len(items) /\ end + Len(items) \in end + 1..end + Len(items)
        BY <3>2, <1>4
      <4>2. SubSeq(all, end + 1, end + Len(items)) = SubSeq(items, 1, Len(items))
        BY <4>1, <1>1, <1>4, SubSeqOfConcat2 DEF all, end
      <4> QED BY <4>2, SubSeqFull
    <3> QED BY <3>1, <3>2, <1>4
  <2> QED BY <2>1, <2>2, <1>6, <1>7 DEF ReadList
<1> QED BY <1>9, <1>10, <1>11 DEF pushed

\* One more row of a child column: the rows before it read as before, the new row as the
\* value pushed; a missing value reads as missing.
LEMMA PushChildKeeps ==
    ASSUME NEW n \in Nat, NEW column, IsChild(column, n), NEW value \in Option(Child)
    PROVE  LET pushed == PushChild(column, value)
           IN  /\ IsChild(pushed, n + 1)
               /\ \A i \in 1..n : ReadChild(pushed, i) = ReadChild(column, i)
               /\ ReadChild(pushed, n + 1) = value
<1> DEFINE pushed == PushChild(column, value)
<1>1. column.values \in Seq(Option(Child)) /\ column.validity \in Seq(BOOLEAN)
  BY DEF IsChild, ChildColumns
<1>2. Len(column.values) = n /\ Len(column.validity) = n
  BY DEF IsChild
<1>3. (value # << >>) \in BOOLEAN
  OBVIOUS
<1>4. /\ pushed.values \in Seq(Option(Child)) /\ Len(pushed.values) = n + 1
      /\ \A i \in 1..n : pushed.values[i] = column.values[i]
      /\ pushed.values[n + 1] = value
  BY <1>1, <1>2, AppendProperties DEF PushChild
<1>5. /\ pushed.validity \in Seq(BOOLEAN) /\ Len(pushed.validity) = n + 1
      /\ \A i \in 1..n : pushed.validity[i] = column.validity[i]
      /\ pushed.validity[n + 1] = (value # << >>)
  BY <1>1, <1>2, <1>3, AppendProperties DEF PushChild
<1>6. pushed = [values |-> pushed.values, validity |-> pushed.validity]
  BY DEF PushChild
<1> HIDE DEF pushed
<1>7. IsChild(pushed, n + 1)
  BY <1>4, <1>5, <1>6 DEF IsChild, ChildColumns
<1>8. \A i \in 1..n : ReadChild(pushed, i) = ReadChild(column, i)
  BY <1>4, <1>5 DEF ReadChild
<1>9. ReadChild(pushed, n + 1) = value
  BY <1>4, <1>5 DEF ReadChild
<1> QED BY <1>7, <1>8, <1>9 DEF pushed

-----------------------------------------------------------------------------
(***************************************************************************)
(* The inductive invariant.  Columns of n rows that read back as the first *)
(* n records; what arrays of what length there are is part of it, since a  *)
(* row is read by offsets that only fit if the rows before it fitted.      *)
(***************************************************************************)
\* All columns are of n rows.
Shaped(cols, n) ==
    /\ cols \in AllColumns
    /\ Len(cols.header) = n
    /\ Len(cols.validity) = n
    /\ \A c \in Children : IsChild(cols.child[c], n)
    /\ \A l \in Lists : IsList(cols.list[l], n)

\* Row i of the columns is the result r.
RowIs(cols, i, r) ==
    /\ cols.validity[i] = (r # << >>)
    /\ cols.validity[i] =>
          /\ cols.header[i] = r[1].header
          /\ \A c \in Children : ReadChild(cols.child[c], i) = r[1].child[c]
          /\ \A l \in Lists : ReadList(cols.list[l], i) = <<r[1].list[l]>>

\* The columns after one more row.
Pushed(cols, header, valid, child, list) ==
    [header   |-> Append(cols.header, header),
     validity |-> Append(cols.validity, valid),
     child    |-> [c \in Children |-> PushChild(cols.child[c], child[c])],
     list     |-> [l \in Lists |-> PushList(cols.list[l], list[l], valid)]]

\* `pushed` is cols of n rows and a row that reads as what is given.
HasOneMoreRow(pushed, cols, n, header, valid, child, list) ==
    /\ Shaped(pushed, n + 1)
    /\ \A i \in 1..n : \A r : RowIs(cols, i, r) => RowIs(pushed, i, r)
    /\ pushed.validity[n + 1] = valid
    /\ pushed.header[n + 1] = header
    /\ \A c \in Children : ReadChild(pushed.child[c], n + 1) = child[c]
    /\ \A l \in Lists :
          ReadList(pushed.list[l], n + 1) = IF valid THEN <<list[l]>> ELSE << >>

\* One more row of all columns: they stay of one length, each earlier row is still what
\* it was, and the new row reads as what was pushed.
LEMMA PushedKeeps ==
    ASSUME NEW n \in Nat, NEW cols, Shaped(cols, n),
           NEW header \in Header, NEW valid \in BOOLEAN,
           NEW child \in [Children -> Option(Child)], NEW list \in [Lists -> Seq(Item)]
    PROVE  HasOneMoreRow(Pushed(cols, header, valid, child, list), cols, n,
                         header, valid, child, list)
<1> DEFINE pushed == Pushed(cols, header, valid, child, list)
<1>1. /\ cols.header \in Seq(Header) /\ cols.validity \in Seq(BOOLEAN)
      /\ Len(cols.header) = n /\ Len(cols.validity) = n
  BY DEF Shaped, AllColumns
<1>2. /\ pushed.header = Append(cols.header, header)
      /\ pushed.validity = Append(cols.validity, valid)
      /\ pushed.child = [c \in Children |-> PushChild(cols.child[c], child[c])]
      /\ pushed.list = [l \in Lists |-> PushList(cols.list[l], list[l], valid)]
      /\ pushed = [header |-> pushed.header, validity |-> pushed.validity,
                   child |-> pushed.child, list |-> pushed.list]
  BY DEF Pushed
<1> HIDE DEF pushed
<1>3. /\ pushed.header \in Seq(Header) /\ Len(pushed.header) = n + 1
      /\ \A i \in 1..n : pushed.header[i] = cols.header[i]
      /\ pushed.header[n + 1] = header
  BY <1>1, <1>2, AppendProperties
<1>4. /\ pushed.validity \in Seq(BOOLEAN) /\ Len(pushed.validity) = n + 1
      /\ \A i \in 1..n : pushed.validity[i] = cols.validity[i]
      /\ pushed.validity[n + 1] = valid
  BY <1>1, <1>2, AppendProperties
<1>5. ASSUME NEW c \in Children
      PROVE  /\ IsChild(pushed.child[c], n + 1)
             /\ \A i \in 1..n : ReadChild(pushed.child[c], i) = ReadChild(cols.child[c], i)
             /\ ReadChild(pushed.child[c], n + 1) = child[c]
  <2>1. IsChild(cols.child[c], n) /\ child[c] \in Option(Child)
    BY DEF Shaped
  <2>2. pushed.child[c] = PushChild(cols.child[c], child[c])
    BY <1>2
  <2> QED BY <2>1, <2>2, PushChildKeeps
<1>6. ASSUME NEW l \in Lists
      PROVE  /\ IsList(pushed.list[l], n + 1)
             /\ \A i \in 1..n : ReadList(pushed.list[l], i) = ReadList(cols.list[l], i)
             /\ ReadList(pushed.list[l], n + 1) = IF valid THEN <<list[l]>> ELSE << >>
  <2>1. IsList(cols.list[l], n) /\ list[l] \in Seq(Item)
    BY DEF Shaped
  <2>2. pushed.list[l] = PushList(cols.list[l], list[l], valid)
    BY <1>2
  <2> QED BY <2>1, <2>2, PushListKeeps
<1>7. Shaped(pushed, n + 1)
  <2>1. pushed.child \in [Children -> ChildColumns]
    BY <1>2, <1>5 DEF IsChild
  <2>2. pushed.list \in [Lists -> ListColumns]
    BY <1>2, <1>6 DEF IsList
  <2>3. pushed \in AllColumns
    BY <2>1, <2>2, <1>2, <1>3, <1>4 DEF AllColumns
  <2> QED BY <2>3, <1>3, <1>4, <1>5, <1>6 DEF Shaped
<1>8. \A i \in 1..n : \A r : RowIs(cols, i, r) => RowIs(pushed, i, r)
  BY <1>3, <1>4, <1>5, <1>6 DEF RowIs
<1> QED BY <1>3, <1>4, <1>5, <1>6, <1>7, <1>8 DEF pushed, HasOneMoreRow

-----------------------------------------------------------------------------
\* What a row is decoded to is nothing, or one record (ColumnsAssumption).
LEMMA ResultIsRecord ==
    ASSUME NEW x \in Results
    PROVE  x = << >> \/ (x = <<x[1]>> /\ IsRecord(x[1]))
<1>1. CASE x = << >>
  BY <1>1
<1>2. CASE x # << >>
  <2>1. PICK c \in Cells : x = Decoded(c)
    BY <1>2 DEF Results
  <2>2. c.blob # << >> /\ c.entry # << >>
    BY <2>1, <1>2 DEF Decoded
  <2>3. c.blob[1] \in Blobs /\ c.entry[1] \in Entries
    BY <2>2 DEF Cells, Option
  <2> DEFINE d == DecodeOne[<<c.blob[1], c.entry[1]>>]
  <2>4. IsDecoded(d)
    BY <2>3, ColumnsAssumption
  <2>5. x = Flatten(d)
    BY <2>1, <2>2 DEF Decoded
  <2> HIDE DEF d
  <2>6. d # << >> /\ x = d[1]
    BY <2>5, <1>2 DEF Flatten
  <2>7. d = << <<d[1][1]>> >> /\ IsRecord(d[1][1])
    BY <2>4, <2>6, <1>2 DEF IsDecoded
  <2> QED BY <2>6, <2>7
<1> QED BY <1>1, <1>2

\* The rows decoded so far are the results of their cells.
Decodings ==
    /\ batch \in Seq(Cells)
    /\ records \in Seq(Results)
    /\ Len(records) <= Len(batch)
    /\ \A i \in 1..Len(records) : records[i] = Decoded(batch[i])

\* Decoding comes before building, and building takes every row.
Phases ==
    /\ row \in 0..Len(records)
    /\ phase \in {"decode", "build", "done"}
    /\ phase = "decode" => row = 0 /\ columns = EmptyColumns
    /\ phase # "decode" => Len(records) = Len(batch)
    /\ phase = "done" => row = Len(records)

IInv ==
    /\ Decodings
    /\ Phases
    /\ Shaped(columns, row)
    /\ \A i \in 1..row : RowIs(columns, i, records[i])

\* A builder has no rows at first, and fits that.
LEMMA InitIInv == Init => IInv
<1> SUFFICES ASSUME Init PROVE IInv
  OBVIOUS
<1>1. Decodings
  <2>1. batch \in Seq(Cells)
    BY DEF Init, Batches
  <2> QED BY <2>1 DEF Init, Decodings
<1>2. Phases
  BY DEF Init, Phases
<1>3. Shaped(EmptyColumns, 0)
  <2>1. IsList(EmptyList, 0)
    BY DEF IsList, IsListColumn, EmptyList, ListColumns
  <2>2. \A l \in Lists : EmptyColumns.list[l] = EmptyList
    BY DEF EmptyColumns
  <2>3. \A c \in Children : IsChild(EmptyColumns.child[c], 0)
    BY DEF IsChild, ChildColumns, EmptyColumns
  <2>4. EmptyColumns \in AllColumns
    <3>1. EmptyList \in ListColumns
      BY <2>1 DEF IsList
    <3> QED BY <3>1 DEF EmptyColumns, AllColumns, ChildColumns
  <2> QED BY <2>1, <2>2, <2>3, <2>4 DEF Shaped, EmptyColumns
<1> QED BY <1>1, <1>2, <1>3 DEF Init, IInv

\* A row put into the columns keeps the invariant, provided it is what its record says.
LEMMA RowKeepsIInv ==
    ASSUME IInv, phase = "build", row < Len(records), row' = row + 1,
           UNCHANGED <<batch, records, phase>>,
           NEW header \in Header, NEW valid \in BOOLEAN,
           NEW child \in [Children -> Option(Child)], NEW list \in [Lists -> Seq(Item)],
           columns' = Pushed(columns, header, valid, child, list),
           valid = (records[row + 1] # << >>),
           valid => /\ header = records[row + 1][1].header
                    /\ child = records[row + 1][1].child
                    /\ list = records[row + 1][1].list
    PROVE  IInv'
<1>1. row \in Nat /\ Len(records) \in Nat
  BY LenProperties DEF IInv, Phases, Decodings
<1>2. Decodings'
  BY DEF IInv, Decodings
<1>3. Phases'
  BY <1>1 DEF IInv, Phases
<1> DEFINE pushed == Pushed(columns, header, valid, child, list)
<1>4. HasOneMoreRow(pushed, columns, row, header, valid, child, list)
  <2>1. Shaped(columns, row)
    BY DEF IInv
  <2> QED BY <1>1, <2>1, PushedKeeps
<1>5. columns' = pushed
  OBVIOUS
<1> HIDE DEF pushed
<1>6. RowIs(pushed, row + 1, records[row + 1])
  BY <1>4 DEF HasOneMoreRow, RowIs
<1>7. \A i \in 1..row + 1 : RowIs(pushed, i, records[i])
  <2> TAKE i \in 1..row + 1
  <2>1. CASE i \in 1..row
    BY <2>1, <1>4 DEF HasOneMoreRow, IInv
  <2>2. CASE i = row + 1
    BY <2>2, <1>6
  <2> QED BY <2>1, <2>2, <1>1
<1> QED BY <1>2, <1>3, <1>4, <1>5, <1>7 DEF HasOneMoreRow, IInv

\* Every step keeps the invariant.
LEMMA NextIInv == IInv /\ [Next]_vars => IInv'
<1> SUFFICES ASSUME IInv, [Next]_vars PROVE IInv'
  OBVIOUS
<1>1. CASE DecodeRow
  <2> DEFINE n == Len(records)
             cells == batch[n + 1]
  <2>1. /\ batch \in Seq(Cells) /\ records \in Seq(Results)
        /\ n \in Nat /\ n < Len(batch)
        /\ records' = Append(records, Decoded(cells))
        /\ UNCHANGED <<batch, columns, row, phase>>
    BY <1>1, LenProperties DEF DecodeRow, IInv, Decodings
  <2>2. cells \in Cells
    BY <2>1
  <2>3. Decoded(cells) \in Results
    BY <2>2 DEF Results
  <2> HIDE DEF n, cells
  <2>4. /\ records' \in Seq(Results) /\ Len(records') = n + 1
        /\ \A i \in 1..n : records'[i] = records[i]
        /\ records'[n + 1] = Decoded(cells)
    BY <2>1, <2>3, AppendProperties DEF n
  <2>5. Decodings'
    <3>1. \A i \in 1..n + 1 : records'[i] = Decoded(batch[i])
      <4> TAKE i \in 1..n + 1
      <4>1. CASE i \in 1..n
        BY <4>1, <2>4 DEF IInv, Decodings, n
      <4>2. CASE i = n + 1
        BY <4>2, <2>4 DEF cells
      <4>3. i \in 1..n \/ i = n + 1
        BY <2>1
      <4> QED BY <4>1, <4>2, <4>3
    <3> QED BY <3>1, <2>1, <2>4 DEF Decodings
  <2>6. phase = "decode" /\ row = 0
    BY <1>1 DEF DecodeRow, IInv, Phases
  <2>7. Phases'
    BY <2>1, <2>4, <2>6 DEF IInv, Phases
  <2>8. Shaped(columns', row') /\ \A i \in 1..row' : RowIs(columns', i, records'[i])
    BY <2>1, <2>6 DEF IInv
  <2> QED BY <2>5, <2>7, <2>8 DEF IInv
<1>2. CASE StartBuild
  BY <1>2 DEF StartBuild, IInv, Decodings, Phases
<1>3. CASE AppendNull
  <2>1. columns' = Pushed(columns, NoHeader, FALSE, [c \in Children |-> << >>],
                         [l \in Lists |-> << >>])
    BY <1>3 DEF AppendNull, Pushed
  <2>2. /\ NoHeader \in Header
        /\ [c \in Children |-> << >>] \in [Children -> Option(Child)]
        /\ [l \in Lists |-> << >>] \in [Lists -> Seq(Item)]
    BY ColumnsAssumption DEF Option
  <2>3. /\ phase = "build" /\ row < Len(records) /\ row' = row + 1
        /\ UNCHANGED <<batch, records, phase>>
        /\ records[row + 1] = << >>
    BY <1>3 DEF AppendNull
  <2> QED BY <2>1, <2>2, <2>3, RowKeepsIInv
<1>4. CASE AppendRecord
  <2> DEFINE r == records[row + 1][1]
  <2>1. /\ phase = "build" /\ row < Len(records) /\ row' = row + 1
        /\ UNCHANGED <<batch, records, phase>>
        /\ records[row + 1] # << >>
    BY <1>4 DEF AppendRecord
  <2>2. records[row + 1] \in Results
    <3>1. row + 1 \in 1..Len(records)
      BY <2>1 DEF IInv, Phases
    <3> QED BY <3>1 DEF IInv, Decodings
  <2>3. IsRecord(r)
    BY <2>1, <2>2, ResultIsRecord
  <2>4. columns' = [header   |-> Append(columns.header, r.header),
                    validity |-> Append(columns.validity, TRUE),
                    child    |-> [c \in Children |-> PushChild(columns.child[c], r.child[c])],
                    list     |-> [l \in Lists |-> PushList(columns.list[l], r.list[l], TRUE)]]
    BY <1>4 DEF AppendRecord
  <2> HIDE DEF r
  <2>5. columns' = Pushed(columns, r.header, TRUE, r.child, r.list)
    BY <2>4 DEF Pushed
  <2>6. /\ r.header \in Header
        /\ r.child \in [Children -> Option(Child)]
        /\ r.list \in [Lists -> Seq(Item)]
    BY <2>3 DEF IsRecord, Option
  <2> QED BY <2>1, <2>5, <2>6, RowKeepsIInv DEF r
<1>5. CASE Assemble
  BY <1>5 DEF Assemble, IInv, Decodings, Phases
<1>6. CASE UNCHANGED vars
  BY <1>6 DEF vars, IInv, Decodings, Phases
<1> QED BY <1>1, <1>2, <1>3, <1>4, <1>5, <1>6 DEF Next, Step, Done

\* The invariant holds throughout.
THEOREM Invariant == Spec => []IInv
BY InitIInv, NextIInv, PTL DEF Spec

-----------------------------------------------------------------------------
(***************************************************************************)
(* What follows from it.                                                   *)
(***************************************************************************)
\* The state has its type; no offset of a list points outside its items.
THEOREM TypeCorrect == Spec => []TypeOK
<1>1. IInv => TypeOK
  <2> SUFFICES ASSUME IInv PROVE TypeOK
    OBVIOUS
  <2>1. \A i \in 1..Len(records) : records[i] = << >> \/ IsRecord(records[i][1])
    <3> TAKE i \in 1..Len(records)
    <3>1. records[i] \in Results
      BY DEF IInv, Decodings
    <3> QED BY <3>1, ResultIsRecord
  <2>2. ASSUME NEW l \in Lists, NEW k \in 1..Len(columns.list[l].offsets)
        PROVE  columns.list[l].offsets[k] \in 0..Len(columns.list[l].values)
    <3>1. IsList(columns.list[l], row)
      BY DEF IInv, Shaped
    <3> QED BY <3>1 DEF IsList, IsListColumn
  <2> QED BY <2>1, <2>2 DEF IInv, Decodings, Phases, TypeOK
<1> QED BY <1>1, Invariant, PTL

\* Arrow accepts the columns of every batch: all are of one length and the offsets of a
\* list go up from zero to the number of its items.
THEOREM Shape == Spec => []WellShaped
<1>1. IInv => WellShaped
  <2> SUFFICES ASSUME IInv PROVE WellShaped
    OBVIOUS
  <2>1. Shaped(columns, row)
    BY DEF IInv
  <2> QED BY <2>1 DEF Shaped, IsChild, IsList, WellShaped
<1> QED BY <1>1, Invariant, PTL

\* Read by validity and offsets, each row of the columns is the record that went in.
THEOREM ReadBack == Spec => []ReadsBack
<1>1. IInv => ReadsBack
  BY DEF IInv, RowIs, ReadsBack
<1> QED BY <1>1, Invariant, PTL

\* The column has a row for each row of the batch, and it is valid exactly when neither
\* cell is NULL and the slot they name holds a record.
THEOREM EveryRow == Spec => []AnswersEveryRow
<1>1. IInv => AnswersEveryRow
  <2> SUFFICES ASSUME IInv, phase = "done" PROVE AnswersEveryRow
    BY DEF AnswersEveryRow
  <2>1. row = Len(batch) /\ row = Len(records)
    BY DEF IInv, Phases
  <2>2. ASSUME NEW i \in 1..row
        PROVE  columns.validity[i] <=>
                  /\ batch[i].blob # << >>
                  /\ batch[i].entry # << >>
                  /\ DecodeOne[<<batch[i].blob[1], batch[i].entry[1]>>]
                        \notin {<< >>, << << >> >>}
    <3> DEFINE cells == batch[i]
               d == DecodeOne[<<cells.blob[1], cells.entry[1]>>]
    <3>1. columns.validity[i] = (records[i] # << >>)
      BY DEF IInv, RowIs
    <3>2. records[i] = Decoded(cells) /\ cells \in Cells
      <4>1. /\ i \in 1..Len(batch) /\ i \in 1..Len(records) /\ batch \in Seq(Cells)
            /\ \A k \in 1..Len(records) : records[k] = Decoded(batch[k])
        BY <2>1 DEF IInv, Decodings
      <4>2. batch[i] \in Cells
        BY <4>1
      <4> QED BY <4>1, <4>2
    <3>3. CASE cells.blob # << >> /\ cells.entry # << >>
      <4>1. cells.blob[1] \in Blobs /\ cells.entry[1] \in Entries
        BY <3>2, <3>3 DEF Cells, Option
      <4>2. IsDecoded(d)
        BY <4>1, ColumnsAssumption
      <4>3. records[i] = Flatten(d)
        BY <3>2, <3>3 DEF Decoded
      <4> HIDE DEF d
      <4>4. Flatten(d) = << >> <=> d \in {<< >>, << << >> >>}
        BY <4>2 DEF IsDecoded, Flatten
      <4> QED BY <4>3, <4>4, <3>1, <3>3 DEF d
    <3>4. CASE ~(cells.blob # << >> /\ cells.entry # << >>)
      BY <3>1, <3>2, <3>4 DEF Decoded
    <3> QED BY <3>3, <3>4
  <2> QED BY <2>1, <2>2 DEF AnswersEveryRow
<1> QED BY <1>1, Invariant, PTL

-----------------------------------------------------------------------------
(***************************************************************************)
(* The three struct scalars.                                               *)
(***************************************************************************)
\* A column of n rows whose fields have values of V.
IsFlatOf(column, fields, V, n) ==
    /\ column.values \in [fields -> Seq(V)]
    /\ column.validity \in Seq(BOOLEAN)
    /\ IsFlat(column, fields, n)

\* A value or a NULL for each of the fields, or NULLs for a NULL.
IsAnswer(answer, fields, V) == << >> \in V /\ answer \in Option([fields -> V])

\* `pushed` is column of n rows and a row that reads as the answer.
HasOneMoreAnswer(pushed, column, fields, V, n, answer) ==
    /\ IsFlatOf(pushed, fields, V, n + 1)
    /\ \A i \in 1..n : ReadFlat(pushed, i) = ReadFlat(column, i)
    /\ ReadFlat(pushed, n + 1) = answer

\* One more row: the rows before it read as before, and it reads as the answer.
LEMMA PushFlatKeeps ==
    ASSUME NEW V, NEW fields, NEW n \in Nat,
           NEW column, IsFlatOf(column, fields, V, n),
           NEW answer, IsAnswer(answer, fields, V)
    PROVE  HasOneMoreAnswer(PushFlat(column, answer), column, fields, V, n, answer)
<1> DEFINE pushed == PushFlat(column, answer)
           Cell(f) == IF answer = << >> THEN << >> ELSE answer[1][f]
<1>1. /\ column.values \in [fields -> Seq(V)] /\ column.validity \in Seq(BOOLEAN)
      /\ DOMAIN column.values = fields /\ Len(column.validity) = n
      /\ \A f \in fields : Len(column.values[f]) = n
  BY DEF IsFlatOf, IsFlat
<1>2. /\ pushed.values = [f \in fields |-> Append(column.values[f], Cell(f))]
      /\ pushed.validity = Append(column.validity, answer # << >>)
  BY <1>1 DEF PushFlat
<1>3. answer = << >> \/ (answer = <<answer[1]>> /\ answer[1] \in [fields -> V])
  BY DEF IsAnswer, Option
<1>4. ASSUME NEW f \in fields PROVE Cell(f) \in V
  BY <1>3 DEF IsAnswer
<1> HIDE DEF pushed, Cell
<1>5. ASSUME NEW f \in fields
      PROVE  /\ pushed.values[f] \in Seq(V) /\ Len(pushed.values[f]) = n + 1
             /\ \A i \in 1..n : pushed.values[f][i] = column.values[f][i]
             /\ pushed.values[f][n + 1] = Cell(f)
  <2>1. column.values[f] \in Seq(V) /\ Len(column.values[f]) = n
    BY <1>1
  <2>2. pushed.values[f] = Append(column.values[f], Cell(f))
    BY <1>2
  <2> QED BY <2>1, <2>2, <1>4, AppendProperties
<1>6. /\ pushed.validity \in Seq(BOOLEAN) /\ Len(pushed.validity) = n + 1
      /\ \A i \in 1..n : pushed.validity[i] = column.validity[i]
      /\ pushed.validity[n + 1] = (answer # << >>)
  <2>1. (answer # << >>) \in BOOLEAN
    OBVIOUS
  <2> QED BY <2>1, <1>1, <1>2, AppendProperties
<1>7. DOMAIN pushed.values = fields
  BY <1>2
<1>8. IsFlatOf(pushed, fields, V, n + 1)
  BY <1>2, <1>5, <1>6, <1>7 DEF IsFlatOf, IsFlat
<1>9. ASSUME NEW i \in 1..n PROVE ReadFlat(pushed, i) = ReadFlat(column, i)
  <2>1. [f \in fields |-> pushed.values[f][i]] = [f \in fields |-> column.values[f][i]]
    BY <1>5
  <2> QED BY <2>1, <1>1, <1>6, <1>7 DEF ReadFlat
<1>10. ReadFlat(pushed, n + 1) = answer
  <2>1. CASE answer = << >>
    BY <2>1, <1>6 DEF ReadFlat
  <2>2. CASE answer # << >>
    <3>1. [f \in fields |-> pushed.values[f][n + 1]] = answer[1]
      BY <1>3, <1>5, <2>2 DEF Cell
    <3> QED BY <3>1, <2>2, <1>3, <1>6, <1>7 DEF ReadFlat
  <2> QED BY <2>1, <2>2
<1> QED BY <1>8, <1>9, <1>10 DEF pushed, HasOneMoreAnswer

-----------------------------------------------------------------------------
(***************************************************************************)
(* The inductive invariant: the builders hold the answers to the rows gone *)
(* through, and mft_record is as its own invariant says.                   *)
(***************************************************************************)
HeaderValues ==
    {<< >>} \cup {<<HeaderOf[<<b, e>>][1][f]>> : b \in Blobs, e \in Entries, f \in HeaderFields}

ProbeValues ==
    {<< >>} \cup {<<ProbeOf[<<b, e>>].ok>> : b \in Blobs, e \in Entries}
            \cup {ProbeOf[<<b, e>>].error : b \in Blobs, e \in Entries}
            \cup {<<ProbeOf[<<b, e>>].kind>> : b \in Blobs, e \in Entries}

\* What the builders are after n rows.
HoldsHeaders(column, n) ==
    /\ IsFlatOf(column, HeaderFields, HeaderValues, n)
    /\ \A i \in 1..n : ReadFlat(column, i) = HeaderAnswer(batch[i])

HoldsProbes(column, n) ==
    /\ IsFlatOf(column, ProbeFields, ProbeValues, n)
    /\ \A i \in 1..n : ReadFlat(column, i) = ProbeAnswer(batch[i])

Calls ==
    /\ call \in {"record_header", "well_formed", "mft_record", "done"}
    /\ turn \in 0..Len(batch)
    /\ call = "done" => phase = "done"

FInv ==
    /\ IInv
    /\ Calls
    /\ HoldsHeaders(headers, HeaderRows)
    /\ HoldsProbes(probes, ProbeRows)

\* The answer of record_header is NULL or a struct of its fields.
LEMMA HeaderAnswerType ==
    ASSUME NEW cells \in Cells
    PROVE  HeaderAnswer(cells) \in Option([HeaderFields -> HeaderValues])
<1>1. CASE ~HasArguments(cells)
  BY <1>1 DEF HeaderAnswer, Option
<1>2. CASE HasArguments(cells)
  <2>1. cells.blob[1] \in Blobs /\ cells.entry[1] \in Entries
    BY <1>2 DEF HasArguments, Cells, Option
  <2> DEFINE header == HeaderOf[<<cells.blob[1], cells.entry[1]>>]
  <2>2. \A f \in HeaderFields : <<header[1][f]>> \in HeaderValues
    BY <2>1 DEF HeaderValues
  <2>3. HeaderAnswer(cells) =
          IF header = << >> THEN << >> ELSE <<[f \in HeaderFields |-> <<header[1][f]>>]>>
    BY <1>2 DEF HeaderAnswer
  <2> HIDE DEF header
  <2>4. [f \in HeaderFields |-> <<header[1][f]>>] \in [HeaderFields -> HeaderValues]
    BY <2>2
  <2> QED BY <2>3, <2>4 DEF Option
<1> QED BY <1>1, <1>2

\* The answer of well_formed is NULL or a struct of its fields.
LEMMA ProbeAnswerType ==
    ASSUME NEW cells \in Cells
    PROVE  ProbeAnswer(cells) \in Option([ProbeFields -> ProbeValues])
<1>1. CASE ~HasArguments(cells)
  BY <1>1 DEF ProbeAnswer, Option
<1>2. CASE HasArguments(cells)
  <2>1. cells.blob[1] \in Blobs /\ cells.entry[1] \in Entries
    BY <1>2 DEF HasArguments, Cells, Option
  <2> DEFINE p == ProbeOf[<<cells.blob[1], cells.entry[1]>>]
             r == [ok |-> <<p.ok>>, error |-> p.error, kind |-> <<p.kind>>]
  <2>2. <<p.ok>> \in ProbeValues /\ p.error \in ProbeValues /\ <<p.kind>> \in ProbeValues
    BY <2>1 DEF ProbeValues
  <2>3. ProbeAnswer(cells) = <<r>>
    BY <1>2 DEF ProbeAnswer
  <2>4. r \in [ProbeFields -> ProbeValues]
    BY <2>2 DEF ProbeFields
  <2> QED BY <2>3, <2>4 DEF Option
<1> QED BY <1>1, <1>2

\* At the beginning no row has been answered.
LEMMA InitFInv == StructInit => FInv
<1> SUFFICES ASSUME StructInit PROVE FInv
  OBVIOUS
<1>1. IInv
  BY InitIInv DEF StructInit
<1>2. Len(batch) \in Nat
  BY <1>1, LenProperties DEF IInv, Decodings
<1>3. Calls
  BY <1>2 DEF StructInit, Calls
<1>4. ASSUME NEW fields, NEW V PROVE IsFlatOf(FlatColumns(fields), fields, V, 0)
  <2>1. << >> \in Seq(V) /\ << >> \in Seq(BOOLEAN) /\ Len(<< >>) = 0
    OBVIOUS
  <2>2. /\ FlatColumns(fields).values = [f \in fields |-> << >>]
        /\ FlatColumns(fields).validity = << >>
    BY DEF FlatColumns
  <2> QED BY <2>1, <2>2 DEF IsFlatOf, IsFlat
<1>5. HeaderRows = 0 /\ ProbeRows = 0
  BY DEF StructInit, HeaderRows, ProbeRows
<1>6. HoldsHeaders(headers, 0) /\ HoldsProbes(probes, 0)
  BY <1>4 DEF StructInit, HoldsHeaders, HoldsProbes
<1> QED BY <1>1, <1>3, <1>5, <1>6 DEF FInv

\* A row of record_header.
LEMMA HeaderRowFInv == FInv /\ HeaderRow => FInv'
<1> SUFFICES ASSUME FInv, HeaderRow PROVE FInv'
  OBVIOUS
<1>1. /\ batch \in Seq(Cells) /\ turn \in Nat /\ turn < Len(batch) /\ Len(batch) \in Nat
      /\ batch[turn + 1] \in Cells
  <2>1. batch \in Seq(Cells) /\ turn \in 0..Len(batch) /\ turn < Len(batch)
    BY DEF FInv, IInv, Decodings, Calls, HeaderRow
  <2> QED BY <2>1, LenProperties
<1>2. IInv'
  BY NextIInv DEF FInv, HeaderRow
<1>3. Calls'
  BY <1>1 DEF FInv, Calls, HeaderRow, vars
<1>4. /\ HeaderRows = turn /\ HeaderRows' = turn + 1
      /\ ProbeRows = 0 /\ ProbeRows' = 0
  BY DEF HeaderRow, HeaderRows, ProbeRows
<1> DEFINE pushed == PushFlat(headers, HeaderAnswer(batch[turn + 1]))
<1>5. /\ IsFlatOf(pushed, HeaderFields, HeaderValues, turn + 1)
      /\ \A i \in 1..turn : ReadFlat(pushed, i) = ReadFlat(headers, i)
      /\ ReadFlat(pushed, turn + 1) = HeaderAnswer(batch[turn + 1])
  <2>1. IsFlatOf(headers, HeaderFields, HeaderValues, turn)
    BY <1>4 DEF FInv, HoldsHeaders
  <2>2. IsAnswer(HeaderAnswer(batch[turn + 1]), HeaderFields, HeaderValues)
    <3>1. << >> \in HeaderValues
      BY DEF HeaderValues
    <3>2. HeaderAnswer(batch[turn + 1]) \in Option([HeaderFields -> HeaderValues])
      BY <1>1, HeaderAnswerType
    <3> QED BY <3>1, <3>2 DEF IsAnswer
  <2>3. HasOneMoreAnswer(pushed, headers, HeaderFields, HeaderValues, turn,
                         HeaderAnswer(batch[turn + 1]))
    BY <1>1, <2>1, <2>2, PushFlatKeeps
  <2> QED BY <2>3 DEF HasOneMoreAnswer
<1>6. headers' = pushed /\ batch' = batch /\ probes' = probes
  BY DEF HeaderRow, vars
<1> HIDE DEF pushed
<1>7. \A i \in 1..turn + 1 : ReadFlat(pushed, i) = HeaderAnswer(batch[i])
  <2> TAKE i \in 1..turn + 1
  <2>1. CASE i \in 1..turn
    BY <2>1, <1>4, <1>5 DEF FInv, HoldsHeaders
  <2>2. CASE i = turn + 1
    BY <2>2, <1>5
  <2> QED BY <2>1, <2>2, <1>1
<1>8. HoldsHeaders(headers, HeaderRows)'
  BY <1>4, <1>5, <1>6, <1>7 DEF HoldsHeaders
<1>9. HoldsProbes(probes, ProbeRows)'
  BY <1>4, <1>6 DEF FInv, HoldsProbes
<1> QED BY <1>2, <1>3, <1>8, <1>9 DEF FInv

\* A row of well_formed.
LEMMA ProbeRowFInv == FInv /\ ProbeRow => FInv'
<1> SUFFICES ASSUME FInv, ProbeRow PROVE FInv'
  OBVIOUS
<1>1. /\ batch \in Seq(Cells) /\ turn \in Nat /\ turn < Len(batch) /\ Len(batch) \in Nat
      /\ batch[turn + 1] \in Cells
  <2>1. batch \in Seq(Cells) /\ turn \in 0..Len(batch) /\ turn < Len(batch)
    BY DEF FInv, IInv, Decodings, Calls, ProbeRow
  <2> QED BY <2>1, LenProperties
<1>2. IInv'
  BY NextIInv DEF FInv, ProbeRow
<1>3. Calls'
  BY <1>1 DEF FInv, Calls, ProbeRow, vars
<1>4. /\ ProbeRows = turn /\ ProbeRows' = turn + 1
      /\ HeaderRows = Len(batch) /\ HeaderRows' = Len(batch)
  BY DEF ProbeRow, HeaderRows, ProbeRows, vars
<1> DEFINE pushed == PushFlat(probes, ProbeAnswer(batch[turn + 1]))
<1>5. /\ IsFlatOf(pushed, ProbeFields, ProbeValues, turn + 1)
      /\ \A i \in 1..turn : ReadFlat(pushed, i) = ReadFlat(probes, i)
      /\ ReadFlat(pushed, turn + 1) = ProbeAnswer(batch[turn + 1])
  <2>1. IsFlatOf(probes, ProbeFields, ProbeValues, turn)
    BY <1>4 DEF FInv, HoldsProbes
  <2>2. IsAnswer(ProbeAnswer(batch[turn + 1]), ProbeFields, ProbeValues)
    <3>1. << >> \in ProbeValues
      BY DEF ProbeValues
    <3>2. ProbeAnswer(batch[turn + 1]) \in Option([ProbeFields -> ProbeValues])
      BY <1>1, ProbeAnswerType
    <3> QED BY <3>1, <3>2 DEF IsAnswer
  <2>3. HasOneMoreAnswer(pushed, probes, ProbeFields, ProbeValues, turn,
                         ProbeAnswer(batch[turn + 1]))
    BY <1>1, <2>1, <2>2, PushFlatKeeps
  <2> QED BY <2>3 DEF HasOneMoreAnswer
<1>6. probes' = pushed /\ batch' = batch /\ headers' = headers
  BY DEF ProbeRow, vars
<1> HIDE DEF pushed
<1>7. \A i \in 1..turn + 1 : ReadFlat(pushed, i) = ProbeAnswer(batch[i])
  <2> TAKE i \in 1..turn + 1
  <2>1. CASE i \in 1..turn
    BY <2>1, <1>4, <1>5 DEF FInv, HoldsProbes
  <2>2. CASE i = turn + 1
    BY <2>2, <1>5
  <2> QED BY <2>1, <2>2, <1>1
<1>8. HoldsProbes(probes, ProbeRows)'
  BY <1>4, <1>5, <1>6, <1>7 DEF HoldsProbes
<1>9. HoldsHeaders(headers, HeaderRows)'
  BY <1>4, <1>6 DEF FInv, HoldsHeaders
<1> QED BY <1>2, <1>3, <1>8, <1>9 DEF FInv

\* The batch is what it was, whatever is done with it.
LEMMA BatchStays == StructStep => batch' = batch
BY DEF StructStep, HeaderRow, HeadersDone, ProbeRow, ProbesDone, RecordStep, RecordsDone,
       Step, DecodeRow, StartBuild, AppendNull, AppendRecord, Assemble, vars

\* A step that takes no row of record_header or well_formed.
LEMMA OtherStepFInv ==
    ASSUME FInv, StructStep, UNCHANGED <<headers, probes>>, [Next]_vars, Calls',
           HeaderRows' = HeaderRows, ProbeRows' = ProbeRows
    PROVE  FInv'
<1>1. IInv'
  BY NextIInv DEF FInv
<1>2. batch' = batch
  BY BatchStays
<1>3. HoldsHeaders(headers, HeaderRows)'
  BY <1>2 DEF FInv, HoldsHeaders
<1>4. HoldsProbes(probes, ProbeRows)'
  BY <1>2 DEF FInv, HoldsProbes
<1> QED BY <1>1, <1>3, <1>4 DEF FInv

\* Every step answers one row at most, with the answer it is due.
LEMMA NextFInv == FInv /\ [StructNext]_structVars => FInv'
<1> SUFFICES ASSUME FInv, [StructNext]_structVars PROVE FInv'
  OBVIOUS
<1>1. Len(batch) \in Nat
  BY LenProperties DEF FInv, IInv, Decodings
<1>2. CASE HeaderRow
  BY <1>2, HeaderRowFInv
<1>3. CASE HeadersDone
  <2>1. UNCHANGED <<headers, probes>> /\ [Next]_vars /\ batch' = batch /\ StructStep
    BY <1>3 DEF HeadersDone, vars, StructStep
  <2>2. Calls'
    BY <1>1, <1>3, <2>1 DEF HeadersDone, FInv, Calls
  <2>3. HeaderRows' = HeaderRows /\ ProbeRows' = ProbeRows
    BY <1>3, <2>1 DEF HeadersDone, HeaderRows, ProbeRows
  <2> QED BY <2>1, <2>2, <2>3, OtherStepFInv
<1>4. CASE ProbeRow
  BY <1>4, ProbeRowFInv
<1>5. CASE ProbesDone
  <2>1. UNCHANGED <<headers, probes>> /\ [Next]_vars /\ batch' = batch /\ StructStep
    BY <1>5 DEF ProbesDone, vars, StructStep
  <2>2. Calls'
    BY <1>1, <1>5, <2>1 DEF ProbesDone, FInv, Calls
  <2>3. HeaderRows' = HeaderRows /\ ProbeRows' = ProbeRows
    BY <1>5, <2>1 DEF ProbesDone, HeaderRows, ProbeRows
  <2> QED BY <2>1, <2>2, <2>3, OtherStepFInv
<1>6. CASE RecordStep
  <2>1. UNCHANGED <<headers, probes>> /\ [Next]_vars /\ StructStep
    BY <1>6 DEF RecordStep, flatVars, StructStep, Next
  <2>2. batch' = batch
    BY <2>1, BatchStays
  <2>3. Calls'
    BY <1>6, <2>2 DEF RecordStep, flatVars, FInv, Calls
  <2>4. HeaderRows' = HeaderRows /\ ProbeRows' = ProbeRows
    BY <1>6, <2>2 DEF RecordStep, flatVars, HeaderRows, ProbeRows
  <2> QED BY <2>1, <2>3, <2>4, OtherStepFInv
<1>7. CASE RecordsDone
  <2>1. /\ UNCHANGED <<headers, probes>> /\ [Next]_vars /\ batch' = batch /\ phase' = phase
        /\ StructStep
    BY <1>7 DEF RecordsDone, vars, StructStep
  <2>2. Calls'
    BY <1>7, <2>1 DEF RecordsDone, FInv, Calls
  <2>3. HeaderRows' = HeaderRows /\ ProbeRows' = ProbeRows
    BY <1>7, <2>1 DEF RecordsDone, HeaderRows, ProbeRows
  <2> QED BY <2>1, <2>2, <2>3, OtherStepFInv
<1>8. CASE UNCHANGED structVars
  <2>1. UNCHANGED vars /\ UNCHANGED <<call, turn, headers, probes>> /\ batch' = batch
    BY <1>8 DEF structVars, flatVars, vars
  <2>2. IInv'
    BY <2>1, NextIInv DEF FInv
  <2>3. phase' = phase /\ HeaderRows' = HeaderRows /\ ProbeRows' = ProbeRows
    BY <2>1 DEF vars, HeaderRows, ProbeRows
  <2>4. Calls'
    BY <2>1, <2>3 DEF FInv, Calls
  <2>5. HoldsHeaders(headers, HeaderRows)' /\ HoldsProbes(probes, ProbeRows)'
    BY <2>1, <2>3 DEF FInv, HoldsHeaders, HoldsProbes
  <2> QED BY <2>2, <2>4, <2>5 DEF FInv
<1> QED BY <1>2, <1>3, <1>4, <1>5, <1>6, <1>7, <1>8 DEF StructNext, StructStep, Answered

\* The invariant holds throughout.
THEOREM StructInvariant == StructSpec => []FInv
BY InitFInv, NextFInv, PTL DEF StructSpec

-----------------------------------------------------------------------------
(***************************************************************************)
(* What follows from it.                                                   *)
(***************************************************************************)
\* Between two other calls mft_record behaves as it does alone: every step of the three
\* is one of its own or leaves its variables alone.
THEOREM BehavesAsAlone == StructSpec => Spec
<1>1. StructInit => Init
  BY DEF StructInit
<1>2. [StructNext]_structVars => [Next]_vars
  <2> SUFFICES ASSUME [StructNext]_structVars, ~RecordStep PROVE UNCHANGED vars
    BY DEF RecordStep, Next
  <2> QED
    BY DEF StructNext, StructStep, HeaderRow, HeadersDone, ProbeRow, ProbesDone, RecordsDone,
           Answered, structVars
<1> QED BY <1>1, <1>2, PTL DEF StructSpec, Spec

\* Arrow accepts the columns of all three scalars: every builder has a value or a NULL for
\* each row gone through, and offsets stay within their items.
THEOREM BuildersShaped == StructSpec => []BuildersAreShaped
<1>1. FInv /\ TypeOK /\ WellShaped => BuildersAreShaped
  BY DEF FInv, HoldsHeaders, HoldsProbes, IsFlatOf, BuildersAreShaped
<1> QED BY <1>1, StructInvariant, BehavesAsAlone, TypeCorrect, Shape, PTL

\* Each row of the three results is the header, the verdict or the record of its own cells.
THEOREM EveryRowAnswered == StructSpec => []RowsAnswered
<1>1. FInv /\ ReadsBack /\ AnswersEveryRow => RowsAnswered
  <2> SUFFICES ASSUME FInv, ReadsBack, AnswersEveryRow PROVE RowsAnswered
    OBVIOUS
  <2>1. \A i \in 1..HeaderRows : ReadFlat(headers, i) = HeaderAnswer(batch[i])
    BY DEF FInv, HoldsHeaders
  <2>2. \A i \in 1..ProbeRows : ReadFlat(probes, i) = ProbeAnswer(batch[i])
    BY DEF FInv, HoldsProbes
  <2>3. ASSUME NEW cells
        PROVE  HeaderAnswer(cells) =
                 LET h == HeaderOf[<<cells.blob[1], cells.entry[1]>>]
                 IN  IF cells.blob = << >> \/ cells.entry = << >> \/ h = << >> THEN << >>
                     ELSE <<[f \in HeaderFields |-> <<h[1][f]>>]>>
    BY DEF HeaderAnswer, HasArguments
  <2>4. ASSUME NEW cells
        PROVE  ProbeAnswer(cells) =
                 LET p == ProbeOf[<<cells.blob[1], cells.entry[1]>>]
                 IN  IF cells.blob = << >> \/ cells.entry = << >> THEN << >>
                     ELSE <<[ok |-> <<p.ok>>, error |-> p.error, kind |-> <<p.kind>>]>>
    BY DEF ProbeAnswer, HasArguments
  <2> QED BY <2>1, <2>2, <2>3, <2>4 DEF RowsAnswered
<1> QED BY <1>1, StructInvariant, BehavesAsAlone, ReadBack, EveryRow, PTL
=============================================================================
