------------------------------- MODULE MCFanOut -------------------------------
(***************************************************************************)
(* Small instance of FanOut: relations of two or three columns, named or   *)
(* typed in every way; a batch of two rows and then one of one row, the    *)
(* cells of which run through NULL, a negative entry, a blob that is no    *)
(* $MFT and three records, one of them bad and hence without attributes.   *)
(***************************************************************************)
EXTENDS FanOut

ColumnOf(name, type) == [name |-> name, type |-> type]

Types == {"binary", "integer", "varchar"}

CellsOf(type) ==
    CASE type = "binary"  -> {<< >>, <<"mft">>, <<"junk">>}
      [] type = "integer" -> {<< >>, <<-1>>, <<0>>, <<1>>, <<2>>}
      [] type = "varchar" -> {<< >>, <<"text">>}

Pair(columns) == {<<c, d>> : c \in CellsOf(columns[1].type), d \in CellsOf(columns[2].type)}

TwoColumns ==
    {<<ColumnOf(n, t), ColumnOf(m, u)>> :
        n \in {"blob", "other"}, m \in {"entry", "other"}, t \in Types, u \in Types}

Functions == {"attributes", "streams"}

\* Some row without a NULL.
Full(columns) ==
    <<CHOOSE c \in CellsOf(columns[1].type) : c # << >>,
      CHOOSE c \in CellsOf(columns[2].type) : c # << >> >>

RelationsOfTwo ==
    UNION {{[function |-> f, columns |-> cs, batches |-> << <<r, s>>, <<Full(cs)>> >>] :
               f \in Functions, r \in Pair(cs), s \in Pair(cs)} :
           cs \in TwoColumns}

\* A column of the type, or one of the same name, before the column of the name; an
\* empty batch.
RelationsOfThree ==
    UNION {{[function |-> f,
             columns  |-> <<ColumnOf(n, t), ColumnOf("blob", "binary"), ColumnOf("entry", "integer")>>,
             batches  |-> << << <<c, <<"mft">>, e>> >>, << >> >>] :
               f \in Functions, n \in {"other", "blob"}, c \in CellsOf(t),
               e \in CellsOf("integer")} :
           t \in Types}

MCRelations == RelationsOfTwo \cup RelationsOfThree

MCItem == {"si", "data", "hidden"}

MCRecords ==
    [k \in {"mft"} \X {0, 1, 2} |->
        CASE k[2] = 0 -> <<[entry |-> 0, attributes |-> <<"si", "data">>, primary |-> <<"data">>, ads |-> << >>]>>
          [] k[2] = 1 -> <<[entry |-> 1, attributes |-> <<"data", "hidden">>, primary |-> <<"data">>,
                            ads |-> <<"hidden">>]>>
          [] k[2] = 2 -> <<[entry |-> 2, attributes |-> << >>, primary |-> << >>, ads |-> << >>]>>]
=============================================================================
