---------------------------- MODULE MCSlotScan -----------------------------
(***************************************************************************)
(* Small instances of SlotScan: files of one record, which may be any of   *)
(* MCRecordDecode; files of six records, the first three of which are of   *)
(* eleven kinds, the sixth the root's or empty; and files of other strides.  *)
(***************************************************************************)
EXTENDS SlotScan, MCRecordDecode

MC_MAX_DEPTH == 3

NameOf(e, parent, seq) ==
    [Header("name", 16) EXCEPT
        !.link = [name |-> <<"a", "b", "c", "d", "e", ".">>[e + 1], parent_entry |-> parent,
                  parent_seq |-> seq],
        !.long = TRUE]

\* A record whose headers are h[1], h[2], ... and then a terminator.
Holding(flags, h) ==
    Entry(flags[1], flags[2], flags[3], 120,
          [o \in {8 + 16 * i : i \in 0..Len(h)} |->
              IF o < 8 + 16 * Len(h) THEN h[(o - 8) \div 16 + 1] ELSE End])

Live == <<"FILE", "yes", TRUE>>
Free == <<"FILE", "yes", FALSE>>
Torn == <<"BAAD", "no", TRUE>>

InRoot(e) == Holding(Live, <<NameOf(e, 5, 5)>>)

Zeroed == [parse |-> "zeroed"]

\* What may be found at entry e: in the root, in the next entry's directory, deleted,
\* torn, overrun, with two streams, panicking in an attribute, empty, panicking as a
\* whole, without a name, and with an attribute that does not decode before its name.
Kinds(e) ==
    {InRoot(e),
     Holding(Live, <<NameOf(e, (e + 1) % 3, 1), Header("data", 16)>>),
     Holding(Free, <<NameOf(e, 5, 5)>>),
     Holding(Torn, <<NameOf(e, 5, 5)>>),
     Holding(Live, <<NameOf(e, 5, 5), Header("other", Huge)>>),
     Holding(Live, <<NameOf(e, 1, 1), [Header("data", 16) EXCEPT !.named = TRUE]>>),
     Holding(Live, <<NameOf(e, 5, 5), [Header("other", 16) EXCEPT !.content = "panic"]>>),
     Zeroed,
     [parse |-> "panic"],
     Holding(Free, <<Header("si", 16)>>),
     Holding(Live, <<[NameOf(e, 5, 5) EXCEPT !.long = FALSE],
                     [Header("name", 16) EXCEPT !.content = "error"]>>)}

HasSignature(s) == s.parse = "entry" /\ s.signature = "FILE"

File(slots, stride, stated, rest, pieces) ==
    [slots |-> slots, stride |-> stride, signed |-> HasSignature(slots[1]), stated |-> stated,
     rest |-> rest, pieces |-> pieces]

Single == {<<File(<<s>>, 1024, 1024, 0, << >>), "streams">> : s \in MCSlots \ {Absent}}

Six ==
    {<<File(<<a, b, c, Zeroed, Zeroed, last[1]>>, 1024, 1024, 0, << >>), last[2]>> :
        a \in Kinds(0), b \in Kinds(1), c \in Kinds(2),
        last \in {<<InRoot(5), "streams">>, <<Zeroed, "files">>, <<InRoot(5), "allocated">>}}

\* Strides stated, and bytes behind the last record.
Odd ==
    {<<File(<<InRoot(0), b>>, by[1], by[2], by[3], << >>), "files">> :
        b \in Kinds(1), by \in {<<4096, 4096, 300>>, <<1024, 700, 1000>>, <<512, 512, 0>>}}

MCReads == Single \cup Six \cup Odd

\* Two records of 4096 bytes, the first of them torn: cut every 1024 bytes, a record is a
\* piece that ends too early and three pieces without a signature.
Piece == [parse |-> "error", kind |-> "truncated"]

TornFirst ==
    {<<File(<<Holding(Torn, <<NameOf(0, 5, 5)>>), InRoot(1)>>, 4096, 4096, 0,
            <<Piece, Zeroed, Zeroed, Zeroed, Piece, Zeroed, Zeroed, Zeroed>>), "files">>}
=============================================================================
