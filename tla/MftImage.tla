------------------------------ MODULE MftImage ------------------------------
(***************************************************************************)
(* A $MFT byte buffer as the Decoder of mft-core/src/lib.rs sees it: a     *)
(* record stride and one slot per complete record.  What a slot's bytes    *)
(* parse to (parse.rs, record.rs) is its kind:                             *)
(*   "empty"   zeroed: no record at all                                    *)
(*   "bad"     unreadable, or the parser panicked: a diagnostic record     *)
(*   "record"  a FILE or BAAD record, live or deleted                      *)
(***************************************************************************)
EXTENDS Resolver

\* No $FILE_NAME attribute, hence no primary name.
NoName == << >>

\* The stride used when the first record does not state a plausible one.
DEFAULT_STRIDE == 1024

EmptySlot == [kind |-> "empty"]
BadSlot   == [kind |-> "bad"]

\* A parsed record: its header fields, the parent link of its primary name (name
\* is NoName or <<the name>>) and the number of $DATA streams it has.
RecordSlot(in_use, sequence, name, parent_entry, parent_seq, streams) ==
    [kind |-> "record", in_use |-> in_use, sequence |-> sequence, name |-> name,
     parent_entry |-> parent_entry, parent_seq |-> parent_seq, streams |-> streams]

IsSlot(slot) ==
    /\ slot.kind \in {"empty", "bad", "record"}
    /\ slot.kind = "record" => slot.in_use \in BOOLEAN /\ slot.streams \in Nat

\* record_stride gives a positive stride; what is left over after the last complete
\* record belongs to no slot.
IsImage(image) ==
    /\ image.stride \in Nat \ {0}
    /\ image.slots \in Seq({image.slots[i] : i \in DOMAIN image.slots})
    /\ \A i \in 1..Len(image.slots) : IsSlot(image.slots[i])

EntryCount(image) == Len(image.slots)

\* Decoder::slice: entry n, counted from 0.
Slot(image, n) == image.slots[n + 1]

-----------------------------------------------------------------------------
\* Whether decoding entry n yields a record (a malformed slot still does).
HasRecord(image, n) == Slot(image, n).kind # "empty"

\* Decoder::decode, for an entry that has a record.  diagnostic_record is not in
\* use and has neither names nor data.
Decode(image, n) ==
    LET slot == Slot(image, n)
    IN  IF slot.kind = "bad"
        THEN [entry |-> n, in_use |-> FALSE, sequence |-> 0, name |-> NoName,
              parent_entry |-> 0, parent_seq |-> 0, streams |-> 0]
        ELSE [entry |-> n, in_use |-> slot.in_use, sequence |-> slot.sequence,
              name |-> slot.name, parent_entry |-> slot.parent_entry,
              parent_seq |-> slot.parent_seq, streams |-> slot.streams]

-----------------------------------------------------------------------------
\* Entries that build_resolver records: deleted ones too, as long as they are named.
NamedEntries(image) ==
    {n \in 0..(EntryCount(image) - 1) :
        HasRecord(image, n) /\ Decode(image, n).name # NoName}

\* The node given to the root when no record of the image names it.
DefaultRootNode == Node(".", ROOT_ENTRY, ROOT_ENTRY, ROOT_ENTRY)

\* Decoder::build_resolver on an empty index.
BuildResolver(image) ==
    [e \in NamedEntries(image) \cup {ROOT_ENTRY} |->
        IF e \in NamedEntries(image)
        THEN LET rec == Decode(image, e)
             IN  Node(rec.name[1], rec.parent_entry, rec.parent_seq, rec.sequence)
        ELSE DefaultRootNode]
=============================================================================
