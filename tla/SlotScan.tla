------------------------------ MODULE SlotScan -------------------------------
(***************************************************************************)
(* Reading a whole $MFT, one decode after the other: the file is cut into  *)
(* slots by a stride taken from its first record (mft-core/src/lib.rs,     *)
(* record_stride, Decoder::open and slice), read once for the resolver     *)
(* index (build_resolver) and again for the rows of the timeline           *)
(* (mft-worker/src/table/read_mft.rs, emit), which become the columns of a *)
(* batch (arrow_map.rs, build_timeline_batch).                             *)
(*                                                                         *)
(* Every decode is the behaviour of RecordDecode.  ReadMft reads the same  *)
(* files as images (MftImage) in which a slot is decoded at once: what it  *)
(* takes for granted there is checked here.                                *)
(***************************************************************************)
EXTENDS RecordDecode

CONSTANTS
    Reads,        \* what to read: pairs of a file and a mode
    MAX_DEPTH     \* DEFAULT_MAX_DEPTH

Img == INSTANCE MftImage

\* Strides that record_stride accepts.
Plausible(stride) == stride \in 512..65536 /\ stride % 512 = 0

AreSlots(cut) ==
    /\ cut \in Seq({cut[i] : i \in DOMAIN cut})
    /\ \A i \in 1..Len(cut) : IsSlot(cut[i])

\* A file of records that are really `stride` bytes apart, with `rest` bytes behind the
\* last of them.  `signed` says whether it begins with the signature FILE, `stated` is
\* the stride its first record states; cut in any other stride, its bytes are `pieces`.
IsFile(file) ==
    /\ Plausible(file.stride)
    /\ file.signed \in BOOLEAN
    /\ file.stated \in Nat
    /\ file.rest \in 0..(file.stride - 1)
    /\ file.slots # << >>
    /\ AreSlots(file.slots)
    /\ AreSlots(file.pieces)

\* fn record_stride.
RecordStride(file) ==
    IF file.signed /\ Plausible(file.stated) THEN file.stated ELSE Img!DEFAULT_STRIDE

\* Decoder::open and entry_count.
EntryCount(file) == (Len(file.slots) * file.stride + file.rest) \div RecordStride(file)

Absent == [parse |-> "absent"]

\* Decoder::slice.
Slice(file, n) ==
    LET cut == IF RecordStride(file) = file.stride THEN file.slots ELSE file.pieces
    IN  IF n < Len(cut) THEN cut[n + 1] ELSE Absent

ASSUME ReadsAssumption ==
    /\ MAX_DEPTH \in Nat \ {0}
    /\ \A read \in Reads :
          /\ IsFile(read[1])
          /\ read[2] \in {"files", "streams", "allocated"}
          /\ EntryCount(read[1]) > 0

VARIABLES
    file,       \* the file that is read
    mode,       \* the mode of the scan
    task,       \* "index", "emit", "build" or "done"
    n,          \* the entry whose slot is being decoded
    index,      \* the resolver index
    rows,       \* the rows emitted
    batch       \* << >>, or <<the columns of the finished batch>>

scan == <<file, mode, task, n, index, rows, batch>>

scanVars == <<vars, scan>>

ScanInit ==
    /\ \E read \in Reads : file = read[1] /\ mode = read[2]
    /\ task = "index"
    /\ n = 0
    /\ index = Img!EmptyIndex
    /\ rows = << >>
    /\ batch = << >>
    /\ slot = Slice(file, 0)
    /\ phase = "parse"
    /\ off = 0
    /\ passed = << >>
    /\ diagnostics = << >>
    /\ view = EmptyView
    /\ outcome = << >>

-----------------------------------------------------------------------------
(***************************************************************************)
(* Decoder::decode, of one entry after the other.                          *)
(***************************************************************************)
DecodeStep == Step /\ UNCHANGED scan

Decoded(t) == task = t /\ phase = "done"

\* decode(entry) begins.
Load(entry) ==
    /\ n' = entry
    /\ slot' = Slice(file, entry)
    /\ phase' = "parse"
    /\ off' = 0
    /\ passed' = << >>
    /\ diagnostics' = << >>
    /\ view' = EmptyView
    /\ outcome' = << >>

\* The next turn of the loop over the entries, if there is one.
NextEntry == n + 1 < EntryCount(file) /\ Load(n + 1) /\ UNCHANGED task

LastEntry == n + 1 = EntryCount(file)

-----------------------------------------------------------------------------
(***************************************************************************)
(* Decoder::build_resolver.                                                *)
(***************************************************************************)
\* DecodedRecord::primary_name: << >>, or <<what the primary name says>>.
Link(record) ==
    LET name == PrimaryName(slot, record.view.file_names)
    IN  IF name = << >> THEN << >> ELSE <<slot.header[name[1]].link>>

\* BTreeMap::insert.
Put(map, key, value) == [k \in DOMAIN map \cup {key} |-> IF k = key THEN value ELSE map[k]]

\* The index with the entry that has just been decoded.
Indexed ==
    IF outcome = << >> \/ Link(outcome[1]) = << >> THEN index
    ELSE LET link == Link(outcome[1])[1]
         IN  Put(index, n, Img!Node(link.name, link.parent_entry, link.parent_seq,
                                    outcome[1].sequence))

\* (mutant: the first entry without a record ends the pass)
IndexEntryUntilGap ==
    /\ Decoded("index")
    /\ index' = Indexed
    /\ IF outcome = << >> THEN Load(0) /\ task' = "emit" ELSE NextEntry
    /\ UNCHANGED <<file, mode, rows, batch>>

IndexEntry ==
    /\ Decoded("index")
    /\ index' = Indexed
    /\ NextEntry
    /\ UNCHANGED <<file, mode, rows, batch>>

\* (mutant: the root's node takes the place of its record's)
IndexCompleteOverRoot ==
    /\ Decoded("index")
    /\ index' = Put(Indexed, Img!ROOT_ENTRY, Img!DefaultRootNode)
    /\ LastEntry
    /\ Load(0)
    /\ task' = "emit"
    /\ UNCHANGED <<file, mode, rows, batch>>

\* The root is given a node if no record has named it.
IndexComplete ==
    /\ Decoded("index")
    /\ index' = IF Img!ROOT_ENTRY \in DOMAIN Indexed THEN Indexed
                ELSE Put(Indexed, Img!ROOT_ENTRY, Img!DefaultRootNode)
    /\ LastEntry
    /\ Load(0)
    /\ task' = "emit"
    /\ UNCHANGED <<file, mode, rows, batch>>

-----------------------------------------------------------------------------
(***************************************************************************)
(* fn emit.                                                                *)
(***************************************************************************)
\* (mutant: the record's own diagnostics are not passed on)
MergedPathOnly(record, path) == IF path.end = "clean" THEN << >> ELSE <<path.end>>

\* The record's diagnostics and that of its path.
Merged(record, path) ==
    record.diagnostics \o (IF path.end = "clean" THEN << >> ELSE <<path.end>>)

\* The row that shows a stream: << >>, or <<its offset>>.
Row(record, stream) ==
    LET path == Img!Resolve(index, n, MAX_DEPTH)
    IN  [entry        |-> n,
         sequence     |-> record.sequence,
         full_path    |-> path,
         file_name    |-> [i \in 1..Len(Link(record)) |-> Link(record)[i].name],
         is_allocated |-> record.in_use,
         stream       |-> stream,
         diagnostics  |-> Merged(record, path)]

\* (mutant: the streams of a record that has ADS are its ADS)
StreamsShownAdsFirst(v) ==
    IF mode # "streams" THEN <<v.primary>>
    ELSE IF v.ads # << >> THEN [i \in 1..Len(v.ads) |-> <<v.ads[i]>>]
    ELSE <<v.primary>>

\* One row for each stream, or one that shows the primary stream if there is one.
StreamsShown(v) ==
    LET data == v.primary \o v.ads
    IN  IF mode # "streams" \/ data = << >> THEN <<v.primary>>
        ELSE [i \in 1..Len(data) |-> <<data[i]>>]

\* The rows of the entry that has just been decoded.
Emitted ==
    IF outcome = << >> \/ (mode = "allocated" /\ ~outcome[1].in_use) THEN << >>
    ELSE LET shown == StreamsShown(outcome[1].view)
         IN  [i \in 1..Len(shown) |-> Row(outcome[1], shown[i])]

EmitEntry ==
    /\ Decoded("emit")
    /\ rows' = rows \o Emitted
    /\ NextEntry
    /\ UNCHANGED <<file, mode, index, batch>>

EmitComplete ==
    /\ Decoded("emit")
    /\ rows' = rows \o Emitted
    /\ LastEntry
    /\ task' = "build"
    /\ UNCHANGED <<vars, file, mode, n, index, batch>>

-----------------------------------------------------------------------------
(***************************************************************************)
(* fn build_timeline_batch: a column for each field of the rows, and       *)
(* is_deleted; << >> is NULL.                                              *)
(***************************************************************************)
Column(field) == [i \in 1..Len(rows) |-> rows[i][field]]

Columns ==
    [entry        |-> Column("entry"),
     sequence     |-> Column("sequence"),
     full_path    |-> Column("full_path"),
     file_name    |-> Column("file_name"),
     is_allocated |-> Column("is_allocated"),
     is_deleted   |-> [i \in 1..Len(rows) |-> ~rows[i].is_allocated],
     stream       |-> Column("stream"),
     diagnostics  |-> Column("diagnostics")]

BuildBatch ==
    /\ task = "build"
    /\ batch' = <<Columns>>
    /\ task' = "done"
    /\ UNCHANGED <<vars, file, mode, n, index, rows>>

ScanDone == task = "done" /\ UNCHANGED scanVars

ScanStep ==
    \/ task \in {"index", "emit"} /\ DecodeStep
    \/ IndexEntry \/ IndexComplete \/ EmitEntry \/ EmitComplete \/ BuildBatch

ScanNext == ScanStep \/ ScanDone

\* Sequential code: it keeps running until it returns.
ScanSpec == ScanInit /\ [][ScanNext]_scanVars /\ WF_scanVars(ScanStep)

-----------------------------------------------------------------------------
(***************************************************************************)
(* The reference: the file as ReadMft takes it, an image whose slots are   *)
(* decoded at once.                                                        *)
(***************************************************************************)
\* How far the attributes of a sound chain can be read.
Readable(s) ==
    LET chain == Chain(s)
        bad == {i \in 1..Len(chain) : s.header[chain[i]].content \in {"error", "panic"}}
    IN  IF bad = {} THEN Len(chain) ELSE Min(bad) - 1

\* What makes decode_entry panic: the gate's reads, or the crate.
Panics(s) ==
    \/ \E k \in 0..(MAX_ATTRS - 1) :
          LET o == Position(s)[k]
          IN  /\ o + 16 <= s.size /\ s.size < o + 22
              /\ s.header[o].type # "end" /\ s.header[o].resident
              /\ s.header[o].length >= 16 /\ o + s.header[o].length <= s.size
    \/ /\ SoundChain(s)
       /\ Readable(s) < Len(Chain(s))
       /\ s.header[Chain(s)[Readable(s) + 1]].content = "panic"

\* The streams of a record: its last unnamed $DATA and those with a name.
Streams(s, offsets) == LastOf(Unnamed(s, offsets)) \o Named(s, offsets)

ImageRecord(s) ==
    LET seen == IF SoundChain(s) THEN SubSeq(Chain(s), 1, Readable(s)) ELSE << >>
        name == PrimaryName(s, Parsed(s, seen, "name"))
        streams == Len(Streams(s, seen))
    IN  IF name = << >> THEN Img!RecordSlot(s.in_use, s.sequence, Img!NoName, 0, 0, streams)
        ELSE LET link == s.header[name[1]].link
             IN  Img!RecordSlot(s.in_use, s.sequence, <<link.name>>, link.parent_entry,
                                link.parent_seq, streams)

ImageSlot(s) ==
    IF s.parse \in {"absent", "zeroed", "unsigned"} THEN Img!EmptySlot
    ELSE IF s.parse \in {"panic", "error"} \/ Panics(s) THEN Img!BadSlot
    ELSE ImageRecord(s)

ImageOf(f) ==
    [stride |-> RecordStride(f),
     slots |-> [i \in 1..EntryCount(f) |-> ImageSlot(Slice(f, i - 1))]]

\* The entries and paths of the rows that ReadMft has for an entry of an image.
ImageRows(image, e) ==
    LET record == Img!Decode(image, e)
        path == Img!Resolve(Img!BuildResolver(image), e, MAX_DEPTH)
    IN  IF ~Img!HasRecord(image, e) \/ (mode = "allocated" /\ ~record.in_use) THEN << >>
        ELSE [i \in 1..(IF mode = "streams" THEN Max({1, record.streams}) ELSE 1)
                 |-> <<e, record.in_use, path>>]

\* A record nothing is wrong with.
Intact(s) ==
    /\ s.parse = "entry"
    /\ WellFormed(s) = "ok"
    /\ SoundChain(s)
    /\ Readable(s) = Len(Chain(s))
    /\ Those(Chain(s), Typed(s, "list")) = << >>

\* The records of the file, where they really are.
TrueSlot(e) == file.slots[e + 1]

TrueEntries == 0..(Len(file.slots) - 1)

\* The index of its intact records.
TrueIndex ==
    [e \in {t \in TrueEntries :
               Intact(TrueSlot(t)) /\ ImageSlot(TrueSlot(t)).name # Img!NoName} |->
        LET s == ImageSlot(TrueSlot(e))
        IN  Img!Node(s.name[1], s.parent_entry, s.parent_seq, s.sequence)]

\* The rows of the finished batch that show an entry.
RowsOf(e) == {i \in 1..Len(batch[1].entry) : batch[1].entry[i] = e}

\* The streams that they show, in order.
StreamsOf(e) ==
    FlattenSeq([i \in 1..Len(batch[1].entry) |->
                   IF i \in RowsOf(e) THEN <<batch[1].stream[i]>> ELSE << >>])

-----------------------------------------------------------------------------
(***************************************************************************)
(* Properties.                                                             *)
(***************************************************************************)
ScanTypeOK ==
    /\ TypeOK
    /\ slot = Slice(file, n)
    /\ task \in {"index", "emit", "build", "done"}
    /\ n \in 0..(EntryCount(file) - 1)
    /\ \A e \in DOMAIN index : e < EntryCount(file) \/ e = Img!ROOT_ENTRY
    /\ \A i \in 1..Len(rows) : rows[i].entry \in 0..n
    /\ (batch # << >>) = (task = "done")

\* well_formed and record_header judge a slot by its header, decode by all of it, and a
\* query may ask all three.  What is well formed has a header, what has a header decodes to
\* a record; the record's first diagnostic is the verdict, unless a panic has taken its
\* place, and a record that is well formed has diagnostics exactly for its attributes' sake.
VerdictMatchesRecord ==
    phase = "done" =>
        LET verdict == WellFormed(slot)
            found == outcome[1].diagnostics
        IN  /\ verdict = "ok" => RecordHeader(slot) # << >>
            /\ RecordHeader(slot) # << >> => outcome # << >>
            /\ outcome # << >> /\ verdict # "ok" =>
                  \/ found # << >> /\ found[1] = verdict
                  \/ slot.parse = "entry" /\ Panics(slot) /\ found = <<"attr-overrun">>
            /\ outcome # << >> /\ verdict = "ok" => (found = << >>) = Intact(slot)

\* Decoding slot by slot gives what ReadMft takes for granted of an image: the index of
\* build_resolver, and of each entry its rows in order, under their paths.
ScansLikeImage ==
    task = "done" =>
        LET image == ImageOf(file)
        IN  /\ index = Img!BuildResolver(image)
            /\ [i \in 1..Len(batch[1].entry) |->
                   <<batch[1].entry[i], batch[1].is_allocated[i], batch[1].full_path[i]>>]
                 = FlattenSeq([i \in 1..EntryCount(file) |-> ImageRows(image, i - 1)])

\* Damage stays where it is ("every record decodes inside a per-record catch", README):
\* an intact record whose directories are intact up to the root has its row, under its
\* number, with its path and without diagnostics, whatever the other records hold.
DamageIsContained ==
    task = "done" =>
        \A e \in DOMAIN TrueIndex :
            LET path == Img!Resolve(TrueIndex, e, MAX_DEPTH)
            IN  path.end = "clean" /\ (mode = "allocated" => TrueSlot(e).in_use) =>
                  /\ RowsOf(e) # {}
                  /\ \A i \in RowsOf(e) :
                        /\ batch[1].full_path[i] = path
                        /\ batch[1].diagnostics[i] = << >>

\* The comment on the column diagnostics: "NULL on a clean parse".  A row without
\* diagnostics shows an intact record, as deleted if its header says so, by a name of its
\* own, which is a long one if it has one, under a path that ends in it.
CleanRowIsWhole ==
    task = "done" =>
        \A i \in 1..Len(batch[1].entry) :
            batch[1].diagnostics[i] = << >> =>
                LET e == batch[1].entry[i]
                    path == batch[1].full_path[i]
                    names == Parsed(TrueSlot(e), Chain(TrueSlot(e)), "name")
                    Shown(o) == batch[1].file_name[i] = <<TrueSlot(e).header[o].link.name>>
                    Long(o) == TrueSlot(e).header[o].long
                IN  /\ e \in TrueEntries
                    /\ Intact(TrueSlot(e))
                    /\ batch[1].sequence[i] = TrueSlot(e).sequence
                    /\ batch[1].is_deleted[i] = ~TrueSlot(e).in_use
                    /\ IF names = << >> THEN batch[1].file_name[i] = << >>
                       ELSE \E o \in Range(names) :
                               Shown(o) /\ (Long(o) \/ \A p \in Range(names) : ~Long(p))
                    /\ path.end = "clean"
                    /\ e # Img!ROOT_ENTRY =>
                          batch[1].file_name[i] = <<Last(path.components)>>

\* The comment on mode streams: "One row per $DATA stream (primary + each ADS)", and one
\* for a record without any.  In the other modes a record has one row, which shows its
\* unnamed stream.
EveryStreamOnce ==
    task = "done" =>
        \A e \in {t \in TrueEntries : Intact(TrueSlot(t))} :
            LET s == TrueSlot(e)
                shown == StreamsOf(e)
                streams == Streams(s, Chain(s))
            IN  CASE mode = "allocated" /\ ~s.in_use -> shown = << >>
                  [] mode = "streams" /\ streams # << >> ->
                        shown = [k \in 1..Len(streams) |-> <<streams[k]>>]
                  [] OTHER -> shown = <<LastOf(Unnamed(s, Chain(s)))>>

\* Whatever the file holds, it is read to its end and the batch is built.
ImageIsRead == <>(task = "done")
=============================================================================
