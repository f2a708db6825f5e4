# Verification of vgi-mft

TLA+ models of the `vgi-mft` worker (`crates/mft-core`, `crates/mft-worker`), the TLC
runs that check them, and TLAPS proofs about them. Paths below are relative to the
repository unless they name a module of this directory.

`vgi-mft` decodes the NTFS Master File Table (`$MFT`) for DuckDB. A `$MFT` is an array
of fixed-size records; a record carries names with a reference to the parent directory's
record, and data streams. The worker is asked for rows, over a local pipe or over HTTP,
and must survive corrupt images and being torn down between any two calls.

## 1. Inventory

| Part | State | Operations | Interacts with |
|---|---|---|---|
| Path resolver (`mft-core/src/resolver.rs`) | per call: `visited`, `components`, `current` | `resolve` | reads the index built by the decoder; called per emitted record and per `full_path` row |
| Image and decoder (`mft-core/src/lib.rs`, `parse.rs`) | bytes, stride, entry count | `record_stride`, `open`, `slice`, `decode`, `build_resolver` | the external `mft` crate parses a slot; panics are caught |
| Record decode (`mft-core/src/record.rs`, `data.rs`, `file_name.rs`, ...) | per call: attributes, names, streams, diagnostics | `attributes_within_bounds`, `decode_entry`, `diagnostic_record` | called by the decoder |
| Scan state (`mft-core/src/cursor.rs`) | cursor, resolver, source index | `to_bytes`, `from_bytes`, `next_entry` | the resume token of `read_mft` |
| `read_mft` (`mft-worker/src/table/read_mft.rs`) | sources, source index, decoder, resolver, entry cursor, count, pending resume | `producer`, `next_batch`, `encode_resume`, `restore_resume` | sources, decoder, resolver; the client keeps its token |
| Sources and arguments (`mft-worker/src/options.rs`) | none | `source`, `resolve_local`, `mode`, `host` | the directory a glob is resolved in, at every `producer` call |
| `full_path` (`mft-worker/src/scalar/full_path.rs`) | per batch: resolver cache and fingerprint | `process` | decoder, resolver |
| `mft_record` and the Arrow columns (`mft-worker/src/arrow_map.rs`) | per batch: a dozen column builders | `process`, `build_mft_record_array`, `build_timeline_batch` | decoder, record decode, the rows of `read_mft` |
| `attributes`, `streams` (`mft-worker/src/table_in_out/`) | the columns chosen at bind | `on_bind`, `process` | decoder, record decode |
| Timestomp heuristic (`mft-core/src/timestomp.rs`, `filetime.rs`) and its scalar | per batch: verdicts and a list column | `evaluate`, `process` | two timestamp quads |
| `record_header`, `well_formed` (`mft-worker/src/scalar/`) | per batch: a builder per field | `process` | decoder, error classification |

The worker has no threads of its own. What is hard is the sequence of calls: the
producer is a coroutine whose whole position must fit into a token, the token is written
after a batch has been returned, and a producer or its answer may be lost in between; the
directory and the files are read anew on the other side. Inside a call the hard parts are
loops over hostile data (parent links, attribute chains) and caches whose key says less
than their content depends on.

What makes each part correct:

* resolver: it ends on every index, climbs only links that are still valid, and finds a
  clean path exactly when there is one within the bound;
* `read_mft`: every row once, in order, whatever is torn down; every source read with its
  own index; the stream ends, and only when everything has arrived; sources that change,
  shrink or vanish in between make it go on or fail, never go back or stop in silence;
* decoder: what is wrong with one record costs that record, and what lies below it in the
  tree, and nothing else;
* `full_path`: a row's result depends on that row alone;
* record decode: the crate is given nothing that lies outside the record, decoding ends, a
  record that is not whole says so, and `record_header` and `well_formed` agree with it;
* column builders and fan-out: what comes out is, row for row, what went in, whichever
  rows are NULL, empty or unreadable, each with its own cells' answer;
* timestomp: a verdict is explained by the row's own reasons, and the scalar agrees with
  the flag of `read_mft`.

`PROJECT.json` lists the hazards at their lines with the properties that watch them.

## 2. Modules

| Module | Models | Depends on |
|---|---|---|
| `Resolver` | the data of path resolution: index nodes, the three shapes of a path, the tests of one turn, the recursive function `Resolve` | |
| `ResolverWalk` | the loop of `resolve` as a state machine over an arbitrary index | `Resolver` |
| `MftImage` | an image as its slots and its stride; `Decode`, `BuildResolver` | `Resolver` |
| `Timeline` | abstract: what `read_mft` promises | |
| `ReadMft` | the producer, its token, the client and its faults | `MftImage`, `Timeline` |
| `SourceDrift` | `ReadMft` over a directory and files that change, with tokens that may be unreadable | `ReadMft` |
| `FullPathScalar` | the row loop of `full_path` with its cache | `MftImage` |
| `RecordDecode` | one slot through parser, gate, attribute loop, with errors and panics | |
| `SlotScan` | a whole file: its stride, the pass that builds the index, the pass that emits rows, the timeline's columns | `RecordDecode`, `MftImage` |
| `RecordColumns` | the row loop of `mft_record` and the builders of its nested column | |
| `StructScalars` | `record_header`, `well_formed` and `mft_record` asked of the same batch | `RecordColumns` |
| `Timestomp` | from FILETIME to verdict, and the scalar's row loop with its list column | |
| `FanOut` | bind and row loop of `attributes` and `streams` | |
| `ResolverWalkProofs`, `FullPathScalarProofs`, `SlotScanProofs`, `TimestompProofs`, `FanOutProofs` | theorems | the module they name (`SlotScanProofs` also holds those of `RecordDecode`) |
| `ReadMftProofs` | theorems of `ReadMft`, and of `SourceDrift` | `SourceDrift` |
| `StructScalarsProofs` | theorems of `RecordColumns`, and of `StructScalars` | `StructScalars` |
| `DataInduction` | lemmas: induction over numbers, sequences that are flattened or joined, the climb of `Resolve` | `Resolver` |
| `MC...` | small instances for TLC | the module they name |

An operator preceded by a comment `(mutant: ...)` is a slip someone could make in the
code; it is used by no specification. `PROJECT.json` names the property that notices it.

### Abstractions

* A path is not a string but what the string is made of: how the walk ended, the entry
  that `$Orphan` quotes, and the component names.
* A slot of an image is what its bytes parse to: nothing (zeroed), a malformed record (a
  parse error or a caught panic), or a record with the fields that rows and paths depend
  on. The `mft` crate's parser is thereby outside the model. That a slot may be taken to be
  decoded at once is not assumed: `SlotScan` decodes the same files step by step, and
  `ScansLikeImage` says that index and rows are those of the image.
* A row is identified by source, entry and stream, and carries host label and path; the
  other columns are copied from the record and do not influence control.
* A Rust `Option` is a sequence of length at most one. JSON encoding of the token is taken
  to be lossless for the fields that are read back; `pending_paths`, `max_depth` and
  `resolver_built` are written but never read, and left out.

### `ReadMft` step by step

`NewProducer` is `producer` followed by `restore_resume` when the client holds a token.
`CallNextBatch` is the prologue of `produce`, which takes `pending_resume`. `OpenSource`,
`OpenFails`, `SkipSource` and `DecodeEntry` are the turns of the two nested loops; the
inner loop runs only under the condition of the outer one, so both are one guard
`BatchOpen`. `DecodeEntry` covers the whole turn: the cursor, the fan-out of `emit`, the
count, and `advance_source` after the last entry. `ReturnBatch` also encodes the token, as
`encode_resume` is called right after a batch; `ReturnEnd` and `OpenFails` answer without
one. `BatchArrives` and `VerdictArrives` are the client's. `TearDown` drops the producer
between two calls (every HTTP call has a producer of its own), `Fault` in the middle of a
call or before the answer has arrived.

### `SourceDrift` step by step

The steps of `ReadMft`, and between them: `DirectoryChanges` (the glob resolves to another
list, or to none), `FileChanges` (a file holds another image), `NewProducerFromUnreadable`
(`from_bytes` gives the default state) and `ProducerFails` (`resolve_local` finds nothing).
The query starts with sources, as `on_bind` has resolved them once. A producer that lives
on notices neither change until it opens its next source, as in the code.

### `RecordDecode` step by step

A slot is what the crate's parser makes of its bytes and, for an entry, the attribute
headers at the offsets that their lengths lead to; each header carries what the crate will
make of the attribute. `NoRecord` and `BadRecord` settle the slots that `decode` answers
without attributes. `GatePasses` is one turn of `attributes_within_bounds`, `GateOpens`,
`GateCloses` and `GatePanics` the ways out of it; the sums are those of `usize`, modulo
`WORD`. `AttributeDecoded`, `AttributeFails`, `AttributePanics` and `AttributesEnd` are the
turns of `decode_entry`, `Assemble` its end. A panic anywhere is `diagnostic_record`, as
`decode_entry_safe` catches it. `PrimaryName`, `WellFormed` and `RecordHeader` are
functions of the result or of the slot.

### `SlotScan` step by step

A file is a sequence of slots with the stride they really have, the stride its first record
states and whether it begins with `FILE`; cut in another stride it is made of `pieces`.
`RecordStride`, `EntryCount` and `Slice` are `record_stride`, `open` and `slice`. Each
decode is a behaviour of `RecordDecode` (`DecodeStep`); when it is done, `IndexEntry` takes
its result into the index and loads the next slot, `IndexComplete` after the last one, and
adds the root's node. The second pass is that of `produce`: `EmitEntry` and `EmitComplete`
append the rows that `emit` makes of a record, with its path and the two kinds of
diagnostics joined. `BuildBatch` is `build_timeline_batch`. Batches and resumes are
`ReadMft`'s; here the file is read at one go. The reference operators of the module know
where the records really are (`TrueSlot`) and which are intact, and compute from that what
a reader may expect.

### The batch functions

`RecordColumns`, `Timestomp` and `FanOut` each loop over the rows of a batch, one action
per kind of row. What `decode_one` returns for a blob and an entry is a constant of
`RecordColumns` and `FanOut`, so that their results do not depend on what a record is.
`StructScalars` runs three calls over one batch: `HeaderRow` and `ProbeRow` push to flat
builders, then `mft_record` takes its steps. What they answer to one slot is a constant here;
how the three answers to it agree follows from the decoder and is `VerdictMatchesRecord` of
`SlotScan`.
`RecordColumns` has the builders of one column as sequences; an operator of the reference
(`ReadChild`, `ReadList`) reads them the way Arrow does. `Timestomp` keeps the digits that
decide: ticks within a microsecond, microseconds within the coarser units, and the epoch
are small constants. `FanOut` chooses the columns by name, then by type, at `Bind`, and
reads them by type at each row.

## 3. Runs

| Run | Instance | Shows |
|---|---|---|
| `ResolverWalk` | root and three entries, every combination of presence, parent and expected sequence number; bounds 1 to 4 | `TypeOK`, `WalkIsFreshChain`, `EndingIsJustified`, `CleanIffShortChain`, `LoopComputesResolve`, `WalkEnds` |
| `ReadMft` | three files, each one of five images, or one blob; all modes; batches of two rows; two faults, any number of tear-downs between calls | `ReceivedUpToToken`, `BatchFromTokenToCursor`, `ReadsWithOwnResolver`, `BatchesAreFull`, `EmittedCountsReceived`, `RehydrationIsLossless`, the refinement `ImplementsTimeline`, and `ScanEnds` |
| `SourceDrift` | two of the images of `ReadMft` and two others that are longer, in another stride or damaged; a third file appears behind the two or all vanish; one file changes; one token is unreadable; one fault | `ResumesRightFile`, `OneIndexPerSource`, `NeverGoesBack`, `NothingLost`, and `DriftScanEnds` |
| `FullPathScalar` | batches of up to three rows over three blobs with distinct fingerprints and NULLs | `PathIsOfOwnBlob`, `OneBlobBuildsOnce` |
| `SlotScan` | files of one record: every chain of up to three headers out of fourteen kinds, in records that end at and after the content of one, a gate of three turns; files of six records, of which three are of eleven kinds each (whole, in each other's directories, deleted, torn, overrun, panicking, empty, nameless, cut off by an error) and the root is there or not, in three modes; files of other strides with bytes left over | of the decode: `GateIsExact`, `ContentInBounds`, `CleanRecordIsWhole`, `VerdictMatchesRecord`; of the scan: `ScanTypeOK`, `ScansLikeImage`, `DamageIsContained`, `CleanRowIsWhole`, `EveryStreamOnce`, and `ImageIsRead` |
| `StructScalars` | batches of up to three rows over two records, one of them torn, an empty slot, an unreadable one, entries out of range and NULLs | `BuildersAreShaped`, `RowsAnswered` (for `mft_record` these contain `TypeOK` and `WellShaped`, `ReadsBack` and `AnswersEveryRow` of `RecordColumns`) |
| `Timestomp` | pairs of quads of eight times around zero, the Unix epoch and a whole second; four units | `SuspectForOwnReasons`, `VerdictMatchesTimeline`, `OrderReasonsAreTrue` |
| `FanOut` | relations of two batches, columns named and typed in every way, NULLs, negative entries | `BatchesAnswered`, `OnlyTypesFail` |

The other runs find a disagreement between the code and what the repository says of it
(section 5).

Why the bounds are enough. Walks: a loop through the entry, a loop beside it, a dangling
and a stale link, and chains one shorter than, equal to and one longer than the bound all
exist among four entries. Scans: the images contain a record with more streams than a
batch holds, a child whose directory comes after it, a reused parent slot, malformed and
empty slots, a source without rows and one without entries, and a stride that is not the
default; with three sources every order of these occurs, so batches end inside a source,
at its end, at the end of the last one, and across several. Two faults suffice for a
fault during the recovery from a fault. Changing sources: one change of each kind, at any
point, meets a producer before, in and behind the source it concerns; a token that is
unreadable twice only starts over twice. `ResumesRightFile`, `OneIndexPerSource` and
`NeverGoesBack` are stated for scans whose tokens parse, since a scan that starts over
repeats its rows, and `NothingLost` for files that do not change. Records: three headers
suffice for an attribute before and after the one that fails, and a gate of three turns for
chains that use them up; `WORD` is out of their reach, as it is on a 64-bit host. Files:
with three records that vary, a damaged record lies before, between and behind intact ones
and above, below and beside them in the tree; every file holds a record (`ReadMft` has empty
files), and its stride is one that can be read from it or the fallback. The run
`StrideLost` shows what happens otherwise.
Columns: three rows are a row with a neighbour on either side. `MaxFaults`, `MaxRelisted`,
`MaxRewritten`, `MaxUnreadable`, `MaxRows` and `MAX_ROWS` are the only bounds on behaviours;
the proofs hold without a value for any of them. `MAX_ATTRS` is a constant of the code.

Fairness. `resolve`, `decode_entry`, the passes over a file and `process` are sequential
code, so their steps are weakly fair.
`ReadMft` assumes weak fairness of the producer's steps (a call runs to its end) and of
the client's (DuckDB drains a table function; it asks until the stream ends). Faults and
tear-downs are not fair, and after a `TearDown` nothing obliges another one to happen: on
HTTP every call ends in one, but `TearDown` is disabled until the new producer has taken
its token, so tear-downs cannot prevent a call either. `SourceDrift` assumes the same;
no change of the sources is fair.

## 4. Proofs

Every safety and action property of the passing runs is proved by TLAPS, for every value of
the constants that satisfies the assumptions the modules state (`ParametersAssumption`,
`ReadMftAssumption`, `DriftAssumption`, `FullPathAssumption`, `SlotsAssumption`,
`ReadsAssumption`, `ColumnsAssumption`, `ProbesAssumption`, `TimesAssumption`,
`RelationsAssumption`). Where a theorem has a hypothesis of its own, it is given below with
the reason for it.

### The walk (`ResolverWalkProofs`)

`TypeCorrect`, `FreshChain` and `EndingsJustified`: the chain invariant is inductive
together with the types, as a turn that climbs has just tested that the parent is neither
on the walk nor the root, and is fresh.

`CleanExactly`: a walk that ends clean has been along a chain that ends below the root;
if there is one within the bound, the walk follows it link by link (`ChainIsFollowed`), and since no
entry comes twice in such a chain (`NoRepetition`: from there on it would repeat itself and
never reach the root) neither the bound nor the test for a loop stops it.

`LoopIsResolve`: the loop returns what the recursive operator `Resolve` defines, which the
other modules use. That the recursion defines a function at all is proved in
`DataInduction` (`ClimbExists`), by induction on how many entries are left until the bound:
at the bound a turn does not go on, and one turn before it needs only the function for one
entry more. The invariant `OnTheWay` says that the result for the entries visited so far is
that for the first of them alone.

### One decode (`SlotScanProofs`, first half)

Hypothesis: `NoWrap`, that the sum of an offset and the fields of its header stays below
`WORD`. Offsets and fields have 32 bits at most, so this is so where `usize` has 64. Where
it has 32 (the browser build) sums may wrap; the theorems say nothing of it, no run reaches
it, and `ContentInBounds` would not hold (section 5).

`DecodeFits` is the inductive invariant: the gate has passed exactly the first attributes of
the chain, each inside the record by true arithmetic, and stands at the header behind them;
the crate's iterator is at one the gate has passed, or at the terminator. `DecodeGate`
follows: `GateIsExact` and `ContentInBounds`.

`DecodeShows` adds what has been collected: the view is that of the attributes read so far
(`ViewOf`), by lemmas that say what one attribute more does to each field. A finished decode
has the outcome `OutcomeOf` of its slot, an expression without state: what becomes of a slot
does not depend on what was decoded before. `DecodedWhole` follows, `CleanRecordIsWhole`.

### The scan (`SlotScanProofs`, second half)

Hypothesis: `FileNoWrap`, the same for every slot a file can be cut into.

`ScanFits` (`ScanGate`) says that the decode at hand is one of the entry the scan is at, and
so carries the gate's theorems over. `ScanShows` says that the index and the rows are those
of an image's entries behind the scan; each decode adds what the image has of its entry
(`SlotMatches`), so `ScanIsImage` and `ScanRecordsWhole` follow. `RowsShow` says the same of
the rows themselves, entry by entry (`RowOf`, `RowsFor`).

`ScanVerdicts` compares the three ways to judge a slot: the first flaw of a header is the
verdict (`FirstFlaw`) and stays the first diagnostic whatever the attributes add
(`IllFormedOutcome`), and without flaws there are diagnostics exactly if the slot is not
intact (`IntactOutcome`, `CleanIsIntact`).

The last three theorems say what a reader of the finished batch may rely on, and need a
second hypothesis: `StrideKept`, that the file is cut in the stride its records really have.
Every file of the run `SlotScan` keeps it; what happens otherwise is shown by the run
`StrideLost`. From it, entry e is the record e of the file, and nothing else is one
(`CutAtRecords`).

* `DamageContained`: the index of the intact records is part of the index of the scan
  (`IndexHoldsIntact`), and a path that is clean by a part of an index is the same by the
  whole of it (`CleanPathStays`, by induction along the climb): what other records add, or
  fail to, is not on its way.
* `CleanRows`: only an intact slot has an outcome without diagnostics (`CleanIsIntact`), its
  name is a long one if there is one (`PrimaryNameIs`), and the last component of a clean
  path is the name of the entry the climb began at (`ResolveEndsInName`).
* `StreamsShownOnce`: the rows of other entries contribute nothing to the streams of an
  entry, and its own contribute each stream once (`StreamsOfOne`, `StreamsJoined`).

### `read_mft` (`ReadMftProofs`)

The inductive invariant `IInv` has five parts. `SurroundingsFixed`: the images and sources
are what the constants allow. `ControlFits`: what each `pc` says about the answer and the
token in flight. `ProducerFits`: the producer's position is one of the scan, and an open
decoder and the resolver belong to the source at that position. `ClientFits`: what has
arrived is exactly the rows before the token's position, and the token, put into a new
producer, gives the position and resolver it was taken from. `AnswerFits`: rows in progress
are exactly those between the two positions. None of the checked properties is inductive
alone: `ReceivedUpToToken` after `BatchArrives` needs `BatchFromTokenToCursor`, which after
a resume needs the token to be right, which after `ReturnBatch` needs the producer's
resolver to be that of its source. The lemmas on `HoldsExactly` (an empty stretch, joining
two adjacent ones, adding the rows of one record) carry the argument. From `IInv`:
`TypeCorrect`, `ExactlyOnce`, `BatchContinues`, `OwnResolver`, `CountIsExact`, `Lossless`,
and `Refinement`, that every step is a step of `Timeline` or leaves it alone. `BatchesFull`
needs `FillFits` besides: the rows in progress end in those of one record, before which the
batch was not full.

Over sources that change, `IInv` does not hold, and the argument is in layers that need less
and less of the directory. `DriftTyped` and `DriftControl` need nothing. `DriftForward` says
that rows are in the order of reading, at the client and at the producer, and that rows of
one source have their paths from one index; it needs that no token was unreadable, as the
properties do. From it: `DriftOnlyForward` and `DriftOneIndex`. `DriftRightFile` has the
hypothesis that the listings follow one list of names (`Follows`): files appear behind the
others, or vanish from the end. The run `DriftInserted` shows that a file in front of the
others is enough to break it. `DriftLosesNothing` has the hypothesis `LosesNoFile`: the
listings follow one list, and are empty or no shorter than the one asked for. With fewer
files a producer ends early, and rows are lost.

### The batch functions

* `FullPathScalarProofs`: `TypeCorrect` says that a cached resolver is that of some blob
  with the cached fingerprint; `CacheInvisible` follows for blobs whose fingerprints
  differ, which is a hypothesis of the theorem (the run `FullPathLookAlike` shows why).
  `BuiltOnce`: a batch of one blob builds its resolver once, at the first row that is not
  NULL, whatever rows lie between.
* `StructScalarsProofs`, for `RecordColumns`: `IInv` says that all columns are of `row`
  rows, their offsets lie within their items, and each earlier row reads back as its record.
  `PushListKeeps` is the heart of it: pushing the items of one more row leaves every earlier
  slice of the list as it was, because all earlier offsets are at most the length before,
  and the new slice is the items pushed. `PushChildKeeps` and `PushedKeeps` carry that over
  to all columns at once; `AppendNull` and `AppendRecord` are two instances. From `IInv`:
  `Shape`, `ReadBack` and `EveryRow`. `ColumnsAssumption` says only that `decode_one`
  returns an error, nothing, or a record.
* For the three scalars together, `FInv` adds to that invariant what the flat builders hold
  after the rows gone through. `PushFlatKeeps` says that a row pushed leaves every earlier
  row of every field as it was and reads as the answer; `HeaderRow` and `ProbeRow` are its
  two instances. `BehavesAsAlone` says that among the other calls `mft_record` takes the
  steps of `RecordColumns`, so that its theorems carry over. `BuildersShaped` and
  `EveryRowAnswered` join the two.
* `TimestompProofs`: `OwnReasonsOnly` follows the same argument on the list column. For
  `VerdictsAgree` and `OrderIsTrue` the conversions are shown to be monotonic, and inverse to
  each other where the unit of the column holds the time exactly, which is the condition in
  the properties; the arithmetic is in lemmas on division by any positive number.
* `FanOutProofs`: the invariant `FanInv` says that what has been built of a batch is the
  answers to its rows so far, joined (`FlattenSeq`); a row more is one more part of the
  join (`OneMoreRow`). `AnsweredInOrder` and `FailsForTypes` follow; a record is labelled
  with the number it was asked for, by `RelationsAssumption`. `OnlyTypesFail` speaks of the column that is
  used, since a relation may have two columns of one name.

### Induction (`DataInduction`)

The induction theorems of the library take the statement as an operator, which the provers
at hand cannot instantiate. Here a statement is the set of numbers it is true of
(`Induction`), and a recursion is a step function whose iteration exists
(`IterationExists`). Both rest on `Least`: a set of numbers has a least member, since the
intervals from 0 to its members are finite sets, among which strict inclusion is
well-founded. What follows for data is proved once: flattening a sequence of sequences adds
one sequence at a time, and `Resolve` is what one turn makes of itself.

### Only model-checked

What must eventually happen: `WalkEnds`, `ScanEnds`, `DriftScanEnds` and `ImageIsRead` rest
on fairness, which TLAPS does not reason about here.

## 5. Disagreements found

Four runs end in a counterexample: the code does something else than the repository says.

| Run | What it shows |
|---|---|
| `DriftInserted` | a file that sorts before the others and appears during a scan makes a rehydrated producer continue in the wrong file: the token's label is not compared |
| `FullPathLookAlike` | two blobs that differ outside the sampled bytes share a cache entry |
| `PanicFreesRecord` | a record whose decoding panics is reported as not allocated, whatever its header says |
| `StrideLost` | the stride of the whole file is read from its first record, and from that only if it begins with `FILE`: in an image of 4096-byte records whose first one is torn, no intact record is found |

Smaller disagreements that the models show as well, and that have no run of their own
because a glance at the line settles them:

* `resolve` never compares the root's sequence number, although its comment makes no
  exception for it (`AtRoot` comes before `ParentUsable`);
* in mode `allocated` a malformed slot yields no row, although the README says that a
  malformed record does (`RowCount`);
* `full_path` never returns NULL for entry 5 (`DefaultRootNode`);
* of two unnamed `$DATA` attributes only the last one is kept, without a diagnostic
  (`Collect`);
* `well_formed` does not look at attributes and is `ok` for a record that decodes to
  `attr-overrun` (`WellFormed`);
* `records_emitted` counts rows, of which a record has one for each stream, although its
  comment says records (`DecodeEntry`);
* a time up to 900 ns off a whole second has the whole-second tell (`ToMicros`);
* `fn-newer-than-si` never occurs without the strong reason
  `si-creation-before-fn-creation`, which is the same comparison (`Reasons`);
* a relation without a BLOB column is bound if one of its columns is called blob, and
  fails at the first row that is not NULL (`FindColumn`);
* where `usize` has 32 bits, as in the browser build, a sum in the gate may wrap and compare
  as small (`Plus`), and content be let through that does not fit.

## 6. Not modelled

Bytes and the external parser; Arrow schemas; catalog texts and registration; the panic
hook; the bindings of the browser build; synthetic test images.

Timestamps, sizes, links and flags in the columns of `build_timeline_batch`: each is copied
from the record to the row and pushed in the same turn as the columns that are modelled;
`is_timestomp_suspect` is in `Timestomp`. The overflow of the multiplication in `ts_micros`
for times some 292,000 years from the epoch. Sizes, run lists and flags of attributes, which
are copied and decide nothing. `MftScanState::advance`, which only a test calls.
`encode_resume` before the first batch after a restore, which would state the beginning of
the scan: the caller asks after a batch.

## 7. Plan

Done: the modules of section 2, and a proof of every property of a passing run that does
not rest on fairness.

Next, in this order:

1. Refinement: that the scan of `SlotScan`, seen from `ReadMft`, is the scan of an image is
   a property of the finished scan (`ScanIsImage`); step by step it would be a refinement of
   a small abstract specification of two passes.
2. The decode where `usize` has 32 bits: which part of `ContentInBounds` remains when a sum
   of the gate wraps, for the browser build.
3. `SourceDrift`: a weaker `NothingLost` for listings that lose files in the middle, which
   the code neither detects nor reports.
