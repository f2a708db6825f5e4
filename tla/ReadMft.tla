------------------------------ MODULE ReadMft -------------------------------
(***************************************************************************)
(* The read_mft table function (mft-worker/src/table/read_mft.rs) together *)
(* with the client that drains it.                                         *)
(*                                                                         *)
(* The client asks for batch after batch.  Between two batches, or in the  *)
(* middle of one, the producer may be torn down; the client then has a new *)
(* one made, hands it the resume token of the last batch that arrived and  *)
(* asks again.  One action is one step of the producer's code between two  *)
(* points where a tear-down could make a difference.                       *)
(*                                                                         *)
(* A Rust Option is a sequence of length at most one.                      *)
(***************************************************************************)
EXTENDS Integers, FiniteSets, MftImage

CONSTANTS
    Files,        \* names of the files a scan may read
    BlobLabel,    \* the label of an inline blob, which is read like a file
    Images,       \* what a file may contain
    Contents,     \* what the files may contain together
    Listings,     \* what the glob may resolve to: non-empty sequences of names
    Modes,        \* the modes of the scans to consider
    HostArg,      \* the explicit `host` argument: << >> or <<host>>
    BATCH_ROWS,   \* rows after which a batch is closed
    MAX_DEPTH,    \* DEFAULT_MAX_DEPTH
    MaxFaults     \* bound: tear-downs in mid-call and lost answers

ASSUME ReadMftAssumption ==
    /\ \A image \in Images : IsImage(image)
    /\ Contents \subseteq [Files -> Images]
    /\ Listings \subseteq Seq(Files)
    /\ Modes \subseteq {"files", "streams", "allocated"}
    /\ BATCH_ROWS \in Nat \ {0}
    /\ MAX_DEPTH \in Nat \ {0}
    /\ MaxFaults \in Nat

VARIABLES
    \* the scan's surroundings, fixed in this module
    listing,            \* what the glob resolves to
    content,            \* what each file contains
    mode,               \* the producer's mode
    \* the producer (struct ReadMftProducer), meaningless while pc = "down"
    pc,                 \* "down", "idle", "produce", or "reply" once a call has an answer
    sources, source_idx, decoder, resolver, entry_cursor, records_emitted, pending_resume,
    rows,               \* rows of the batch in progress, or of the answer
    answer,             \* "none", "batch", "end" or "error": what next_batch returned
    resume,             \* the token encoded after it returned a batch
    \* the client
    received,           \* rows of all batches that have arrived
    token,              \* the resume token that came with the last of them, if any
    status,             \* "running", "done" or "failed"
    faults              \* tear-downs in mid-call and lost answers so far

surroundings == <<listing, content, mode>>
position == <<sources, source_idx, decoder, resolver, entry_cursor, records_emitted>>
producer == <<position, pending_resume, rows, answer, resume>>
client == <<received, token, status>>
vars == <<surroundings, pc, producer, client, faults>>

None == << >>
Some(x) == <<x>>
Unwrap(option) == option[1]

-----------------------------------------------------------------------------
(***************************************************************************)
(* Rows (fn emit).                                                         *)
(***************************************************************************)

\* fn host_label, for the file that is being read.
HostLabel(file) ==
    IF HostArg # None THEN HostArg ELSE IF file = BlobLabel THEN None ELSE Some(file)

\* How many rows a record fans out to.
FanOut(rec, m) ==
    CASE m = "allocated" -> IF rec.in_use THEN 1 ELSE 0
      [] m = "streams"   -> IF rec.streams = 0 THEN 1 ELSE rec.streams
      [] m = "files"     -> 1

Row(src, file, index, n, k) ==
    [src |-> src, entry |-> n, stream |-> k, host |-> HostLabel(file),
     path |-> Resolve(index, n, MAX_DEPTH)]

\* The number of rows that entry n of an image yields.
RowCount(image, n, m) == IF HasRecord(image, n) THEN FanOut(Decode(image, n), m) ELSE 0

Emit(src, file, index, image, n, m) ==
    [k \in 1..RowCount(image, n, m) |-> Row(src, file, index, n, k)]

-----------------------------------------------------------------------------
(***************************************************************************)
(* The resume token (struct MftScanState).  pending_paths, max_depth and   *)
(* resolver_built are never read back and are left out.                    *)
(***************************************************************************)

\* (mutant: the token states the default stride whatever the offset was computed with)
EncodeResumeDefaultStride(label, src, n, dec, index, emitted) ==
    LET record_size == IF dec = None THEN DEFAULT_STRIDE ELSE Unwrap(dec).stride
    IN  [source |-> label, byte_offset |-> n * record_size, record_size |-> DEFAULT_STRIDE,
         records_emitted |-> emitted, resolver |-> index, source_index |-> src]

\* (mutant: the resolver is not cloned into the token)
EncodeResumeWithoutResolver(label, src, n, dec, index, emitted) ==
    LET record_size == IF dec = None THEN DEFAULT_STRIDE ELSE Unwrap(dec).stride
    IN  [source |-> label, byte_offset |-> n * record_size, record_size |-> record_size,
         records_emitted |-> emitted, resolver |-> EmptyIndex, source_index |-> src]

\* (mutant: the token points past the source that is being read)
EncodeResumeNextSource(label, src, n, dec, index, emitted) ==
    LET record_size == IF dec = None THEN DEFAULT_STRIDE ELSE Unwrap(dec).stride
    IN  [source |-> label, byte_offset |-> n * record_size, record_size |-> record_size,
         records_emitted |-> emitted, resolver |-> index, source_index |-> src + 1]

\* fn encode_resume.  Once the producer has let go of a source there is no decoder
\* to ask for the stride.
EncodeResume(label, src, n, dec, index, emitted) ==
    LET record_size == IF dec = None THEN DEFAULT_STRIDE ELSE Unwrap(dec).stride
    IN  [source |-> label, byte_offset |-> n * record_size, record_size |-> record_size,
         records_emitted |-> emitted, resolver |-> index, source_index |-> src]

\* MftScanState::next_entry.
NextEntry(state) ==
    IF state.record_size = 0 THEN 0 ELSE state.byte_offset \div state.record_size

\* The label of the source being read; empty past the last one.
CurrentLabel == IF source_idx < Len(sources) THEN sources[source_idx + 1] ELSE ""

-----------------------------------------------------------------------------
(***************************************************************************)
(* Initial states: no producer yet, nothing received.                      *)
(***************************************************************************)

\* The state of the producer's fields when there is no producer.
NoProducer ==
    /\ sources = << >>
    /\ source_idx = 0
    /\ decoder = None
    /\ resolver = EmptyIndex
    /\ entry_cursor = 0
    /\ records_emitted = 0
    /\ pending_resume = None
    /\ rows = << >>
    /\ answer = "none"
    /\ resume = None

Init ==
    /\ listing \in Listings
    /\ content \in Contents
    /\ mode \in Modes
    /\ pc = "down"
    /\ NoProducer
    /\ received = << >>
    /\ token = None
    /\ status = "running"
    /\ faults = 0

(***************************************************************************)
(* fn producer, and restore_resume when the client holds a token.          *)
(***************************************************************************)
NewProducer ==
    /\ pc = "down"
    /\ status = "running"
    /\ pc' = "idle"
    /\ sources' = listing
    /\ pending_resume' = token
    /\ UNCHANGED <<surroundings, source_idx, decoder, resolver, entry_cursor,
                   records_emitted, rows, answer, resume, client, faults>>

(***************************************************************************)
(* fn next_batch: the prologue of fn produce.                              *)
(***************************************************************************)
\* (mutant: the scan starts over from the first source)
ApplyPendingFirstSource(state) ==
    /\ entry_cursor' = NextEntry(state)
    /\ records_emitted' = state.records_emitted
    /\ source_idx' = 0
    /\ resolver' = state.resolver
    /\ decoder' = None

\* (mutant: the count is not restored)
ApplyPendingWithoutCount(state) ==
    /\ entry_cursor' = NextEntry(state)
    /\ source_idx' = state.source_index
    /\ resolver' = state.resolver
    /\ decoder' = None
    /\ UNCHANGED records_emitted

ApplyPending(state) ==
    /\ entry_cursor' = NextEntry(state)
    /\ records_emitted' = state.records_emitted
    /\ source_idx' = state.source_index
    /\ resolver' = state.resolver
    /\ decoder' = None

\* (mutant: the pending state is read but not taken)
CallNextBatchKeepsPending ==
    /\ pc = "idle"
    /\ status = "running"
    /\ pc' = "produce"
    /\ IF pending_resume = None
       THEN UNCHANGED position
       ELSE ApplyPending(Unwrap(pending_resume)) /\ UNCHANGED sources
    /\ rows' = << >>
    /\ answer' = "none"
    /\ resume' = None
    /\ UNCHANGED <<surroundings, pending_resume, client, faults>>

CallNextBatch ==
    /\ pc = "idle"
    /\ status = "running"
    /\ pc' = "produce"
    /\ IF pending_resume = None
       THEN UNCHANGED position
       ELSE ApplyPending(Unwrap(pending_resume)) /\ UNCHANGED sources
    /\ pending_resume' = None
    /\ rows' = << >>
    /\ answer' = "none"
    /\ resume' = None
    /\ UNCHANGED <<surroundings, client, faults>>

(***************************************************************************)
(* The two nested loops of fn produce.  The inner one runs under the       *)
(* condition of the outer one, so a turn of either starts from here.       *)
(***************************************************************************)
\* (mutant: a full batch takes one more record)
BatchOpenWhenFull == pc = "produce" /\ Len(rows) <= BATCH_ROWS

BatchOpen == pc = "produce" /\ Len(rows) < BATCH_ROWS

SourcesExhausted == source_idx >= Len(sources)

CurrentFile == sources[source_idx + 1]

\* (mutant: the index is built although one came with the token)
OpenSourceRebuilds ==
    /\ BatchOpen
    /\ decoder = None
    /\ ~SourcesExhausted
    /\ decoder' = Some(content[CurrentFile])
    /\ resolver' = BuildResolver(content[CurrentFile])
    /\ UNCHANGED <<surroundings, pc, sources, source_idx, entry_cursor, records_emitted,
                   pending_resume, rows, answer, resume, client, faults>>

\* fn ensure_open, when it opens the next source: a resolver that came with the
\* token is kept, else it is built.
OpenSource ==
    /\ BatchOpen
    /\ decoder = None
    /\ ~SourcesExhausted
    /\ decoder' = Some(content[CurrentFile])
    /\ resolver' = IF resolver = EmptyIndex THEN BuildResolver(content[CurrentFile])
                                            ELSE resolver
    /\ UNCHANGED <<surroundings, pc, sources, source_idx, entry_cursor, records_emitted,
                   pending_resume, rows, answer, resume, client, faults>>

\* SourceRef::load fails: the call returns the error and the batch is dropped.
OpenFails ==
    /\ BatchOpen
    /\ decoder = None
    /\ ~SourcesExhausted
    /\ CurrentFile # BlobLabel
    /\ pc' = "reply"
    /\ answer' = "error"
    /\ rows' = << >>
    /\ UNCHANGED <<surroundings, position, pending_resume, resume, client, faults>>

\* (mutant: the resolver outlives its source)
AdvanceSourceKeepsResolver ==
    /\ decoder' = None
    /\ entry_cursor' = 0
    /\ source_idx' = source_idx + 1
    /\ UNCHANGED resolver

\* fn advance_source.
AdvanceSource ==
    /\ decoder' = None
    /\ resolver' = EmptyIndex
    /\ entry_cursor' = 0
    /\ source_idx' = source_idx + 1

\* (mutant: an empty source is closed, but source_idx stays)
SkipSourceReopens ==
    /\ BatchOpen
    /\ decoder # None
    /\ entry_cursor >= EntryCount(Unwrap(decoder))
    /\ decoder' = None
    /\ resolver' = EmptyIndex
    /\ UNCHANGED <<surroundings, pc, sources, source_idx, entry_cursor, records_emitted,
                   pending_resume, rows, answer, resume, client, faults>>

\* Nothing (left) to read in the source that was opened.
SkipSource ==
    /\ BatchOpen
    /\ decoder # None
    /\ entry_cursor >= EntryCount(Unwrap(decoder))
    /\ AdvanceSource
    /\ UNCHANGED <<surroundings, pc, sources, records_emitted, pending_resume, rows,
                   answer, resume, client, faults>>

\* One turn of the inner loop: decode an entry, fan it into rows, and let go of the
\* source when it was the last.
DecodeEntry ==
    /\ BatchOpen
    /\ decoder # None
    /\ LET image == Unwrap(decoder)
           batch == Emit(source_idx, CurrentFile, resolver, image, entry_cursor, mode)
       IN  /\ entry_cursor < EntryCount(image)
           /\ rows' = rows \o batch
           /\ records_emitted' = records_emitted + Len(batch)
           /\ IF entry_cursor + 1 >= EntryCount(image)
              THEN AdvanceSource
              ELSE entry_cursor' = entry_cursor + 1 /\ UNCHANGED <<source_idx, decoder, resolver>>
    /\ UNCHANGED <<surroundings, pc, sources, pending_resume, answer, resume, client, faults>>

\* (mutant: the end of a source ends the loop)
LoopOverAtSourceEnd == pc = "produce" /\ (Len(rows) >= BATCH_ROWS \/ decoder = None)

\* The outer loop is over: the batch is full, or ensure_open found no source left.
LoopOver ==
    /\ pc = "produce"
    /\ \/ Len(rows) >= BATCH_ROWS
       \/ decoder = None /\ SourcesExhausted

\* A batch is returned, and its token encoded.
ReturnBatch ==
    /\ LoopOver
    /\ rows # << >>
    /\ pc' = "reply"
    /\ answer' = "batch"
    /\ resume' = Some(EncodeResume(CurrentLabel, source_idx, entry_cursor, decoder,
                                   resolver, records_emitted))
    /\ UNCHANGED <<surroundings, position, pending_resume, rows, client, faults>>

\* No row was produced: the stream has ended.
ReturnEnd ==
    /\ LoopOver
    /\ rows = << >>
    /\ pc' = "reply"
    /\ answer' = "end"
    /\ UNCHANGED <<surroundings, position, pending_resume, rows, resume, client, faults>>

-----------------------------------------------------------------------------
(***************************************************************************)
(* The client, and what can happen to the producer (vgi and DuckDB).       *)
(***************************************************************************)

\* The answer arrives.  The producer stays, ready for the next call.
BatchArrives ==
    /\ pc = "reply"
    /\ answer = "batch"
    /\ received' = received \o rows
    /\ token' = resume
    /\ pc' = "idle"
    /\ rows' = << >>
    /\ answer' = "none"
    /\ resume' = None
    /\ UNCHANGED <<surroundings, position, pending_resume, status, faults>>

VerdictArrives ==
    /\ pc = "reply"
    /\ answer \in {"end", "error"}
    /\ status' = IF answer = "end" THEN "done" ELSE "failed"
    /\ pc' = "idle"
    /\ answer' = "none"
    /\ UNCHANGED <<surroundings, position, pending_resume, rows, resume, received, token, faults>>

DropProducer ==
    /\ pc' = "down"
    /\ sources' = << >>
    /\ source_idx' = 0
    /\ decoder' = None
    /\ resolver' = EmptyIndex
    /\ entry_cursor' = 0
    /\ records_emitted' = 0
    /\ pending_resume' = None
    /\ rows' = << >>
    /\ answer' = "none"
    /\ resume' = None

\* On the HTTP transport every call gets a producer of its own.
TearDown ==
    /\ pc = "idle"
    /\ status = "running"
    /\ pending_resume = None
    /\ token # None
    /\ DropProducer
    /\ UNCHANGED <<surroundings, client, faults>>

\* The producer is lost before it has answered, or its answer is; the client will
\* ask again with the token it has.
Fault ==
    /\ pc \in {"produce", "reply"}
    /\ faults < MaxFaults
    /\ faults' = faults + 1
    /\ DropProducer
    /\ UNCHANGED <<surroundings, client>>

\* The query has its result.
Finished == status # "running" /\ UNCHANGED vars

ProducerStep ==
    \/ OpenSource \/ OpenFails \/ SkipSource \/ DecodeEntry \/ ReturnBatch \/ ReturnEnd

ClientStep == NewProducer \/ CallNextBatch \/ BatchArrives \/ VerdictArrives

Next == ProducerStep \/ ClientStep \/ TearDown \/ Fault \/ Finished

\* A call runs to its end unless the producer is lost, and the client keeps asking
\* until the stream ends (DuckDB drains a table function).  Faults are not fair.
Spec == Init /\ [][Next]_vars /\ WF_vars(ProducerStep) /\ WF_vars(ClientStep)

-----------------------------------------------------------------------------
(***************************************************************************)
(* The reference: every row of every source, each with the path it has in  *)
(* the complete index of its own source.                                   *)
(***************************************************************************)
SourceImage(src) == content[listing[src + 1]]

ExpectedRow(src, n, k) ==
    Row(src, listing[src + 1], BuildResolver(SourceImage(src)), n, k)

ExpectedRows ==
    UNION {UNION {{ExpectedRow(src, n, k) : k \in 1..RowCount(SourceImage(src), n, mode)} :
                  n \in 0..(EntryCount(SourceImage(src)) - 1)} :
           src \in 0..(Len(listing) - 1)}

Abstract == INSTANCE Timeline WITH expected <- ExpectedRows

\* A position in the scan is a source and an entry of it, in lexicographic order.
PositionLeq(p, q) == p[1] < q[1] \/ (p[1] = q[1] /\ p[2] <= q[2])

StateBegin == <<0, 0>>

StatePosition(state) == <<state.source_index, NextEntry(state)>>

ClientPosition == IF token = None THEN StateBegin ELSE StatePosition(Unwrap(token))

ProducerPosition == <<source_idx, entry_cursor>>

RowPosition(r) == <<r.src, r.entry>>

Between(r, low, high) ==
    PositionLeq(low, RowPosition(r)) /\ ~PositionLeq(high, RowPosition(r))

\* seq holds the rows of the records from low up to high: in order, each of them
\* once and no other row.
HoldsExactly(seq, low, high) ==
    /\ seq \in Seq(ExpectedRows)
    /\ Abstract!Ordered(seq)
    /\ \A i \in 1..Len(seq) : Between(seq[i], low, high)
    /\ \A r \in ExpectedRows : Between(r, low, high) => \E i \in 1..Len(seq) : seq[i] = r

-----------------------------------------------------------------------------
(***************************************************************************)
(* Properties.                                                             *)
(***************************************************************************)

\* A resume token: no more than the fields that are read back, and the label.
IsScanState(state) ==
    /\ state.source_index \in Nat
    /\ state.byte_offset \in Nat
    /\ state.record_size \in Nat
    /\ state.records_emitted \in Nat

TypeOK ==
    /\ listing \in Listings
    /\ content \in Contents
    /\ mode \in Modes
    /\ pc \in {"down", "idle", "produce", "reply"}
    /\ sources \in {<< >>, listing}
    /\ source_idx \in Nat
    /\ decoder = None \/ \E image \in Images : decoder = Some(image)
    /\ resolver = EmptyIndex \/ \E image \in Images : resolver = BuildResolver(image)
    /\ entry_cursor \in Nat
    /\ records_emitted \in Nat
    /\ pending_resume = None \/ pending_resume = token
    /\ answer \in {"none", "batch", "end", "error"}
    /\ resume = None \/ IsScanState(Unwrap(resume))
    /\ token = None \/ IsScanState(Unwrap(token))
    /\ status \in {"running", "done", "failed"}
    /\ faults \in 0..MaxFaults

\* However often the producer is lost, what has arrived is exactly the rows of the
\* records before the token's position: nothing is read twice after a resume, and
\* nothing between two batches is lost.
ReceivedUpToToken == HoldsExactly(received, StateBegin, ClientPosition)

\* The batch in progress (or in flight) is exactly the rows of the records between
\* the client's position and the producer's: the two add up across tear-downs.
BatchFromTokenToCursor ==
    \/ pc = "produce"
    \/ pc = "reply" /\ answer = "batch"
    => HoldsExactly(rows, ClientPosition, ProducerPosition)

\* An open source is read with the complete index of that same source: the index of
\* the source before never leaks into it, nor one that a resume brought along.
ReadsWithOwnResolver ==
    pc \in {"produce", "reply"} /\ decoder # None =>
        /\ decoder = Some(SourceImage(source_idx))
        /\ resolver = BuildResolver(SourceImage(source_idx))

\* A batch is closed by the record that fills it and by no earlier one, and one that
\* is not full is the last: the token that goes with it is past every source.
BatchesAreFull ==
    pc = "reply" /\ answer = "batch" =>
        /\ rows # << >>
        /\ Cardinality({i \in 1..Len(rows) : ~Abstract!SameRecord(rows[i], rows[Len(rows)])})
              < BATCH_ROWS
        /\ Len(rows) < BATCH_ROWS => Unwrap(resume).source_index >= Len(listing)

\* records_emitted counts the rows the client holds once it has the batch, each once,
\* however many of them had to be produced again (MftCursor: "Records emitted so far
\* across the whole scan").
EmittedCountsReceived ==
    /\ pc = "produce" => records_emitted = Len(received) + Len(rows)
    /\ token # None => Unwrap(token).records_emitted = Len(received)

\* A producer made from the token carries on from where the live one stands (read_mft.rs:
\* resume makes "HTTP rehydration" lossless): whether it is torn down between two
\* batches or not makes no difference.
RehydrationIsLossless ==
    pc = "idle" /\ status = "running" /\ pending_resume = None /\ token # None =>
        LET state == Unwrap(token)
        IN  /\ StatePosition(state) = ProducerPosition
            /\ state.records_emitted = records_emitted
            /\ state.resolver = resolver
            /\ state.source = CurrentLabel

\* The scan implements the timeline: batches extend an initial part of it that is cut
\* between records, and the stream ends only when every row has arrived.
ImplementsTimeline == Abstract!Spec

\* Every scan ends: sources without rows are passed over, a batch always advances,
\* and a bounded number of faults costs only repeated work.
ScanEnds == <>(status # "running")
=============================================================================
