----------------------------- MODULE SourceDrift -----------------------------
(***************************************************************************)
(* ReadMft over sources that do not hold still.  Every producer resolves   *)
(* the glob anew (fn producer, options::resolve_local) and reads the file  *)
(* anew (SourceRef::load), while the token names a source by its index, a  *)
(* position in it, and carries the index of parents that was built when    *)
(* the source was first opened.  So between two calls                      *)
(*   - the glob may come to resolve to another list of files, or to none;  *)
(*   - a file may come to hold something else, more or less than before;   *)
(*   - the token may come back as bytes that do not parse, which restores  *)
(*     the default state.                                                  *)
(***************************************************************************)
EXTENDS ReadMft

CONSTANTS
    Relistings,      \* what the glob may resolve to later; << >> if no file matches
    Rewritings,      \* what a file may hold later
    MaxRelisted,     \* bounds: changes of the directory,
    MaxRewritten,    \* changes of a file,
    MaxUnreadable    \* tokens that do not parse

ASSUME DriftAssumption ==
    /\ Relistings \subseteq Seq(Files)
    /\ Rewritings \subseteq Images
    /\ MaxRelisted \in Nat
    /\ MaxRewritten \in Nat
    /\ MaxUnreadable \in Nat

VARIABLES
    asked,           \* what the glob resolved to when the query was bound
    relisted,        \* changes of the directory so far
    rewritten,       \* changes of a file so far
    unreadable       \* tokens that did not parse so far

drift == <<asked, relisted, rewritten, unreadable>>
driftVars == <<vars, drift>>

\* fn on_bind has resolved the arguments already: a query that starts has sources.
DriftInit ==
    /\ Init
    /\ asked = listing
    /\ relisted = 0
    /\ rewritten = 0
    /\ unreadable = 0

-----------------------------------------------------------------------------
(***************************************************************************)
(* What happens to the sources and to the token.                           *)
(***************************************************************************)
DirectoryChanges ==
    /\ status = "running"
    /\ relisted < MaxRelisted
    /\ relisted' = relisted + 1
    /\ listing' \in Relistings \ {listing}
    /\ UNCHANGED <<content, mode, pc, producer, client, faults, asked, rewritten, unreadable>>

FileChanges ==
    /\ status = "running"
    /\ rewritten < MaxRewritten
    /\ rewritten' = rewritten + 1
    /\ \E file \in Files, image \in Rewritings :
          content[file] # image /\ content' = [content EXCEPT ![file] = image]
    /\ UNCHANGED <<listing, mode, pc, producer, client, faults, asked, relisted, unreadable>>

\* (mutant: the default state is taken for the end of the scan)
DefaultStateIsEnd ==
    [source |-> "", byte_offset |-> 0, record_size |-> DEFAULT_STRIDE, records_emitted |-> 0,
     resolver |-> EmptyIndex, source_index |-> Len(listing)]

\* MftScanState::default.
DefaultState ==
    [source |-> "", byte_offset |-> 0, record_size |-> DEFAULT_STRIDE, records_emitted |-> 0,
     resolver |-> EmptyIndex, source_index |-> 0]

\* fn producer, then restore_resume with bytes that MftScanState::from_bytes cannot
\* parse: no error, the state is the default one.
NewProducerFromUnreadable ==
    /\ pc = "down"
    /\ status = "running"
    /\ listing # << >>
    /\ token # None
    /\ unreadable < MaxUnreadable
    /\ unreadable' = unreadable + 1
    /\ pc' = "idle"
    /\ sources' = listing
    /\ pending_resume' = Some(DefaultState)
    /\ UNCHANGED <<surroundings, source_idx, decoder, resolver, entry_cursor, records_emitted,
                   rows, answer, resume, client, faults, asked, relisted, rewritten>>

\* fn producer fails: resolve_local finds no file for the glob.
ProducerFails ==
    /\ pc = "down"
    /\ status = "running"
    /\ listing = << >>
    /\ status' = "failed"
    /\ UNCHANGED <<surroundings, pc, producer, received, token, faults, drift>>

-----------------------------------------------------------------------------
ScanProducerStep == ProducerStep /\ UNCHANGED drift

ScanClientStep ==
    \/ listing # << >> /\ NewProducer /\ UNCHANGED drift
    \/ ProducerFails
    \/ (CallNextBatch \/ BatchArrives \/ VerdictArrives) /\ UNCHANGED drift

ScanFault == (TearDown \/ Fault \/ Finished) /\ UNCHANGED drift

DriftNext ==
    \/ ScanProducerStep \/ ScanClientStep \/ ScanFault
    \/ DirectoryChanges \/ FileChanges \/ NewProducerFromUnreadable

\* As in ReadMft: calls run to their end and the client keeps asking.
DriftSpec ==
    /\ DriftInit
    /\ [][DriftNext]_driftVars
    /\ WF_driftVars(ScanProducerStep)
    /\ WF_driftVars(ScanClientStep)

-----------------------------------------------------------------------------
(***************************************************************************)
(* Properties.                                                             *)
(***************************************************************************)

\* The scan state carries its source index "explicitly so a resumed scan picks up the
\* right file" (cursor.rs): while the source at the token's index is being read, the
\* open file is the one the token names (a token past the last source names none).
ResumesRightFile ==
    /\ pc = "produce"
    /\ decoder # None
    /\ token # None
    /\ source_idx = Unwrap(token).source_index
    /\ Unwrap(token).source # ""
    /\ unreadable = 0
    => CurrentFile = Unwrap(token).source

\* All rows of a source have their paths from one and the same index, that of one whole
\* image and never of parts of two, however often the source is read again and whatever it
\* holds by then ("a child seen in a later batch still resolves against an earlier parent").
OneIndexPerSource ==
    unreadable = 0 =>
        \A src \in {received[i].src : i \in 1..Len(received)} :
            \E image \in Images :
                \A i \in 1..Len(received) :
                    received[i].src = src =>
                        received[i].path =
                            Resolve(BuildResolver(image), received[i].entry, MAX_DEPTH)

\* A source that changes may lose records to the scan or win some, but the scan only moves
\* forward: no row of a record arrives twice or after one of a later record, although the
\* position travels as a byte offset and is read with another stride.
NeverGoesBack == unreadable = 0 => Abstract!Ordered(received)

\* The scan is not declared over while a row of a source the query asked for is missing:
\* a glob that no longer matches fails the query, and a token that does not parse makes
\* the scan start over, which repeats rows and loses none.
NothingLost ==
    status = "done" /\ rewritten = 0 =>
        \A src \in 0..(Len(asked) - 1) :
            LET image == content[asked[src + 1]]
            IN  \A n \in 0..(EntryCount(image) - 1) : \A k \in 1..RowCount(image, n, mode) :
                    \E i \in 1..Len(received) :
                        received[i] = Row(src, asked[src + 1], BuildResolver(image), n, k)

\* Sources that change, vanish or shrink below the position at which the scan stands
\* cannot keep it from ending, nor can a token that makes it start over.
DriftScanEnds == <>(status # "running")
=============================================================================
