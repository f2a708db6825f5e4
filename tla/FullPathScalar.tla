--------------------------- MODULE FullPathScalar ---------------------------
(***************************************************************************)
(* The full_path scalar over one batch of (blob, entry) rows               *)
(* (mft-worker/src/scalar/full_path.rs).  The resolver of the last blob is *)
(* kept and used again for the next row when that row's blob has the same  *)
(* fingerprint, which looks at a few bytes of it only.                     *)
(***************************************************************************)
EXTENDS Integers, FiniteSets, MftImage

CONSTANTS
    Blobs,        \* the blobs that occur in a batch
    EntryArgs,    \* the entry numbers asked for
    MAX_DEPTH,    \* DEFAULT_MAX_DEPTH
    MaxRows       \* bound: rows of a batch

ASSUME FullPathAssumption ==
    /\ \A blob \in Blobs : IsImage(blob)
    /\ EntryArgs \subseteq Nat
    /\ MAX_DEPTH \in Nat \ {0}
    /\ MaxRows \in Nat

\* SQL values: << >> is NULL, <<v>> the value v.
Null == << >>
Value(v) == <<v>>

Args == [blob : {Null} \cup {Value(b) : b \in Blobs},
         entry : {Null} \cup {Value(n) : n \in EntryArgs}]

VARIABLES
    batch,        \* the argument rows
    cache,        \* << >> or <<[key, resolver]>>
    out,          \* the values appended to the result column so far
    builds        \* resolvers built so far (for the comment on what the cache saves)

vars == <<batch, cache, out, builds>>

-----------------------------------------------------------------------------
\* What the first 64 bytes of a slot show: a FILE header and no name.
Header(slot) ==
    IF slot.kind = "record"
    THEN [kind |-> slot.kind, in_use |-> slot.in_use, sequence |-> slot.sequence]
    ELSE [kind |-> slot.kind]

\* fn fingerprint: the length, the first 64 bytes, the 64 in the middle (the header
\* of the middle slot, or the slack of it) and the last 64, which are slack.
Fingerprint(blob) ==
    LET n == EntryCount(blob)
    IN  [length |-> n * blob.stride,
         head   |-> {Header(blob.slots[i]) : i \in {1} \cap 1..n},
         middle |-> {Header(blob.slots[i]) : i \in {j \in 2..n : 2 * (j - 1) = n}}]

\* contains_key, then resolve_path.
PathIn(index, n) ==
    IF n \in DOMAIN index THEN Value(Resolve(index, n, MAX_DEPTH)) ELSE Null

\* mft_core::full_path: the same, with nothing kept between calls.
FullPath(args) ==
    IF args.blob = Null \/ args.entry = Null
    THEN Null
    ELSE PathIn(BuildResolver(args.blob[1]), args.entry[1])

-----------------------------------------------------------------------------
Init ==
    /\ batch \in UNION {[1..n -> Args] : n \in 0..MaxRows}
    /\ cache = << >>
    /\ out = << >>
    /\ builds = 0

RowLeft == Len(out) < Len(batch)

row == batch[Len(out) + 1]

HasArgs == row.blob # Null /\ row.entry # Null

\* (mutant: a NULL row clears the cache)
NullRowClearsCache ==
    /\ RowLeft
    /\ ~HasArgs
    /\ out' = Append(out, Null)
    /\ cache' = << >>
    /\ UNCHANGED <<batch, builds>>

\* An argument is NULL.  The cache stays.
NullRow ==
    /\ RowLeft
    /\ ~HasArgs
    /\ out' = Append(out, Null)
    /\ UNCHANGED <<batch, cache, builds>>

\* (mutant: any cache will do)
CacheHitsAlways == cache # << >>

CacheHits == cache # << >> /\ cache[1].key = Fingerprint(row.blob[1])

\* The cached resolver serves the row.
HitRow ==
    /\ RowLeft
    /\ HasArgs
    /\ CacheHits
    /\ out' = Append(out, PathIn(cache[1].resolver, row.entry[1]))
    /\ UNCHANGED <<batch, cache, builds>>

\* (mutant: the new resolver takes the place of the old one under the old key)
MissRowKeepsKey ==
    /\ RowLeft
    /\ HasArgs
    /\ ~CacheHits
    /\ LET index == BuildResolver(row.blob[1])
           key   == IF cache = << >> THEN Fingerprint(row.blob[1]) ELSE cache[1].key
       IN  /\ cache' = <<[key |-> key, resolver |-> index]>>
           /\ out' = Append(out, PathIn(index, row.entry[1]))
    /\ builds' = builds + 1
    /\ UNCHANGED batch

\* The resolver is built, and replaces the cached one.  (Decoder::new never fails.)
MissRow ==
    /\ RowLeft
    /\ HasArgs
    /\ ~CacheHits
    /\ LET index == BuildResolver(row.blob[1])
       IN  /\ cache' = <<[key |-> Fingerprint(row.blob[1]), resolver |-> index]>>
           /\ out' = Append(out, PathIn(index, row.entry[1]))
    /\ builds' = builds + 1
    /\ UNCHANGED batch

BatchDone == ~RowLeft /\ UNCHANGED vars

Next == NullRow \/ HitRow \/ MissRow \/ BatchDone

Spec == Init /\ [][Next]_vars /\ WF_vars(Next)

-----------------------------------------------------------------------------
\* Values the function may return.
Results == {Null} \cup {PathIn(BuildResolver(blob), n) : blob \in Blobs, n \in EntryArgs}

\* Types; one value per row.
TypeOK ==
    /\ batch \in Seq(Args)
    /\ out \in Seq(Results)
    /\ Len(out) <= Len(batch)
    /\ builds \in 0..Len(out)
    /\ cache = << >> \/ \E blob \in Blobs :
          cache = <<[key |-> Fingerprint(blob), resolver |-> BuildResolver(blob)]>>

\* No two blobs of the batch share a fingerprint.
FingerprintsDiffer ==
    \A a, b \in Blobs : Fingerprint(a) = Fingerprint(b) => a = b

\* A row's path depends on that row alone, not on the rows before it: the cache is
\* invisible ("Reconstruct the full filesystem path of MFT entry `entry` in a $MFT
\* `blob`", full_path.rs).
PathIsOfOwnBlob == \A j \in 1..Len(out) : out[j] = FullPath(batch[j])

\* "the resolver is built once for the whole batch" when it passes one literal blob
\* (comment in `process`), NULL rows in between notwithstanding.
OneBlobBuildsOnce ==
    Cardinality({batch[j].blob : j \in 1..Len(out)} \ {Null}) <= 1 => builds <= 1
=============================================================================
