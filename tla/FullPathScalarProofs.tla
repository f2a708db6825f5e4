------------------------ MODULE FullPathScalarProofs ------------------------
(***************************************************************************)
(* For batches of any length over any blobs: the cache of full_path is     *)
(* invisible as long as no two blobs share a fingerprint.                  *)
(***************************************************************************)
EXTENDS FullPathScalar, FiniteSetTheorems, TLAPS

\* A row with both arguments takes its blob from Blobs.
LEMMA RowBlob ==
    ASSUME TypeOK, RowLeft, HasArgs
    PROVE  /\ row.blob[1] \in Blobs
           /\ row.blob = Value(row.blob[1])
           /\ row.entry[1] \in EntryArgs
<1>1. Len(out) + 1 \in 1..Len(batch)
  BY DEF TypeOK, RowLeft
<1>2. row \in Args
  BY <1>1 DEF TypeOK, row
<1> QED
  BY <1>2 DEF Args, HasArgs, Null, Value

\* Every step appends one value and keeps the cache true to some blob of the batch.
THEOREM TypeCorrect == Spec => []TypeOK
<1>1. Init => TypeOK
  <2> SUFFICES ASSUME Init PROVE TypeOK
    OBVIOUS
  <2>1. PICK n \in 0..MaxRows : batch \in [1..n -> Args]
    BY DEF Init
  <2>2. n \in Nat
    BY <2>1, FullPathAssumption
  <2>3. batch \in Seq(Args) /\ Len(batch) = n
    BY <2>1, <2>2
  <2> QED
    BY <2>2, <2>3 DEF Init, TypeOK
<1>2. TypeOK /\ [Next]_vars => TypeOK'
  <2> SUFFICES ASSUME TypeOK, [Next]_vars PROVE TypeOK'
    OBVIOUS
  <2>1. ASSUME NEW v \in Results, RowLeft, batch' = batch, out' = Append(out, v),
               builds' = builds \/ builds' = builds + 1
        PROVE  /\ batch' \in Seq(Args) /\ out' \in Seq(Results)
               /\ Len(out') <= Len(batch') /\ builds' \in 0..Len(out')
    BY <2>1 DEF TypeOK, RowLeft
  <2>2. CASE NullRow
    <3>1. Null \in Results
      BY DEF Results
    <3> QED
      BY <2>1, <2>2, <3>1 DEF NullRow, TypeOK
  <2>3. CASE HitRow
    <3>1. cache # << >> /\ HasArgs /\ RowLeft
      BY <2>3 DEF HitRow, CacheHits
    <3>2. PICK blob \in Blobs :
             cache = <<[key |-> Fingerprint(blob), resolver |-> BuildResolver(blob)]>>
      BY <3>1 DEF TypeOK
    <3>3. PathIn(cache[1].resolver, row.entry[1]) \in Results
      BY <3>1, <3>2, RowBlob DEF Results
    <3> QED
      BY <2>1, <2>3, <3>3 DEF HitRow, TypeOK
  <2>4. CASE MissRow
    <3>1. row.blob[1] \in Blobs /\ row.entry[1] \in EntryArgs
      BY <2>4, RowBlob DEF MissRow
    <3>2. PathIn(BuildResolver(row.blob[1]), row.entry[1]) \in Results
      BY <3>1 DEF Results
    <3> QED
      BY <2>1, <2>4, <3>1, <3>2 DEF MissRow, TypeOK
  <2>5. CASE UNCHANGED vars
    BY <2>5 DEF vars, TypeOK
  <2> QED
    BY <2>2, <2>3, <2>4, <2>5 DEF Next, BatchDone
<1> QED
  BY <1>1, <1>2, PTL DEF Spec

\* When the fingerprint tells the blobs of a batch apart, every row gets the path it
\* has in its own blob: by induction over the rows, a hit can only come from a cache
\* built from the same blob.
THEOREM CacheInvisible ==
    ASSUME FingerprintsDiffer
    PROVE  Spec => []PathIsOfOwnBlob
<1>1. Init => PathIsOfOwnBlob
  BY DEF Init, PathIsOfOwnBlob
<1>2. TypeOK /\ PathIsOfOwnBlob /\ [Next]_vars => PathIsOfOwnBlob'
  <2> SUFFICES ASSUME TypeOK, PathIsOfOwnBlob, [Next]_vars PROVE PathIsOfOwnBlob'
    OBVIOUS
  <2>1. ASSUME RowLeft, batch' = batch, out' = Append(out, FullPath(row))
        PROVE  PathIsOfOwnBlob'
    <3>1. /\ Len(out') = Len(out) + 1
          /\ out'[Len(out) + 1] = FullPath(batch[Len(out) + 1])
          /\ \A j \in 1..Len(out) : out'[j] = out[j]
          /\ Len(out) \in Nat
      BY <2>1 DEF TypeOK, row
    <3>2. ASSUME NEW j \in 1..Len(out') PROVE out'[j] = FullPath(batch[j])
      <4>1. j \in 1..Len(out) \/ j = Len(out) + 1
        BY <3>1, <3>2
      <4> QED
        BY <3>1, <4>1 DEF PathIsOfOwnBlob
    <3> QED
      BY <2>1, <3>2 DEF PathIsOfOwnBlob
  <2>2. CASE NullRow
    BY <2>1, <2>2 DEF NullRow, HasArgs, FullPath
  <2>3. CASE HitRow
    <3>1. RowLeft /\ HasArgs /\ cache # << >> /\ cache[1].key = Fingerprint(row.blob[1])
      BY <2>3 DEF HitRow, CacheHits
    <3>2. PICK blob \in Blobs :
             cache = <<[key |-> Fingerprint(blob), resolver |-> BuildResolver(blob)]>>
      BY <3>1 DEF TypeOK
    <3>3. row.blob[1] \in Blobs
      BY <3>1, RowBlob
    <3>4. blob = row.blob[1]
      BY <3>1, <3>2, <3>3, FingerprintsDiffer DEF FingerprintsDiffer
    <3>5. out' = Append(out, PathIn(BuildResolver(row.blob[1]), row.entry[1]))
      BY <2>3, <3>2, <3>4 DEF HitRow
    <3>6. FullPath(row) = PathIn(BuildResolver(row.blob[1]), row.entry[1])
      BY <3>1 DEF FullPath, HasArgs
    <3> QED
      BY <2>1, <2>3, <3>5, <3>6 DEF HitRow
  <2>4. CASE MissRow
    <3>1. FullPath(row) = PathIn(BuildResolver(row.blob[1]), row.entry[1])
      BY <2>4 DEF MissRow, FullPath, HasArgs
    <3> QED
      BY <2>1, <2>4, <3>1 DEF MissRow
  <2>5. CASE UNCHANGED vars
    BY <2>5 DEF vars, PathIsOfOwnBlob
  <2> QED
    BY <2>2, <2>3, <2>4, <2>5 DEF Next, BatchDone
<1> QED
  BY <1>1, <1>2, TypeCorrect, PTL DEF Spec

-----------------------------------------------------------------------------
(***************************************************************************)
(* What the cache saves.  A second resolver is built only for a blob whose *)
(* fingerprint is not that of the blob the first was built for.            *)
(***************************************************************************)
\* Row j has been answered, and has a blob.
HasBlob(j) == j \in 1..Len(out) /\ batch[j].blob # Null

BuildsFit ==
    /\ (cache = << >>) = (builds = 0)
    /\ cache # << >> =>
          \E j \in 1..Len(out) : HasBlob(j) /\ cache[1].key = Fingerprint(batch[j].blob[1])
    /\ builds > 1 =>
          \E i, j \in 1..Len(out) : HasBlob(i) /\ HasBlob(j) /\ batch[i].blob # batch[j].blob

\* A set with two members has more than one.
LEMMA TwoMembers ==
    ASSUME NEW S, IsFiniteSet(S), NEW x \in S, NEW y \in S, x # y
    PROVE  Cardinality(S) > 1
<1>1. IsFiniteSet({x}) /\ Cardinality({x}) = 1
  BY FS_Singleton
<1>2. Cardinality({x} \cup {y}) = 2
  BY <1>1, FS_AddElement
<1>3. Cardinality({x} \cup {y}) <= Cardinality(S) /\ Cardinality(S) \in Nat
  BY FS_Subset, FS_CardinalityType
<1> QED
  BY <1>2, <1>3

\* The rows answered are finitely many.
LEMMA BlobsFinite ==
    ASSUME TypeOK
    PROVE  IsFiniteSet({batch[j].blob : j \in 1..Len(out)} \ {Null})
<1> DEFINE f == [j \in 1..Len(out) |-> batch[j].blob]
           S == {batch[j].blob : j \in 1..Len(out)}
<1>1. IsFiniteSet(1..Len(out))
  BY FS_Interval DEF TypeOK
<1>2. f \in Surjection(1..Len(out), S)
  BY DEF Surjection
<1>3. IsFiniteSet(S)
  BY <1>1, <1>2, FS_Surjection
<1> QED
  BY <1>3, FS_RemoveElement

\* One more row is answered.
LEMMA RowFits ==
    ASSUME TypeOK, BuildsFit, NullRow \/ HitRow \/ MissRow
    PROVE  BuildsFit'
<1>1. PICK k \in Nat : k = Len(out)
  BY DEF TypeOK
<1>2. /\ batch' = batch /\ RowLeft /\ row = batch[k + 1]
      /\ Len(out') = k + 1 /\ 1..k \subseteq 1..(k + 1) /\ k + 1 \in 1..(k + 1)
      /\ builds \in Nat
  <2>1. \E v : out' = Append(out, v)
    BY DEF NullRow, HitRow, MissRow
  <2> QED
    BY <1>1, <2>1 DEF NullRow, HitRow, MissRow, row, TypeOK
<1>3. \A j \in 1..k : HasBlob(j) => HasBlob(j)'
  BY <1>1, <1>2 DEF HasBlob
<1>4. HasArgs => HasBlob(k + 1)'
  BY <1>1, <1>2 DEF HasBlob, HasArgs
<1>5. CASE NullRow \/ HitRow
  <2>1. cache' = cache /\ builds' = builds
    BY <1>5 DEF NullRow, HitRow
  <2>2. cache' # << >> => \E j \in 1..Len(out') :
           HasBlob(j)' /\ cache'[1].key = Fingerprint(batch'[j].blob[1])
    BY <1>1, <1>2, <1>3, <2>1 DEF BuildsFit
  <2>3. builds' > 1 => \E i, j \in 1..Len(out') :
           HasBlob(i)' /\ HasBlob(j)' /\ batch'[i].blob # batch'[j].blob
    BY <1>1, <1>2, <1>3, <2>1 DEF BuildsFit
  <2> QED
    BY <2>1, <2>2, <2>3 DEF BuildsFit
<1>6. CASE MissRow
  <2>1. /\ HasArgs /\ ~CacheHits /\ builds' = builds + 1
        /\ cache' # << >> /\ cache'[1].key = Fingerprint(batch[k + 1].blob[1])
    BY <1>2, <1>6 DEF MissRow
  <2>2. HasBlob(k + 1)' /\ batch'[k + 1].blob = batch[k + 1].blob
    BY <1>2, <1>4, <2>1
  <2>3. \E j \in 1..Len(out') : HasBlob(j)' /\ cache'[1].key = Fingerprint(batch'[j].blob[1])
    BY <1>2, <2>1, <2>2
  <2>4. ASSUME builds' > 1
        PROVE  \E i, j \in 1..Len(out') :
                  HasBlob(i)' /\ HasBlob(j)' /\ batch'[i].blob # batch'[j].blob
    <3>1. cache # << >>
      BY <1>2, <2>1, <2>4 DEF BuildsFit
    <3>2. PICK j \in 1..k : HasBlob(j) /\ cache[1].key = Fingerprint(batch[j].blob[1])
      BY <1>1, <3>1 DEF BuildsFit
    <3>3. batch[j].blob # batch[k + 1].blob
      BY <1>2, <2>1, <3>1, <3>2 DEF CacheHits
    <3>4. j \in 1..Len(out') /\ k + 1 \in 1..Len(out') /\ HasBlob(j)'
      BY <1>2, <1>3, <3>2
    <3> QED
      BY <1>2, <2>2, <3>3, <3>4
  <2> QED
    BY <1>2, <2>1, <2>3, <2>4 DEF BuildsFit
<1> QED
  BY <1>5, <1>6

\* A batch of one blob, NULLs aside, has its resolver built once.
THEOREM BuiltOnce == Spec => []OneBlobBuildsOnce
<1>1. Init => BuildsFit
  BY DEF Init, BuildsFit
<1>2. TypeOK /\ BuildsFit /\ [Next]_vars => BuildsFit'
  <2>1. ASSUME BuildsFit, UNCHANGED vars PROVE BuildsFit'
    BY <2>1 DEF BuildsFit, HasBlob, vars
  <2> QED
    BY <2>1, RowFits DEF Next, BatchDone
<1>3. TypeOK /\ BuildsFit => OneBlobBuildsOnce
  <2> SUFFICES ASSUME TypeOK, BuildsFit PROVE OneBlobBuildsOnce
    OBVIOUS
  <2> DEFINE S == {batch[j].blob : j \in 1..Len(out)} \ {Null}
  <2>1. IsFiniteSet(S)
    BY BlobsFinite
  <2>2. ASSUME builds > 1 PROVE \E x, y \in S : x # y
    <3>1. PICK i \in 1..Len(out), j \in 1..Len(out) :
             HasBlob(i) /\ HasBlob(j) /\ batch[i].blob # batch[j].blob
      BY <2>2 DEF BuildsFit
    <3> QED
      BY <3>1 DEF HasBlob
  <2>3. OneBlobBuildsOnce <=> (Cardinality(S) <= 1 => builds <= 1)
    BY DEF OneBlobBuildsOnce
  <2> HIDE DEF S
  <2>4. Cardinality(S) \in Nat /\ builds \in Nat
    BY <2>1, FS_CardinalityType DEF TypeOK
  <2>5. builds > 1 => Cardinality(S) > 1
    BY <2>1, <2>2, TwoMembers
  <2> QED
    BY <2>3, <2>4, <2>5
<1> QED
  BY <1>1, <1>2, <1>3, TypeCorrect, PTL DEF Spec
=============================================================================
