---------------------------- MODULE ReadMftProofs ----------------------------
(***************************************************************************)
(* Part one, over sources that hold still (Spec): for every set of         *)
(* sources, contents, modes, batch size and number of faults, read_mft     *)
(* delivers each row of its sources exactly once and in order, and         *)
(* implements the abstract timeline.                                       *)
(*                                                                         *)
(* Part two, over sources that drift (DriftSpec): whatever the files come  *)
(* to hold and whatever the glob comes to match, the scan only moves       *)
(* forward and gives all rows of a source paths from one index.  If the    *)
(* glob only gains files behind the ones it had, or matches none, the scan *)
(* also goes on in the right file and loses nothing.                       *)
(***************************************************************************)
EXTENDS SourceDrift, SequenceTheorems, FiniteSetTheorems, TLAPS

-----------------------------------------------------------------------------
(***************************************************************************)
(* The inductive invariant.  What the properties say of the client and of  *)
(* the batch in progress is not inductive by itself: it also takes what    *)
(* ties the producer's fields, the answer in flight and the token.         *)
(***************************************************************************)
SurroundingsFixed ==
    /\ listing \in Listings
    /\ content \in Contents
    /\ mode \in Modes

\* An index is empty, or the complete one of the source it goes with.
IndexFits(index, src) ==
    \/ index = EmptyIndex
    \/ src < Len(listing) /\ index = BuildResolver(SourceImage(src))

ProducerFits ==
    /\ source_idx \in Nat
    /\ entry_cursor \in Nat
    /\ records_emitted \in Nat
    /\ IndexFits(resolver, source_idx)
    /\ \/ decoder = None
       \/ /\ source_idx < Len(listing)
          /\ decoder = Some(SourceImage(source_idx))
          /\ resolver = BuildResolver(SourceImage(source_idx))

\* The token that encode_resume makes of the producer's present state.
CurrentState ==
    EncodeResume(CurrentLabel, source_idx, entry_cursor, decoder, resolver, records_emitted)

StateFits(state) ==
    /\ IsScanState(state)
    /\ NextEntry(state) \in Nat
    /\ IndexFits(state.resolver, state.source_index)

InFlight == pc = "reply" /\ answer = "batch"

ControlFits ==
    /\ pc \in {"down", "idle", "produce", "reply"}
    /\ status \in {"running", "done", "failed"}
    /\ answer \in {"none", "batch", "end", "error"}
    /\ faults \in 0..MaxFaults
    /\ sources = IF pc = "down" THEN << >> ELSE listing
    /\ pc = "down" => source_idx = 0 /\ entry_cursor = 0 /\ records_emitted = 0
    /\ status # "running" => pc = "idle"
    /\ pc # "idle" => pending_resume = None
    /\ pending_resume = None \/ pending_resume = token

\* A live producer stands where the client's token says.
InStep ==
    /\ token = None => ProducerPosition = StateBegin /\ records_emitted = 0
    /\ token # None => token = Some(CurrentState)

ClientFits ==
    /\ token = None \/ token = Some(Unwrap(token))
    /\ token # None => StateFits(Unwrap(token))
    /\ token # None => Unwrap(token).records_emitted = Len(received)
    /\ token = None => received = << >>
    /\ HoldsExactly(received, StateBegin, ClientPosition)
    /\ pc = "idle" /\ pending_resume = None /\ status = "running" => InStep

AnswerFits ==
    /\ pc = "produce" \/ InFlight =>
          /\ PositionLeq(ClientPosition, ProducerPosition)
          /\ HoldsExactly(rows, ClientPosition, ProducerPosition)
          /\ records_emitted = Len(received) + Len(rows)
    /\ resume = IF InFlight THEN Some(CurrentState) ELSE None
    /\ InFlight => rows # << >>
    /\ pc = "reply" /\ answer = "end" => Abstract!IsComplete(received)

IInv ==
    /\ SurroundingsFixed
    /\ ControlFits
    /\ ProducerFits
    /\ ClientFits
    /\ AnswerFits

-----------------------------------------------------------------------------
(***************************************************************************)
(* Lemmas on images and rows.                                              *)
(***************************************************************************)

\* Every source that the scan reads is a well-formed image.
LEMMA SourceIsImage ==
    ASSUME SurroundingsFixed, NEW src \in Nat, src < Len(listing)
    PROVE  /\ SourceImage(src) \in Images
           /\ IsImage(SourceImage(src))
           /\ EntryCount(SourceImage(src)) \in Nat
<1>1. listing \in Seq(Files) /\ content \in [Files -> Images]
  BY ReadMftAssumption DEF SurroundingsFixed
<1>2. src + 1 \in 1..Len(listing)
  BY <1>1
<1>3. SourceImage(src) \in Images
  BY <1>1, <1>2 DEF SourceImage
<1>4. IsImage(SourceImage(src))
  BY <1>3, ReadMftAssumption
<1> QED
  BY <1>3, <1>4 DEF IsImage, EntryCount

\* A record fans out to a number of rows, whatever the mode.
LEMMA RowCountOfImage ==
    ASSUME mode \in {"files", "streams", "allocated"},
           NEW image, IsImage(image), NEW n \in 0..(EntryCount(image) - 1)
    PROVE  RowCount(image, n, mode) \in Nat
<1>1. IsSlot(Slot(image, n))
  BY DEF IsImage, EntryCount, Slot
<1>2. CASE ~HasRecord(image, n)
  BY <1>2 DEF RowCount
<1>3. CASE HasRecord(image, n) /\ Slot(image, n).kind = "bad"
  <2>1. Decode(image, n).in_use = FALSE /\ Decode(image, n).streams = 0
    BY <1>3 DEF Decode
  <2> QED
    BY <1>3, <2>1 DEF RowCount, FanOut
<1>4. CASE HasRecord(image, n) /\ Slot(image, n).kind = "record"
  <2>1. Decode(image, n).in_use \in BOOLEAN /\ Decode(image, n).streams \in Nat
    BY <1>1, <1>4 DEF Decode, IsSlot
  <2> QED
    BY <1>4, <2>1 DEF RowCount, FanOut
<1> QED
  BY <1>1, <1>2, <1>3, <1>4 DEF HasRecord, IsSlot

\* An entry of an image has a number of rows.
LEMMA RowCountIsNat ==
    ASSUME SurroundingsFixed, NEW image, IsImage(image),
           NEW n \in 0..(EntryCount(image) - 1)
    PROVE  RowCount(image, n, mode) \in Nat
  BY RowCountOfImage, ReadMftAssumption DEF SurroundingsFixed

\* What an expected row is.
LEMMA ExpectedRowIs ==
    ASSUME NEW r
    PROVE  r \in ExpectedRows <=>
              \E src \in 0..(Len(listing) - 1) :
              \E n \in 0..(EntryCount(SourceImage(src)) - 1) :
              \E k \in 1..RowCount(SourceImage(src), n, mode) : r = ExpectedRow(src, n, k)
  BY DEF ExpectedRows

\* A row carries its source, entry and stream.
LEMMA RowFields ==
    ASSUME NEW src, NEW n, NEW k
    PROVE  /\ ExpectedRow(src, n, k).src = src
           /\ ExpectedRow(src, n, k).entry = n
           /\ ExpectedRow(src, n, k).stream = k
  BY DEF ExpectedRow, Row

\* The place of an expected row, in numbers.
LEMMA RowPlace ==
    ASSUME SurroundingsFixed, NEW r \in ExpectedRows
    PROVE  /\ r.src \in Nat /\ r.src < Len(listing)
           /\ r.entry \in Nat /\ r.entry < EntryCount(SourceImage(r.src))
           /\ r.stream \in 1..RowCount(SourceImage(r.src), r.entry, mode)
           /\ r.stream \in Nat
           /\ r = ExpectedRow(r.src, r.entry, r.stream)
<1>1. PICK src \in 0..(Len(listing) - 1) :
        \E n \in 0..(EntryCount(SourceImage(src)) - 1) :
        \E k \in 1..RowCount(SourceImage(src), n, mode) : r = ExpectedRow(src, n, k)
  BY ExpectedRowIs
<1>2. PICK n \in 0..(EntryCount(SourceImage(src)) - 1) :
        \E k \in 1..RowCount(SourceImage(src), n, mode) : r = ExpectedRow(src, n, k)
  BY <1>1
<1>3. PICK k \in 1..RowCount(SourceImage(src), n, mode) : r = ExpectedRow(src, n, k)
  BY <1>2
<1>4. r.src = src /\ r.entry = n /\ r.stream = k
  BY <1>3, RowFields
<1>5. listing \in Seq(Files)
  BY ReadMftAssumption DEF SurroundingsFixed
<1>6. src \in Nat /\ src < Len(listing)
  BY <1>5
<1>7. EntryCount(SourceImage(src)) \in Nat /\ IsImage(SourceImage(src))
  BY <1>6, SourceIsImage
<1>8. n \in Nat /\ n < EntryCount(SourceImage(src))
  BY <1>7
<1>9. RowCount(SourceImage(src), n, mode) \in Nat
  BY <1>7, RowCountIsNat
<1>10. k \in Nat
  BY <1>9
<1> QED
  BY <1>3, <1>4, <1>6, <1>8, <1>10

-----------------------------------------------------------------------------
(***************************************************************************)
(* Lemmas on stretches of the timeline.                                    *)
(***************************************************************************)
Positions == Nat \X Nat

\* No rows lie between a position and itself.
LEMMA EmptyStretch ==
    ASSUME NEW p \in Positions, SurroundingsFixed
    PROVE  HoldsExactly(<< >>, p, p)
<1>1. \A r \in ExpectedRows : ~Between(r, p, p)
  BY DEF Between, PositionLeq
<1>2. << >> \in Seq(ExpectedRows) /\ Len(<< >>) = 0
  OBVIOUS
<1> QED
  BY <1>1, <1>2 DEF HoldsExactly, Abstract!Ordered

\* Two adjoining stretches make one: the rows of the second all come after those of
\* the first.
LEMMA JoinStretches ==
    ASSUME SurroundingsFixed,
           NEW p \in Positions, NEW q \in Positions, NEW s \in Positions,
           PositionLeq(p, q), PositionLeq(q, s),
           NEW a, NEW b, HoldsExactly(a, p, q), HoldsExactly(b, q, s)
    PROVE  HoldsExactly(a \o b, p, s)
<1>1. /\ a \in Seq(ExpectedRows) /\ b \in Seq(ExpectedRows)
      /\ a \o b \in Seq(ExpectedRows)
      /\ Len(a) \in Nat /\ Len(b) \in Nat
      /\ Len(a \o b) = Len(a) + Len(b)
      /\ \A i \in 1..Len(a) : (a \o b)[i] = a[i]
      /\ \A i \in 1..Len(b) : (a \o b)[Len(a) + i] = b[i]
  BY DEF HoldsExactly
<1>2. \A i \in 1..(Len(a) + Len(b)) :
         \/ i \in 1..Len(a)
         \/ i - Len(a) \in 1..Len(b) /\ i = Len(a) + (i - Len(a))
  BY <1>1
<1>3. \A r \in ExpectedRows : r.src \in Nat /\ r.entry \in Nat
  BY RowPlace
<1>4. \A r \in ExpectedRows : Between(r, p, q) => Between(r, p, s)
  BY <1>3 DEF Between, PositionLeq, RowPosition, Positions
<1>5. \A r \in ExpectedRows : Between(r, q, s) => Between(r, p, s)
  BY <1>3 DEF Between, PositionLeq, RowPosition, Positions
<1>6. \A r \in ExpectedRows : Between(r, p, s) => Between(r, p, q) \/ Between(r, q, s)
  BY DEF Between
<1>7. \A r, t \in ExpectedRows :
         Between(r, p, q) /\ Between(t, q, s) => Abstract!Before(r, t)
  BY <1>3 DEF Between, PositionLeq, RowPosition, Positions, Abstract!Before,
              Abstract!SameRecord
<1>8. \A i \in 1..Len(a \o b) : Between((a \o b)[i], p, s)
  <2> SUFFICES ASSUME NEW i \in 1..(Len(a) + Len(b)) PROVE Between((a \o b)[i], p, s)
    BY <1>1
  <2>1. CASE i \in 1..Len(a)
    BY <2>1, <1>1, <1>4 DEF HoldsExactly
  <2>2. CASE i - Len(a) \in 1..Len(b) /\ i = Len(a) + (i - Len(a))
    <3> DEFINE j == i - Len(a)
    <3>1. j \in 1..Len(b) /\ (a \o b)[i] = b[j]
      BY <2>2, <1>1
    <3> QED
      BY <3>1, <1>1, <1>5 DEF HoldsExactly
  <2> QED
    BY <2>1, <2>2, <1>2
<1>9. Abstract!Ordered(a \o b)
  <2> SUFFICES ASSUME NEW i \in 1..(Len(a) + Len(b)), NEW j \in 1..(Len(a) + Len(b)), i < j
               PROVE  Abstract!Before((a \o b)[i], (a \o b)[j])
    BY <1>1 DEF Abstract!Ordered
  <2>1. CASE i \in 1..Len(a) /\ j \in 1..Len(a)
    BY <2>1, <1>1 DEF HoldsExactly, Abstract!Ordered
  <2>2. CASE i \in 1..Len(a) /\ j - Len(a) \in 1..Len(b) /\ j = Len(a) + (j - Len(a))
    <3> DEFINE m == j - Len(a)
    <3>1. /\ (a \o b)[i] = a[i] /\ a[i] \in ExpectedRows /\ Between(a[i], p, q)
          /\ m \in 1..Len(b)
          /\ (a \o b)[j] = b[m] /\ b[m] \in ExpectedRows /\ Between(b[m], q, s)
      BY <2>2, <1>1 DEF HoldsExactly
    <3> QED
      BY <3>1, <1>7
  <2>3. CASE /\ i - Len(a) \in 1..Len(b) /\ i = Len(a) + (i - Len(a))
             /\ j - Len(a) \in 1..Len(b) /\ j = Len(a) + (j - Len(a))
    <3> DEFINE l == i - Len(a)
               m == j - Len(a)
    <3>1. /\ l \in 1..Len(b) /\ m \in 1..Len(b) /\ l < m
          /\ (a \o b)[i] = b[l] /\ (a \o b)[j] = b[m]
      BY <2>3, <1>1
    <3>2. Abstract!Before(b[l], b[m])
      BY <3>1 DEF HoldsExactly, Abstract!Ordered
    <3> QED
      BY <3>1, <3>2
  <2> QED
    BY <2>1, <2>2, <2>3, <1>1, <1>2
<1>10. ASSUME NEW r \in ExpectedRows, Between(r, p, s)
       PROVE  \E i \in 1..Len(a \o b) : (a \o b)[i] = r
  <2>1. CASE Between(r, p, q)
    <3>1. PICK i \in 1..Len(a) : a[i] = r
      BY <2>1 DEF HoldsExactly
    <3>2. i \in 1..Len(a \o b) /\ (a \o b)[i] = r
      BY <3>1, <1>1
    <3> QED
      BY <3>2
  <2>2. CASE Between(r, q, s)
    <3>1. PICK i \in 1..Len(b) : b[i] = r
      BY <2>2 DEF HoldsExactly
    <3>2. Len(a) + i \in 1..Len(a \o b) /\ (a \o b)[Len(a) + i] = r
      BY <3>1, <1>1
    <3> QED
      BY <3>2
  <2> QED
    BY <2>1, <2>2, <1>6, <1>10
<1> QED
  BY <1>1, <1>8, <1>9, <1>10 DEF HoldsExactly

\* What emit makes of one entry is the stretch from that entry to the next.
LEMMA EntryStretch ==
    ASSUME SurroundingsFixed,
           NEW src \in Nat, src < Len(listing),
           NEW n \in Nat, n < EntryCount(SourceImage(src))
    PROVE  HoldsExactly(Emit(src, listing[src + 1], BuildResolver(SourceImage(src)),
                             SourceImage(src), n, mode),
                        <<src, n>>, <<src, n + 1>>)
<1> DEFINE image == SourceImage(src)
           count == RowCount(image, n, mode)
           e == Emit(src, listing[src + 1], BuildResolver(image), image, n, mode)
<1>1. IsImage(image) /\ EntryCount(image) \in Nat
  BY SourceIsImage
<1>2. n \in 0..(EntryCount(image) - 1)
  BY <1>1
<1>3. count \in Nat
  BY <1>1, <1>2, RowCountIsNat
<1>4. \A k \in 1..count : e[k] = ExpectedRow(src, n, k)
  BY DEF Emit, ExpectedRow
<1>5. listing \in Seq(Files) /\ src \in 0..(Len(listing) - 1)
  BY ReadMftAssumption DEF SurroundingsFixed
<1>6. \A k \in 1..count : e[k] \in ExpectedRows
  BY <1>2, <1>4, <1>5, ExpectedRowIs
<1>7. e = [k \in 1..count |-> e[k]]
  BY DEF Emit
<1>8. e \in Seq(ExpectedRows) /\ Len(e) = count
  BY <1>3, <1>6, <1>7
<1>9. \A k \in 1..count : e[k].src = src /\ e[k].entry = n /\ e[k].stream = k
  BY <1>4, RowFields
<1>10. Abstract!Ordered(e)
  BY <1>3, <1>8, <1>9 DEF Abstract!Ordered, Abstract!Before, Abstract!SameRecord
<1>11. \A k \in 1..Len(e) : Between(e[k], <<src, n>>, <<src, n + 1>>)
  BY <1>8, <1>9 DEF Between, PositionLeq, RowPosition
<1>12. ASSUME NEW r \in ExpectedRows, Between(r, <<src, n>>, <<src, n + 1>>)
       PROVE  \E k \in 1..Len(e) : e[k] = r
  <2>1. /\ r.src \in Nat /\ r.entry \in Nat
        /\ r.stream \in 1..RowCount(SourceImage(r.src), r.entry, mode)
        /\ r = ExpectedRow(r.src, r.entry, r.stream)
    BY RowPlace
  <2>2. r.src = src /\ r.entry = n
    BY <1>12, <2>1 DEF Between, PositionLeq, RowPosition
  <2>3. r.stream \in 1..Len(e) /\ e[r.stream] = r
    BY <1>4, <1>8, <2>1, <2>2
  <2> QED
    BY <2>3
<1> HIDE DEF e
<1>13. HoldsExactly(e, <<src, n>>, <<src, n + 1>>)
  BY <1>8, <1>10, <1>11, <1>12 DEF HoldsExactly
<1> QED
  BY <1>13 DEF e

\* Past the last entry of a source there is nothing up to the next source.
LEMMA SourceEndStretch ==
    ASSUME SurroundingsFixed,
           NEW src \in Nat, src < Len(listing),
           NEW n \in Nat, n >= EntryCount(SourceImage(src))
    PROVE  HoldsExactly(<< >>, <<src, n>>, <<src + 1, 0>>)
<1>1. EntryCount(SourceImage(src)) \in Nat
  BY SourceIsImage
<1>2. ASSUME NEW r \in ExpectedRows PROVE ~Between(r, <<src, n>>, <<src + 1, 0>>)
  <2>1. r.src \in Nat /\ r.entry \in Nat /\ r.entry < EntryCount(SourceImage(r.src))
    BY RowPlace
  <2>2. SUFFICES ASSUME Between(r, <<src, n>>, <<src + 1, 0>>) PROVE FALSE
    OBVIOUS
  <2>3. r.src = src /\ n <= r.entry
    BY <2>1, <2>2 DEF Between, PositionLeq, RowPosition
  <2> QED
    BY <1>1, <2>1, <2>3
<1>3. << >> \in Seq(ExpectedRows) /\ Len(<< >>) = 0
  OBVIOUS
<1> QED
  BY <1>2, <1>3 DEF HoldsExactly, Abstract!Ordered

-----------------------------------------------------------------------------
(***************************************************************************)
(* Lemmas on tokens and frames.                                            *)
(***************************************************************************)

\* The byte offset of a record, divided by the stride it was computed with.
LEMMA OffsetRoundTrip ==
    ASSUME NEW n \in Nat, NEW stride \in Nat \ {0}
    PROVE  (n * stride) \div stride = n /\ n * stride \in Nat
  OBVIOUS

\* encode_resume and next_entry are inverse: the token states the very position, count
\* and index of the producer that wrote it.
LEMMA TokenIsLossless ==
    ASSUME SurroundingsFixed, ProducerFits
    PROVE  /\ StateFits(CurrentState)
           /\ StatePosition(CurrentState) = ProducerPosition
           /\ CurrentState.records_emitted = records_emitted
           /\ CurrentState.resolver = resolver
           /\ CurrentState.source = CurrentLabel
<1> DEFINE stride == IF decoder = None THEN DEFAULT_STRIDE ELSE Unwrap(decoder).stride
<1>1. stride \in Nat \ {0}
  <2>1. CASE decoder = None
    BY <2>1 DEF DEFAULT_STRIDE
  <2>2. CASE decoder # None
    <3>1. decoder = Some(SourceImage(source_idx)) /\ source_idx \in Nat
          /\ source_idx < Len(listing)
      BY <2>2 DEF ProducerFits
    <3>2. IsImage(SourceImage(source_idx))
      BY <3>1, SourceIsImage
    <3> QED
      BY <2>2, <3>1, <3>2 DEF IsImage, Some, Unwrap
  <2> QED
    BY <2>1, <2>2
<1>2. CurrentState = [source |-> CurrentLabel, byte_offset |-> entry_cursor * stride,
                      record_size |-> stride, records_emitted |-> records_emitted,
                      resolver |-> resolver, source_index |-> source_idx]
  BY DEF CurrentState, EncodeResume
<1> HIDE DEF stride
<1>3. (entry_cursor * stride) \div stride = entry_cursor /\ entry_cursor * stride \in Nat
  BY <1>1, OffsetRoundTrip DEF ProducerFits
<1>4. NextEntry(CurrentState) = entry_cursor
  BY <1>1, <1>2, <1>3 DEF NextEntry
<1>5. StateFits(CurrentState)
  BY <1>1, <1>2, <1>3, <1>4 DEF StateFits, IsScanState, ProducerFits
<1> QED
  BY <1>2, <1>4, <1>5 DEF StatePosition, ProducerPosition

\* The positions of client and producer are positions.
LEMMA PositionsTyped ==
    ASSUME ClientFits, ProducerFits
    PROVE  /\ ClientPosition \in Positions
           /\ ProducerPosition \in Positions
           /\ StateBegin \in Positions
           /\ PositionLeq(StateBegin, ClientPosition)
<1>1. ClientPosition \in Positions
  BY DEF ClientFits, ClientPosition, StateFits, IsScanState, StatePosition, StateBegin, Positions
<1>2. ProducerPosition \in Positions
  BY DEF ProducerFits, ProducerPosition, Positions
<1>3. StateBegin \in Positions
  BY DEF StateBegin, Positions
<1> QED
  BY <1>1, <1>2, <1>3 DEF PositionLeq, StateBegin, Positions

\* An index that build_resolver made is not empty: the root is always in it.
LEMMA BuiltIsNotEmpty == ASSUME NEW image PROVE BuildResolver(image) # EmptyIndex
<1>1. ROOT_ENTRY \in DOMAIN BuildResolver(image)
  BY DEF BuildResolver
<1>2. DOMAIN EmptyIndex = {}
  BY DEF EmptyIndex
<1> QED
  BY <1>1, <1>2

\* What the sources hold does not change.
LEMMA ReferenceFixed ==
    ASSUME UNCHANGED surroundings
    PROVE  /\ ExpectedRows' = ExpectedRows
           /\ listing' = listing /\ content' = content /\ mode' = mode
  BY DEF surroundings, ExpectedRows, ExpectedRow, SourceImage

\* A step that leaves the client alone and does not end in "idle" keeps its part.
LEMMA ClientFrame ==
    ASSUME ClientFits, UNCHANGED surroundings, UNCHANGED client,
           pc' # "idle" \/ pending_resume' # None \/ status' # "running"
    PROVE  ClientFits' /\ ClientPosition' = ClientPosition
<1>1. received' = received /\ token' = token
  BY DEF client
<1>2. ExpectedRows' = ExpectedRows /\ listing' = listing /\ content' = content
  BY ReferenceFixed
<1>3. ClientPosition' = ClientPosition
  BY <1>1 DEF ClientPosition
<1>4. HoldsExactly(received, StateBegin, ClientPosition)'
  BY <1>1, <1>2, <1>3 DEF ClientFits, HoldsExactly
<1>5. token # None => StateFits(Unwrap(token))'
  BY <1>1, <1>2 DEF ClientFits, StateFits, IndexFits, SourceImage
<1> QED
  BY <1>1, <1>3, <1>4, <1>5 DEF ClientFits

-----------------------------------------------------------------------------
(***************************************************************************)
(* The invariant is kept, action by action.                                *)
(***************************************************************************)
LEMMA InitHolds == Init => IInv
<1> SUFFICES ASSUME Init PROVE IInv
  OBVIOUS
<1>1. SurroundingsFixed
  BY DEF Init, SurroundingsFixed
<1>2. ControlFits
  BY ReadMftAssumption DEF Init, NoProducer, ControlFits
<1>3. ProducerFits
  BY DEF Init, NoProducer, ProducerFits, IndexFits
<1>4. ClientFits
  <2>1. StateBegin \in Positions
    BY DEF StateBegin, Positions
  <2>2. HoldsExactly(<< >>, StateBegin, StateBegin)
    BY <1>1, <2>1, EmptyStretch
  <2> QED
    BY <2>2 DEF Init, ClientFits, ClientPosition, None
<1>5. AnswerFits
  BY DEF Init, NoProducer, AnswerFits, InFlight
<1> QED
  BY <1>1, <1>2, <1>3, <1>4, <1>5 DEF IInv

\* A producer is made, with the client's token pending.
LEMMA NewProducerKeeps == IInv /\ NewProducer => IInv'
<1> SUFFICES ASSUME IInv, NewProducer PROVE IInv'
  OBVIOUS
<1> USE DEF IInv
<1>1. /\ pc = "down" /\ pc' = "idle" /\ status = "running"
      /\ sources' = listing /\ pending_resume' = token
      /\ UNCHANGED <<source_idx, decoder, resolver, entry_cursor, records_emitted, rows,
                     answer, resume, faults, received, token, status>>
      /\ UNCHANGED surroundings /\ UNCHANGED client
  BY DEF NewProducer, client
<1>2. ExpectedRows' = ExpectedRows /\ listing' = listing /\ content' = content /\ mode' = mode
  BY <1>1, ReferenceFixed
<1>3. SurroundingsFixed'
  BY <1>2 DEF SurroundingsFixed
<1>4. ControlFits'
  BY <1>1, <1>2 DEF ControlFits
<1>5. ProducerFits'
  BY <1>1, <1>2 DEF ProducerFits, IndexFits, SourceImage
<1>6. ClientFits'
  <2>1. CASE token # None
    BY <1>1, <2>1, ClientFrame
  <2>2. CASE token = None
    <3>1. InStep'
      BY <1>1, <2>2 DEF ControlFits, InStep, ProducerPosition, StateBegin
    <3>2. HoldsExactly(received, StateBegin, ClientPosition)'
      BY <1>1, <1>2 DEF ClientFits, HoldsExactly, ClientPosition
    <3> QED
      BY <1>1, <2>2, <3>1, <3>2 DEF ClientFits
  <2> QED
    BY <2>1, <2>2
<1>7. AnswerFits'
  BY <1>1 DEF AnswerFits, InFlight
<1> QED
  BY <1>3, <1>4, <1>5, <1>6, <1>7

\* Whether it goes on or applies the pending state, the producer starts a batch where
\* the client's token says, and the batch is empty.
LEMMA CallNextBatchKeeps == IInv /\ CallNextBatch => IInv'
<1> SUFFICES ASSUME IInv, CallNextBatch PROVE IInv'
  OBVIOUS
<1> USE DEF IInv
<1>1. /\ pc = "idle" /\ status = "running" /\ pc' = "produce"
      /\ pending_resume' = None /\ rows' = << >> /\ answer' = "none" /\ resume' = None
      /\ UNCHANGED <<sources, faults, received, token, status>>
      /\ UNCHANGED surroundings /\ UNCHANGED client
  BY DEF CallNextBatch, position, client
<1>2. ExpectedRows' = ExpectedRows /\ listing' = listing /\ content' = content /\ mode' = mode
  BY <1>1, ReferenceFixed
<1>3. SurroundingsFixed'
  BY <1>2 DEF SurroundingsFixed
<1>4. ControlFits'
  BY <1>1, <1>2 DEF ControlFits
<1>5. ClientFits' /\ ClientPosition' = ClientPosition
  BY <1>1, ClientFrame
<1>6. /\ ProducerFits'
      /\ ProducerPosition' = ClientPosition
      /\ records_emitted' = Len(received)
  <2>1. CASE pending_resume = None
    <3>1. UNCHANGED <<source_idx, decoder, resolver, entry_cursor, records_emitted>>
      BY <2>1 DEF CallNextBatch, position
    <3>2. InStep
      BY <1>1, <2>1 DEF ClientFits
    <3>3. ProducerPosition = ClientPosition /\ records_emitted = Len(received)
      <4>1. CASE token = None
        BY <3>2, <4>1 DEF InStep, ClientPosition, ClientFits
      <4>2. CASE token # None
        <5>1. Unwrap(token) = CurrentState
          BY <3>2, <4>2 DEF InStep, Some, Unwrap
        <5> QED
          BY <4>2, <5>1, TokenIsLossless DEF ClientPosition, ClientFits
      <4> QED
        BY <4>1, <4>2
    <3> QED
      BY <1>2, <3>1, <3>3 DEF ProducerFits, IndexFits, SourceImage, ProducerPosition
  <2>2. CASE pending_resume # None
    <3>1. pending_resume = token /\ token # None
      BY <2>2 DEF ControlFits
    <3>2. ApplyPending(Unwrap(token))
      BY <2>2, <3>1 DEF CallNextBatch
    <3>3. StateFits(Unwrap(token)) /\ Unwrap(token).records_emitted = Len(received)
      BY <3>1 DEF ClientFits
    <3>4. ProducerFits'
      BY <1>2, <3>2, <3>3 DEF ApplyPending, StateFits, IsScanState, ProducerFits, IndexFits,
                            SourceImage
    <3>5. ProducerPosition' = ClientPosition
      BY <3>1, <3>2 DEF ApplyPending, ProducerPosition, ClientPosition, StatePosition
    <3> QED
      BY <3>2, <3>3, <3>4, <3>5 DEF ApplyPending
  <2> QED
    BY <2>1, <2>2
<1>7. AnswerFits'
  <2>1. ClientPosition \in Positions
    BY PositionsTyped
  <2>2. HoldsExactly(<< >>, ClientPosition, ClientPosition)
    BY <2>1, EmptyStretch
  <2>3. HoldsExactly(rows, ClientPosition, ProducerPosition)'
    BY <1>1, <1>2, <1>5, <1>6, <2>2 DEF HoldsExactly
  <2>4. PositionLeq(ClientPosition, ProducerPosition)'
    BY <1>5, <1>6, <2>1 DEF PositionLeq, Positions
  <2>5. records_emitted' = Len(received') + Len(rows')
    BY <1>1, <1>6 DEF ClientFits, HoldsExactly
  <2> QED
    BY <1>1, <2>3, <2>4, <2>5 DEF AnswerFits, InFlight
<1> QED
  BY <1>3, <1>4, <1>5, <1>6, <1>7

\* A source is opened: its own index is built, or the token's, which is its own too.
LEMMA OpenSourceKeeps == IInv /\ OpenSource => IInv'
<1> SUFFICES ASSUME IInv, OpenSource PROVE IInv'
  OBVIOUS
<1> USE DEF IInv
<1>1. /\ pc = "produce" /\ pc' = pc /\ source_idx < Len(sources)
      /\ decoder' = Some(content[CurrentFile])
      /\ resolver' = IF resolver = EmptyIndex THEN BuildResolver(content[CurrentFile])
                                              ELSE resolver
      /\ UNCHANGED <<sources, source_idx, entry_cursor, records_emitted, pending_resume,
                     rows, answer, resume, faults, received, token, status>>
      /\ UNCHANGED surroundings /\ UNCHANGED client
  BY DEF OpenSource, BatchOpen, SourcesExhausted, client, ProducerFits, ControlFits,
         SurroundingsFixed
<1>2. ExpectedRows' = ExpectedRows /\ listing' = listing /\ content' = content /\ mode' = mode
  BY <1>1, ReferenceFixed
<1>3. SurroundingsFixed'
  BY <1>2 DEF SurroundingsFixed
<1>4. ControlFits'
  BY <1>1, <1>2 DEF ControlFits
<1>5. ClientFits' /\ ClientPosition' = ClientPosition
  BY <1>1, ClientFrame DEF ControlFits
<1>6. ProducerFits'
  <2>1. source_idx < Len(listing) /\ content[CurrentFile] = SourceImage(source_idx)
    BY <1>1 DEF ControlFits, CurrentFile, SourceImage
  <2>2. resolver' = BuildResolver(SourceImage(source_idx))
    BY <1>1, <2>1, BuiltIsNotEmpty DEF ProducerFits, IndexFits
  <2> QED
    BY <1>1, <1>2, <2>1, <2>2 DEF ProducerFits, IndexFits, SourceImage
<1>7. AnswerFits'
  <2>1. ProducerPosition' = ProducerPosition /\ ~InFlight' /\ ~InFlight
    BY <1>1 DEF ProducerPosition, InFlight
  <2> QED
    BY <1>1, <1>2, <1>5, <2>1 DEF AnswerFits, HoldsExactly
<1> QED
  BY <1>3, <1>4, <1>5, <1>6, <1>7

\* The call fails: its rows are dropped, and nothing is claimed of the position.
LEMMA OpenFailsKeeps == IInv /\ OpenFails => IInv'
<1> SUFFICES ASSUME IInv, OpenFails PROVE IInv'
  OBVIOUS
<1> USE DEF IInv
<1>1. /\ pc = "produce" /\ pc' = "reply" /\ answer' = "error"
      /\ UNCHANGED <<sources, source_idx, decoder, resolver, entry_cursor, records_emitted,
                     pending_resume, resume, faults, received, token, status>>
      /\ UNCHANGED surroundings /\ UNCHANGED client
  BY DEF OpenFails, BatchOpen, position, client
<1>2. ExpectedRows' = ExpectedRows /\ listing' = listing /\ content' = content /\ mode' = mode
  BY <1>1, ReferenceFixed
<1>3. SurroundingsFixed'
  BY <1>2 DEF SurroundingsFixed
<1>4. ControlFits'
  BY <1>1, <1>2 DEF ControlFits
<1>5. ClientFits'
  BY <1>1, ClientFrame
<1>6. ProducerFits'
  BY <1>1, <1>2 DEF ProducerFits, IndexFits, SourceImage
<1>7. AnswerFits'
  BY <1>1 DEF AnswerFits, InFlight
<1> QED
  BY <1>3, <1>4, <1>5, <1>6, <1>7

\* Passing over the end of a source passes over no row.
LEMMA SkipSourceKeeps == IInv /\ SkipSource => IInv'
<1> SUFFICES ASSUME IInv, SkipSource PROVE IInv'
  OBVIOUS
<1> USE DEF IInv
<1>1. /\ pc = "produce" /\ pc' = pc /\ decoder # None
      /\ entry_cursor >= EntryCount(Unwrap(decoder))
      /\ decoder' = None /\ resolver' = EmptyIndex
      /\ entry_cursor' = 0 /\ source_idx' = source_idx + 1
      /\ UNCHANGED <<sources, records_emitted, pending_resume, rows, answer, resume, faults,
                     received, token, status>>
      /\ UNCHANGED surroundings /\ UNCHANGED client
  BY DEF SkipSource, AdvanceSource, BatchOpen, client
<1>2. ExpectedRows' = ExpectedRows /\ listing' = listing /\ content' = content /\ mode' = mode
  BY <1>1, ReferenceFixed
<1>3. SurroundingsFixed'
  BY <1>2 DEF SurroundingsFixed
<1>4. ControlFits'
  BY <1>1, <1>2 DEF ControlFits
<1>5. ClientFits' /\ ClientPosition' = ClientPosition
  BY <1>1, ClientFrame DEF ControlFits
<1>6. ProducerFits'
  BY <1>1 DEF ProducerFits, IndexFits
<1>7. /\ HoldsExactly(rows, ClientPosition, ProducerPosition')
      /\ PositionLeq(ClientPosition, ProducerPosition')
  <2>1. /\ source_idx \in Nat /\ source_idx < Len(listing) /\ entry_cursor \in Nat
        /\ entry_cursor >= EntryCount(SourceImage(source_idx))
    BY <1>1 DEF ProducerFits, Some, Unwrap
  <2>2. HoldsExactly(<< >>, ProducerPosition, ProducerPosition')
    BY <1>1, <2>1, SourceEndStretch DEF ProducerPosition
  <2>3. /\ ClientPosition \in Positions /\ ProducerPosition \in Positions
        /\ ProducerPosition' \in Positions
    BY <1>1, <2>1, PositionsTyped DEF ProducerPosition, Positions
  <2>4. PositionLeq(ProducerPosition, ProducerPosition')
    BY <1>1, <2>1 DEF ProducerPosition, PositionLeq
  <2>5. /\ HoldsExactly(rows, ClientPosition, ProducerPosition)
        /\ PositionLeq(ClientPosition, ProducerPosition)
    BY <1>1 DEF AnswerFits
  <2>6. HoldsExactly(rows \o << >>, ClientPosition, ProducerPosition')
    BY <2>2, <2>3, <2>4, <2>5, JoinStretches
  <2>7. rows \o << >> = rows
    BY <2>5 DEF HoldsExactly
  <2>8. PositionLeq(ClientPosition, ProducerPosition')
    BY <2>3, <2>4, <2>5 DEF PositionLeq, Positions
  <2> QED
    BY <2>6, <2>7, <2>8
<1>8. AnswerFits'
  <2>1. HoldsExactly(rows, ClientPosition, ProducerPosition)'
    BY <1>1, <1>2, <1>5, <1>7 DEF HoldsExactly
  <2>2. PositionLeq(ClientPosition, ProducerPosition)'
    BY <1>5, <1>7 DEF PositionLeq
  <2>3. ~InFlight /\ ~InFlight'
    BY <1>1 DEF InFlight
  <2> QED
    BY <1>1, <2>1, <2>2, <2>3 DEF AnswerFits
<1> QED
  BY <1>3, <1>4, <1>5, <1>6, <1>8

\* Decoding an entry adds its rows to the batch and moves the cursor past it, in the
\* same step; after the last entry of a source the cursor moves to the next source.
LEMMA DecodeEntryKeeps == IInv /\ DecodeEntry => IInv'
<1> SUFFICES ASSUME IInv, DecodeEntry PROVE IInv'
  OBVIOUS
<1> USE DEF IInv
<1> DEFINE image == SourceImage(source_idx)
           new == Emit(source_idx, CurrentFile, resolver, image, entry_cursor, mode)
           here == <<source_idx, entry_cursor>>
           next == <<source_idx, entry_cursor + 1>>
<1>1. /\ pc = "produce" /\ pc' = pc /\ decoder # None
      /\ UNCHANGED <<sources, pending_resume, answer, resume, faults, received, token, status>>
      /\ UNCHANGED surroundings /\ UNCHANGED client
  BY DEF DecodeEntry, BatchOpen, client
<1>2. ExpectedRows' = ExpectedRows /\ listing' = listing /\ content' = content /\ mode' = mode
  BY <1>1, ReferenceFixed
<1>3. SurroundingsFixed'
  BY <1>2 DEF SurroundingsFixed
<1>4. ControlFits'
  BY <1>1, <1>2 DEF ControlFits
<1>5. ClientFits' /\ ClientPosition' = ClientPosition
  BY <1>1, ClientFrame DEF ControlFits
<1>6. /\ source_idx \in Nat /\ source_idx < Len(listing) /\ entry_cursor \in Nat
      /\ Unwrap(decoder) = image
      /\ resolver = BuildResolver(image)
      /\ CurrentFile = listing[source_idx + 1]
  BY <1>1 DEF ProducerFits, ControlFits, CurrentFile, Some, Unwrap
<1>7. EntryCount(image) \in Nat
  BY <1>6, SourceIsImage
<1>8. /\ entry_cursor < EntryCount(image)
      /\ rows' = rows \o new
      /\ records_emitted' = records_emitted + Len(new)
      /\ IF entry_cursor + 1 >= EntryCount(image)
         THEN AdvanceSource
         ELSE entry_cursor' = entry_cursor + 1 /\ UNCHANGED <<source_idx, decoder, resolver>>
  BY <1>6 DEF DecodeEntry
<1>9. HoldsExactly(new, here, next)
  BY <1>6, <1>8, EntryStretch
<1>10. /\ here \in Positions /\ next \in Positions /\ ClientPosition \in Positions
       /\ PositionLeq(here, next)
       /\ here = ProducerPosition
  BY <1>6, PositionsTyped DEF Positions, PositionLeq, ProducerPosition
<1>11. /\ HoldsExactly(rows, ClientPosition, here)
       /\ PositionLeq(ClientPosition, here)
       /\ records_emitted = Len(received) + Len(rows)
  BY <1>1, <1>10 DEF AnswerFits
<1>12. /\ HoldsExactly(rows', ClientPosition, next)
       /\ PositionLeq(ClientPosition, next)
  <2>1. HoldsExactly(rows \o new, ClientPosition, next)
    BY <1>9, <1>10, <1>11, JoinStretches
  <2>2. PositionLeq(ClientPosition, next)
    BY <1>10, <1>11 DEF PositionLeq, Positions
  <2> QED
    BY <1>8, <2>1, <2>2
<1>13. records_emitted' = Len(received') + Len(rows')
  <2>1. rows \in Seq(ExpectedRows) /\ new \in Seq(ExpectedRows) /\ Len(received) \in Nat
    BY <1>9, <1>11 DEF HoldsExactly, ClientFits
  <2>2. Len(rows') = Len(rows) + Len(new) /\ Len(rows) \in Nat /\ Len(new) \in Nat
    BY <1>8, <2>1
  <2> QED
    BY <1>1, <1>8, <1>11, <2>2
<1>14. /\ ProducerFits'
       /\ HoldsExactly(rows', ClientPosition, ProducerPosition')
       /\ PositionLeq(ClientPosition, ProducerPosition')
  <2>1. records_emitted' \in Nat
    BY <1>8, <1>9 DEF ProducerFits, HoldsExactly
  <2>2. CASE entry_cursor + 1 >= EntryCount(image)
    <3>1. /\ decoder' = None /\ resolver' = EmptyIndex
          /\ entry_cursor' = 0 /\ source_idx' = source_idx + 1
      BY <1>8, <2>2 DEF AdvanceSource
    <3>2. ProducerFits'
      BY <1>6, <2>1, <3>1 DEF ProducerFits, IndexFits
    <3>3. ProducerPosition' = <<source_idx + 1, 0>>
      BY <3>1 DEF ProducerPosition
    <3>4. HoldsExactly(<< >>, next, ProducerPosition')
      BY <1>6, <2>2, <3>3, SourceEndStretch
    <3>5. PositionLeq(next, ProducerPosition') /\ ProducerPosition' \in Positions
      BY <1>6, <3>3 DEF PositionLeq, Positions
    <3>6. HoldsExactly(rows' \o << >>, ClientPosition, ProducerPosition')
      BY <1>10, <1>12, <3>4, <3>5, JoinStretches
    <3>7. rows' \o << >> = rows'
      BY <1>12 DEF HoldsExactly
    <3>8. PositionLeq(ClientPosition, ProducerPosition')
      BY <1>10, <1>12, <3>5 DEF PositionLeq, Positions
    <3> QED
      BY <3>2, <3>6, <3>7, <3>8
  <2>3. CASE ~(entry_cursor + 1 >= EntryCount(image))
    <3>1. entry_cursor' = entry_cursor + 1 /\ UNCHANGED <<source_idx, decoder, resolver>>
      BY <1>8, <2>3
    <3>2. ProducerFits'
      BY <1>2, <1>6, <2>1, <3>1 DEF ProducerFits, IndexFits, SourceImage
    <3>3. ProducerPosition' = next
      BY <3>1 DEF ProducerPosition
    <3> QED
      BY <1>12, <3>2, <3>3
  <2> QED
    BY <2>2, <2>3
<1>15. AnswerFits'
  <2>1. HoldsExactly(rows, ClientPosition, ProducerPosition)'
    BY <1>2, <1>5, <1>14 DEF HoldsExactly
  <2>2. PositionLeq(ClientPosition, ProducerPosition)'
    BY <1>5, <1>14 DEF PositionLeq
  <2>3. ~InFlight /\ ~InFlight'
    BY <1>1 DEF InFlight
  <2> QED
    BY <1>1, <1>13, <2>1, <2>2, <2>3 DEF AnswerFits
<1> QED
  BY <1>3, <1>4, <1>5, <1>14, <1>15

\* The batch goes out with the token of the position it ends at.
LEMMA ReturnBatchKeeps == IInv /\ ReturnBatch => IInv'
<1> SUFFICES ASSUME IInv, ReturnBatch PROVE IInv'
  OBVIOUS
<1> USE DEF IInv
<1>1. /\ pc = "produce" /\ pc' = "reply" /\ answer' = "batch" /\ rows # << >>
      /\ resume' = Some(CurrentState)
      /\ UNCHANGED <<sources, source_idx, decoder, resolver, entry_cursor, records_emitted,
                     pending_resume, rows, faults, received, token, status>>
      /\ UNCHANGED surroundings /\ UNCHANGED client
  BY DEF ReturnBatch, LoopOver, position, client, CurrentState
<1>2. ExpectedRows' = ExpectedRows /\ listing' = listing /\ content' = content /\ mode' = mode
  BY <1>1, ReferenceFixed
<1>3. SurroundingsFixed'
  BY <1>2 DEF SurroundingsFixed
<1>4. ControlFits'
  BY <1>1, <1>2 DEF ControlFits
<1>5. ClientFits' /\ ClientPosition' = ClientPosition
  BY <1>1, ClientFrame
<1>6. ProducerFits'
  BY <1>1, <1>2 DEF ProducerFits, IndexFits, SourceImage
<1>7. CurrentState' = CurrentState /\ ProducerPosition' = ProducerPosition
  BY <1>1 DEF CurrentState, CurrentLabel, ProducerPosition
<1>8. AnswerFits'
  BY <1>1, <1>2, <1>5, <1>7 DEF AnswerFits, InFlight, HoldsExactly
<1> QED
  BY <1>3, <1>4, <1>5, <1>6, <1>8

\* An empty batch means that every row has arrived already: between the client's position
\* and the end of the last source there is none.
LEMMA EndIsComplete ==
    ASSUME IInv, ReturnEnd
    PROVE  Abstract!IsComplete(received)
<1> USE DEF IInv
<1>1. /\ pc = "produce" /\ rows = << >>
      /\ source_idx >= Len(listing) /\ source_idx \in Nat
  BY ReadMftAssumption DEF ReturnEnd, LoopOver, SourcesExhausted, ControlFits, ProducerFits
<1>2. /\ HoldsExactly(<< >>, ClientPosition, ProducerPosition)
      /\ HoldsExactly(received, StateBegin, ClientPosition)
  BY <1>1 DEF AnswerFits, ClientFits
<1>3. ASSUME NEW r \in ExpectedRows PROVE \E i \in 1..Len(received) : received[i] = r
  <2>1. r.src \in Nat /\ r.entry \in Nat /\ r.src < Len(listing)
    BY RowPlace
  <2>2. listing \in Seq(Files)
    BY ReadMftAssumption DEF SurroundingsFixed
  <2>3. ~PositionLeq(ProducerPosition, RowPosition(r))
    BY <1>1, <2>1, <2>2 DEF PositionLeq, ProducerPosition, RowPosition
  <2>4. PositionLeq(StateBegin, RowPosition(r))
    BY <2>1 DEF PositionLeq, StateBegin, RowPosition
  <2>5. ~PositionLeq(ClientPosition, RowPosition(r))
    <3>1. ~Between(r, ClientPosition, ProducerPosition)
      BY <1>2 DEF HoldsExactly
    <3> QED
      BY <2>3, <3>1 DEF Between
  <2>6. Between(r, StateBegin, ClientPosition)
    BY <2>4, <2>5 DEF Between
  <2> QED
    BY <1>2, <2>6 DEF HoldsExactly
<1> QED
  BY <1>3 DEF Abstract!IsComplete

\* No source is left: the producer answers with the end.
LEMMA ReturnEndKeeps == IInv /\ ReturnEnd => IInv'
<1> SUFFICES ASSUME IInv, ReturnEnd PROVE IInv'
  OBVIOUS
<1> USE DEF IInv
<1>1. /\ pc = "produce" /\ pc' = "reply" /\ answer' = "end"
      /\ UNCHANGED <<sources, source_idx, decoder, resolver, entry_cursor, records_emitted,
                     pending_resume, rows, resume, faults, received, token, status>>
      /\ UNCHANGED surroundings /\ UNCHANGED client
  BY DEF ReturnEnd, LoopOver, position, client
<1>2. ExpectedRows' = ExpectedRows /\ listing' = listing /\ content' = content /\ mode' = mode
  BY <1>1, ReferenceFixed
<1>3. SurroundingsFixed'
  BY <1>2 DEF SurroundingsFixed
<1>4. ControlFits'
  BY <1>1, <1>2 DEF ControlFits
<1>5. ClientFits'
  BY <1>1, ClientFrame
<1>6. ProducerFits'
  BY <1>1, <1>2 DEF ProducerFits, IndexFits, SourceImage
<1>7. AnswerFits'
  <2>1. Abstract!IsComplete(received)
    BY EndIsComplete
  <2>2. Abstract!IsComplete(received)'
    BY <1>1, <1>2, <2>1 DEF Abstract!IsComplete
  <2>3. resume' = None
    BY <1>1 DEF AnswerFits, InFlight
  <2> QED
    BY <1>1, <2>2, <2>3 DEF AnswerFits, InFlight
<1> QED
  BY <1>3, <1>4, <1>5, <1>6, <1>7

\* A batch that arrives takes the client from its position to the token's.
LEMMA BatchArrivesKeeps == IInv /\ BatchArrives => IInv'
<1> SUFFICES ASSUME IInv, BatchArrives PROVE IInv'
  OBVIOUS
<1> USE DEF IInv
<1>1. /\ pc = "reply" /\ answer = "batch" /\ InFlight /\ pc' = "idle"
      /\ received' = received \o rows /\ token' = resume
      /\ rows' = << >> /\ answer' = "none" /\ resume' = None
      /\ UNCHANGED <<sources, source_idx, decoder, resolver, entry_cursor, records_emitted,
                     pending_resume, faults, status>>
      /\ UNCHANGED surroundings
  BY DEF BatchArrives, position, InFlight
<1>2. ExpectedRows' = ExpectedRows /\ listing' = listing /\ content' = content /\ mode' = mode
  BY <1>1, ReferenceFixed
<1>3. SurroundingsFixed'
  BY <1>2 DEF SurroundingsFixed
<1>4. pending_resume' = None /\ status = "running"
  BY <1>1 DEF ControlFits
<1>5. ControlFits'
  BY <1>1, <1>2, <1>4 DEF ControlFits
<1>6. ProducerFits'
  BY <1>1, <1>2 DEF ProducerFits, IndexFits, SourceImage
<1>7. /\ token' = Some(CurrentState)
      /\ CurrentState' = CurrentState /\ ProducerPosition' = ProducerPosition
  BY <1>1 DEF AnswerFits, CurrentState, CurrentLabel, ProducerPosition
<1>8. /\ token' # None /\ Unwrap(token') = CurrentState
      /\ ClientPosition' = ProducerPosition
  <2>1. token' # None /\ Unwrap(token') = CurrentState
    BY <1>7 DEF Some, None, Unwrap
  <2> QED
    BY <2>1, TokenIsLossless DEF ClientPosition
<1>9. HoldsExactly(received', StateBegin, ProducerPosition)
  BY <1>1, PositionsTyped, JoinStretches DEF AnswerFits, ClientFits
<1>10. records_emitted = Len(received')
  BY <1>1 DEF AnswerFits, ClientFits, HoldsExactly
<1>11. ClientFits'
  <2>1. HoldsExactly(received, StateBegin, ClientPosition)'
    BY <1>2, <1>8, <1>9 DEF HoldsExactly
  <2>2. StateFits(CurrentState) /\ CurrentState.records_emitted = records_emitted
    BY TokenIsLossless
  <2>3. StateFits(Unwrap(token))'
    BY <1>2, <1>8, <2>2 DEF StateFits, IndexFits, SourceImage
  <2>4. InStep'
    BY <1>7, <1>8 DEF InStep
  <2> QED
    BY <1>7, <1>8, <1>10, <2>1, <2>2, <2>3, <2>4 DEF ClientFits
<1>12. AnswerFits'
  BY <1>1 DEF AnswerFits, InFlight
<1> QED
  BY <1>3, <1>5, <1>6, <1>11, <1>12

\* The end, or an error, reaches the client.
LEMMA VerdictArrivesKeeps == IInv /\ VerdictArrives => IInv'
<1> SUFFICES ASSUME IInv, VerdictArrives PROVE IInv'
  OBVIOUS
<1> USE DEF IInv
<1>1. /\ pc = "reply" /\ ~InFlight /\ pc' = "idle" /\ answer' = "none"
      /\ status' \in {"done", "failed"}
      /\ UNCHANGED <<sources, source_idx, decoder, resolver, entry_cursor, records_emitted,
                     pending_resume, rows, resume, faults, received, token>>
      /\ UNCHANGED surroundings
  BY DEF VerdictArrives, position, InFlight
<1>2. ExpectedRows' = ExpectedRows /\ listing' = listing /\ content' = content /\ mode' = mode
  BY <1>1, ReferenceFixed
<1>3. SurroundingsFixed'
  BY <1>2 DEF SurroundingsFixed
<1>4. ControlFits'
  BY <1>1, <1>2 DEF ControlFits
<1>5. ProducerFits'
  BY <1>1, <1>2 DEF ProducerFits, IndexFits, SourceImage
<1>6. ClientFits'
  BY <1>1, <1>2 DEF ClientFits, ClientPosition, HoldsExactly, StateFits, IndexFits, SourceImage
<1>7. AnswerFits'
  BY <1>1 DEF AnswerFits, InFlight
<1> QED
  BY <1>3, <1>4, <1>5, <1>6, <1>7

\* Losing the producer loses nothing that the client has.
LEMMA LossKeeps == IInv /\ (TearDown \/ Fault) => IInv'
<1> SUFFICES ASSUME IInv, TearDown \/ Fault PROVE IInv'
  OBVIOUS
<1> USE DEF IInv
<1>1. /\ pc' = "down" /\ status = "running"
      /\ sources' = << >> /\ source_idx' = 0 /\ decoder' = None /\ resolver' = EmptyIndex
      /\ entry_cursor' = 0 /\ records_emitted' = 0 /\ pending_resume' = None
      /\ answer' = "none" /\ resume' = None
      /\ UNCHANGED <<received, token, status>>
      /\ UNCHANGED surroundings /\ UNCHANGED client
  BY DEF TearDown, Fault, DropProducer, client, ControlFits
<1>2. ExpectedRows' = ExpectedRows /\ listing' = listing /\ content' = content /\ mode' = mode
  BY <1>1, ReferenceFixed
<1>3. SurroundingsFixed'
  BY <1>2 DEF SurroundingsFixed
<1>4. ControlFits'
  <2>1. faults' \in 0..MaxFaults
    BY ReadMftAssumption DEF TearDown, Fault, ControlFits
  <2> QED
    BY <1>1, <2>1 DEF ControlFits
<1>5. ClientFits'
  BY <1>1, ClientFrame
<1>6. ProducerFits'
  BY <1>1 DEF ProducerFits, IndexFits
<1>7. AnswerFits'
  BY <1>1 DEF AnswerFits, InFlight
<1> QED
  BY <1>3, <1>4, <1>5, <1>6, <1>7

\* Nothing happens.
LEMMA StutterKeeps == IInv /\ UNCHANGED vars => IInv'
<1> SUFFICES ASSUME IInv, UNCHANGED vars PROVE IInv'
  OBVIOUS
<1> USE DEF IInv
<1>1. /\ UNCHANGED <<pc, sources, source_idx, decoder, resolver, entry_cursor,
                     records_emitted, pending_resume, rows, answer, resume, faults,
                     received, token, status>>
      /\ UNCHANGED surroundings
  BY DEF vars, producer, position, client
<1>2. ExpectedRows' = ExpectedRows /\ listing' = listing /\ content' = content /\ mode' = mode
  BY <1>1, ReferenceFixed
<1>3. SurroundingsFixed'
  BY <1>2 DEF SurroundingsFixed
<1>4. ControlFits'
  BY <1>1, <1>2 DEF ControlFits
<1>5. ProducerFits'
  BY <1>1, <1>2 DEF ProducerFits, IndexFits, SourceImage
<1>6. ClientFits'
  BY <1>1, <1>2 DEF ClientFits, ClientPosition, HoldsExactly, StateFits, IndexFits,
                    SourceImage, InStep, CurrentState, CurrentLabel, ProducerPosition
<1>7. AnswerFits'
  BY <1>1, <1>2 DEF AnswerFits, InFlight, HoldsExactly, ClientPosition, ProducerPosition,
                    CurrentState, CurrentLabel, Abstract!IsComplete
<1> QED
  BY <1>3, <1>4, <1>5, <1>6, <1>7

\* Every step keeps the invariant.
LEMMA StepKeeps == IInv /\ [Next]_vars => IInv'
  BY NewProducerKeeps, CallNextBatchKeeps, OpenSourceKeeps, OpenFailsKeeps, SkipSourceKeeps,
     DecodeEntryKeeps, ReturnBatchKeeps, ReturnEndKeeps, BatchArrivesKeeps,
     VerdictArrivesKeeps, LossKeeps, StutterKeeps
     DEF Next, ProducerStep, ClientStep, Finished

-----------------------------------------------------------------------------
(***************************************************************************)
(* The theorems.                                                           *)
(***************************************************************************)

\* The inductive invariant holds in every reachable state.
THEOREM InvariantHolds == Spec => []IInv
  BY InitHolds, StepKeeps, PTL DEF Spec

\* Types: the producer's index is empty or complete, its pending state the client's token.
THEOREM TypeCorrect == Spec => []TypeOK
<1>1. IInv => TypeOK
  <2> SUFFICES ASSUME IInv PROVE TypeOK
    OBVIOUS
  <2>1. content \in Contents /\ listing \in Listings /\ mode \in Modes
    BY DEF IInv, SurroundingsFixed
  <2>2. source_idx < Len(listing) => SourceImage(source_idx) \in Images
    BY SourceIsImage DEF IInv, ProducerFits
  <2>3. decoder = None \/ \E image \in Images : decoder = Some(image)
    BY <2>2 DEF IInv, ProducerFits
  <2>4. resolver = EmptyIndex \/ \E image \in Images : resolver = BuildResolver(image)
    BY <2>2 DEF IInv, ProducerFits, IndexFits
  <2>5. resume = None \/ IsScanState(Unwrap(resume))
    <3>1. IsScanState(CurrentState)
      BY TokenIsLossless DEF IInv, StateFits
    <3> QED
      BY <3>1 DEF IInv, AnswerFits, Some, Unwrap
  <2>6. token = None \/ IsScanState(Unwrap(token))
    BY DEF IInv, ClientFits, StateFits
  <2> QED
    BY <2>1, <2>3, <2>4, <2>5, <2>6 DEF TypeOK, IInv, ControlFits, ProducerFits
<1> QED
  BY <1>1, InvariantHolds, PTL

\* However the producer is lost and made again, the client holds exactly the rows before
\* the position of its token.
THEOREM ExactlyOnce == Spec => []ReceivedUpToToken
<1>1. IInv => ReceivedUpToToken
  BY DEF IInv, ClientFits, ReceivedUpToToken
<1> QED
  BY <1>1, InvariantHolds, PTL

\* The batch in progress continues where the client's rows end.
THEOREM BatchContinues == Spec => []BatchFromTokenToCursor
<1>1. IInv => BatchFromTokenToCursor
  BY DEF IInv, AnswerFits, InFlight, BatchFromTokenToCursor
<1> QED
  BY <1>1, InvariantHolds, PTL

\* A source is read with its own complete index.
THEOREM OwnResolver == Spec => []ReadsWithOwnResolver
<1>1. IInv => ReadsWithOwnResolver
  BY DEF IInv, ProducerFits, ReadsWithOwnResolver
<1> QED
  BY <1>1, InvariantHolds, PTL

\* The token counts the client's rows.
THEOREM CountIsExact == Spec => []EmittedCountsReceived
<1>1. IInv => EmittedCountsReceived
  BY DEF IInv, ClientFits, AnswerFits, EmittedCountsReceived
<1> QED
  BY <1>1, InvariantHolds, PTL

\* The client's token states where the live producer stands.
THEOREM Lossless == Spec => []RehydrationIsLossless
<1>1. IInv => RehydrationIsLossless
  <2> SUFFICES ASSUME IInv, pc = "idle", status = "running", pending_resume = None,
                      token # None
               PROVE  /\ StatePosition(Unwrap(token)) = ProducerPosition
                      /\ Unwrap(token).records_emitted = records_emitted
                      /\ Unwrap(token).resolver = resolver
                      /\ Unwrap(token).source = CurrentLabel
    BY DEF RehydrationIsLossless
  <2>1. token = Some(CurrentState)
    BY DEF IInv, ClientFits, InStep
  <2>2. Unwrap(token) = CurrentState
    BY <2>1 DEF Some, Unwrap
  <2> QED
    BY <2>2, TokenIsLossless DEF IInv
<1> QED
  BY <1>1, InvariantHolds, PTL

-----------------------------------------------------------------------------
(***************************************************************************)
(* Batches are full.  All rows but fewer than BATCH_ROWS are of the record *)
(* that was decoded last: when its rows came, the batch was still open.    *)
(***************************************************************************)
LastRecordFrom(m) ==
    \A i \in 1..Len(rows) : i > m => Abstract!SameRecord(rows[i], rows[Len(rows)])

FillFits ==
    /\ pc = "produce" \/ InFlight => \E m \in 0..(BATCH_ROWS - 1) : LastRecordFrom(m)
    /\ InFlight /\ Len(rows) < BATCH_ROWS => source_idx >= Len(sources)

\* The rows of one entry more: they exceed a batch by no more than those of one record.
LEMMA DecodeEntryFills ==
    ASSUME IInv, FillFits, DecodeEntry
    PROVE  FillFits'
<1> USE DEF IInv
<1> DEFINE image == SourceImage(source_idx)
           new == Emit(source_idx, CurrentFile, resolver, image, entry_cursor, mode)
<1>1. pc = "produce" /\ pc' = pc /\ decoder # None /\ Len(rows) < BATCH_ROWS
  BY DEF DecodeEntry, BatchOpen
<1>2. /\ source_idx \in Nat /\ source_idx < Len(listing) /\ entry_cursor \in Nat
      /\ Unwrap(decoder) = image
      /\ resolver = BuildResolver(image)
      /\ CurrentFile = listing[source_idx + 1]
  BY <1>1 DEF ProducerFits, ControlFits, CurrentFile, Some, Unwrap
<1>3. entry_cursor < EntryCount(image) /\ rows' = rows \o new
  BY <1>2 DEF DecodeEntry
<1>4. new \in Seq(ExpectedRows) /\ rows \in Seq(ExpectedRows)
  <2>1. HoldsExactly(new, <<source_idx, entry_cursor>>, <<source_idx, entry_cursor + 1>>)
    BY <1>2, <1>3, EntryStretch
  <2>2. HoldsExactly(rows, ClientPosition, ProducerPosition)
    BY <1>1 DEF AnswerFits
  <2> QED
    BY <2>1, <2>2 DEF HoldsExactly
<1>5. \A k \in 1..Len(new) : new[k].src = source_idx /\ new[k].entry = entry_cursor
  <2>1. \A k \in 1..RowCount(image, entry_cursor, mode) :
           new[k].src = source_idx /\ new[k].entry = entry_cursor
    BY DEF Emit, Row
  <2>2. Len(new) = RowCount(image, entry_cursor, mode)
    <3>1. IsImage(image) /\ EntryCount(image) \in Nat
      BY <1>2, SourceIsImage
    <3>2. entry_cursor \in 0..(EntryCount(image) - 1)
      BY <1>2, <1>3, <3>1
    <3>3. RowCount(image, entry_cursor, mode) \in Nat
      BY <3>1, <3>2, RowCountIsNat
    <3> QED
      BY <3>3 DEF Emit
  <2> QED
    BY <2>1, <2>2
<1>6. \E m \in 0..(BATCH_ROWS - 1) : LastRecordFrom(m)'
  <2> DEFINE k == Len(rows)
             l == Len(new)
             all == rows'
  <2>1. k \in Nat /\ l \in Nat /\ Len(all) = k + l
        /\ (\A i \in 1..k : all[i] = rows[i]) /\ (\A i \in 1..l : all[k + i] = new[i])
    BY <1>3, <1>4
  <2>2. CASE l = 0
    <3>1. Len(all) = k /\ \A i \in 1..k : all[i] = rows[i]
      BY <2>1, <2>2
    <3>2. PICK m \in 0..(BATCH_ROWS - 1) : LastRecordFrom(m)
      BY <1>1 DEF FillFits
    <3>3. LastRecordFrom(m)'
      BY <2>1, <3>1, <3>2 DEF LastRecordFrom
    <3> QED
      BY <3>3
  <2>3. CASE l # 0
    <3>1. k \in 0..(BATCH_ROWS - 1)
      BY <1>1, <2>1, ReadMftAssumption
    <3> HIDE DEF k, l, all, new
    <3>2. ASSUME NEW i \in 1..(k + l), i > k
          PROVE  all[i].src = source_idx /\ all[i].entry = entry_cursor
      <4>1. i - k \in 1..l /\ k + (i - k) = i
        BY <2>1, <3>2
      <4>2. all[i] = new[i - k]
        BY <2>1, <4>1
      <4> QED
        BY <1>5, <4>1, <4>2 DEF l
    <3>3. k + l \in 1..(k + l) /\ k + l > k
      BY <2>1, <2>3
    <3>4. PICK m \in 0..(BATCH_ROWS - 1) : m = k
      BY <3>1
    <3>5. \A i \in 1..Len(all) : i > m => Abstract!SameRecord(all[i], all[Len(all)])
      BY <2>1, <3>2, <3>3, <3>4 DEF Abstract!SameRecord
    <3>6. LastRecordFrom(m)'
      BY <3>5 DEF LastRecordFrom, all
    <3> QED
      BY <3>6
  <2> QED
    BY <2>2, <2>3
<1>7. ~InFlight'
  BY <1>1 DEF InFlight
<1> QED
  BY <1>6, <1>7 DEF FillFits

\* The other steps add no rows.
LEMMA OtherStepFills ==
    ASSUME IInv, FillFits, [Next]_vars, ~DecodeEntry
    PROVE  FillFits'
<1>1. CASE OpenSource \/ SkipSource
  <2>1. pc = "produce" /\ pc' = pc /\ rows' = rows
    BY <1>1 DEF OpenSource, SkipSource, BatchOpen
  <2>2. \A m : LastRecordFrom(m)' = LastRecordFrom(m)
    BY <2>1 DEF LastRecordFrom
  <2> QED
    BY <2>1, <2>2 DEF FillFits, InFlight
<1>2. CASE CallNextBatch
  <2>1. rows' = << >> /\ pc' = "produce" /\ Len(rows') = 0
    BY <1>2 DEF CallNextBatch
  <2>2. 0 \in 0..(BATCH_ROWS - 1) /\ LastRecordFrom(0)'
    BY <2>1, ReadMftAssumption DEF LastRecordFrom
  <2> QED
    BY <2>1, <2>2 DEF FillFits, InFlight
<1>3. CASE ReturnBatch
  <2>1. pc = "produce" /\ rows' = rows /\ source_idx' = source_idx /\ sources' = sources
    BY <1>3 DEF ReturnBatch, LoopOver, position
  <2>2. \A m : LastRecordFrom(m)' = LastRecordFrom(m)
    BY <2>1 DEF LastRecordFrom
  <2>3. Len(rows) >= BATCH_ROWS \/ source_idx >= Len(sources)
    BY <1>3 DEF ReturnBatch, LoopOver, SourcesExhausted
  <2>4. Len(rows) \in Nat
    BY <2>1 DEF IInv, AnswerFits, HoldsExactly
  <2> QED
    BY <2>1, <2>2, <2>3, <2>4, ReadMftAssumption DEF FillFits
<1>4. CASE OpenFails \/ ReturnEnd \/ NewProducer \/ BatchArrives \/ VerdictArrives
           \/ TearDown \/ Fault
  <2>1. pc' # "produce" /\ ~InFlight'
    BY <1>4 DEF OpenFails, ReturnEnd, NewProducer, BatchArrives, VerdictArrives, TearDown, Fault,
                DropProducer, InFlight
  <2> QED
    BY <2>1 DEF FillFits
<1>5. CASE UNCHANGED vars
  <2>1. UNCHANGED <<pc, answer, rows, source_idx, sources>>
    BY <1>5 DEF vars, producer, position
  <2>2. \A m : LastRecordFrom(m)' = LastRecordFrom(m)
    BY <2>1 DEF LastRecordFrom
  <2> QED
    BY <2>1, <2>2 DEF FillFits, InFlight
<1> QED
  BY <1>1, <1>2, <1>3, <1>4, <1>5 DEF Next, ProducerStep, ClientStep, Finished

\* A batch is closed by the record that fills it and by no earlier one; one that is not full
\* is the last.
THEOREM BatchesFull == Spec => []BatchesAreFull
<1>1. Init => FillFits
  BY DEF Init, FillFits, InFlight
<1>2. IInv /\ FillFits /\ [Next]_vars => FillFits'
  BY DecodeEntryFills, OtherStepFills
<1>3. IInv /\ FillFits => BatchesAreFull
  <2> SUFFICES ASSUME IInv, FillFits, InFlight
               PROVE  /\ rows # << >>
                      /\ Cardinality({i \in 1..Len(rows) :
                                         ~Abstract!SameRecord(rows[i], rows[Len(rows)])})
                            < BATCH_ROWS
                      /\ Len(rows) < BATCH_ROWS => Unwrap(resume).source_index >= Len(listing)
    BY DEF BatchesAreFull, InFlight
  <2> DEFINE others == {i \in 1..Len(rows) : ~Abstract!SameRecord(rows[i], rows[Len(rows)])}
  <2>1. PICK m \in 0..(BATCH_ROWS - 1) : LastRecordFrom(m)
    BY DEF FillFits
  <2>2. others \subseteq 1..m
    <3>1. Len(rows) \in Nat /\ m \in Nat
      BY <2>1, ReadMftAssumption DEF IInv, AnswerFits, HoldsExactly
    <3> QED
      BY <2>1, <3>1 DEF LastRecordFrom
  <2> HIDE DEF others
  <2>3. Cardinality(others) < BATCH_ROWS
    <3>1. m \in Nat /\ BATCH_ROWS \in Nat /\ m < BATCH_ROWS
      BY <2>1, ReadMftAssumption
    <3>2. IsFiniteSet(1..m) /\ Cardinality(1..m) = m
      BY <3>1, FS_Interval
    <3>3. Cardinality(others) <= m /\ IsFiniteSet(others)
      BY <2>2, <3>2, FS_Subset
    <3>4. Cardinality(others) \in Nat
      BY <3>3, FS_CardinalityType
    <3> QED
      BY <3>1, <3>3, <3>4
  <2>4. /\ rows # << >> /\ Unwrap(resume).source_index = source_idx /\ sources = listing
    BY DEF IInv, AnswerFits, ControlFits, InFlight, CurrentState, EncodeResume, Some, Unwrap
  <2> QED
    BY <2>3, <2>4 DEF FillFits, others
<1> QED
  BY <1>1, <1>2, <1>3, InvariantHolds, PTL DEF Spec

-----------------------------------------------------------------------------
(***************************************************************************)
(* The timeline.                                                           *)
(***************************************************************************)
\* What the client holds is an initial part of the timeline, cut between records.
LEMMA HeldIsBeginning ==
    ASSUME SurroundingsFixed, NEW rs, NEW p \in Positions, HoldsExactly(rs, StateBegin, p)
    PROVE  Abstract!IsBeginning(rs)
<1>1. rs \in Seq(ExpectedRows) /\ Abstract!Ordered(rs)
  BY DEF HoldsExactly
<1>2. ASSUME NEW i \in 1..Len(rs), NEW r \in ExpectedRows,
             Abstract!SameRecord(r, rs[i]) \/ Abstract!Before(r, rs[i])
      PROVE  \E j \in 1..Len(rs) : rs[j] = r
  <2>1. rs[i] \in ExpectedRows /\ Between(rs[i], StateBegin, p)
    BY <1>1 DEF HoldsExactly
  <2>2. /\ r.src \in Nat /\ r.entry \in Nat /\ r.stream \in Nat
        /\ rs[i].src \in Nat /\ rs[i].entry \in Nat /\ rs[i].stream \in Nat
    BY <2>1, RowPlace
  <2>3. Between(r, StateBegin, p)
    <3>1. PositionLeq(StateBegin, RowPosition(r))
      BY <2>2 DEF PositionLeq, RowPosition, StateBegin
    <3>2. RowPosition(r) = RowPosition(rs[i]) \/ PositionLeq(RowPosition(r), RowPosition(rs[i]))
      BY <1>2, <2>2 DEF PositionLeq, RowPosition, Abstract!SameRecord, Abstract!Before
    <3>3. p[1] \in Nat /\ p[2] \in Nat
      BY DEF Positions
    <3> QED
      BY <2>1, <2>2, <3>1, <3>2, <3>3 DEF Between, PositionLeq, RowPosition
  <2> QED
    BY <2>3 DEF HoldsExactly
<1>3. \A i \in 1..Len(rs) : rs[i] \in ExpectedRows
  BY <1>1
<1> QED
  BY <1>1, <1>2, <1>3 DEF Abstract!IsBeginning

\* A step of the scan is a step of the timeline or leaves it alone.
LEMMA StepRefines ==
    IInv /\ IInv' /\ [Next]_vars => [Abstract!Next]_(Abstract!vars)
<1> SUFFICES ASSUME IInv, IInv', [Next]_vars PROVE [Abstract!Next]_(Abstract!vars)
  OBVIOUS
<1>1. UNCHANGED surroundings
  BY DEF Next, ProducerStep, ClientStep, Finished, vars, surroundings, NewProducer,
         CallNextBatch, OpenSource, OpenFails, SkipSource, DecodeEntry, ReturnBatch, ReturnEnd,
         BatchArrives, VerdictArrives, TearDown, Fault
<1>2. ExpectedRows' = ExpectedRows
  BY <1>1, ReferenceFixed
<1>3. CASE BatchArrives
  <2>1. /\ received' = received \o rows /\ status' = status /\ status = "running"
        /\ rows # << >> /\ rows \in Seq(ExpectedRows) /\ received \in Seq(ExpectedRows)
    BY <1>3 DEF BatchArrives, IInv, ControlFits, ClientFits, AnswerFits, InFlight, HoldsExactly
  <2>2. Len(rows) \in Nat /\ Len(rows) # 0
    BY <2>1
  <2>3. /\ Len(received') > Len(received)
        /\ \A i \in 1..Len(received) : received'[i] = received[i]
    BY <2>1, <2>2
  <2>4. /\ HoldsExactly(received', StateBegin, ProducerPosition)
        /\ SurroundingsFixed
    BY <1>3, <2>1, PositionsTyped, JoinStretches
       DEF IInv, AnswerFits, ClientFits, InFlight, BatchArrives
  <2>5. Abstract!IsBeginning(received')
    BY <2>4, HeldIsBeginning, PositionsTyped DEF IInv
  <2>6. UNCHANGED <<ExpectedRows, status>>
    BY <1>2, <2>1
  <2>7. Abstract!Deliver
    BY <2>1, <2>3, <2>5, <2>6 DEF Abstract!Deliver
  <2> QED
    BY <2>7 DEF Abstract!Next
<1>4. CASE VerdictArrives
  <2>1. /\ received' = received /\ status = "running"
        /\ status' = IF answer = "end" THEN "done" ELSE "failed"
        /\ answer = "end" => Abstract!IsComplete(received)
    BY <1>4 DEF VerdictArrives, IInv, ControlFits, AnswerFits
  <2> QED
    BY <1>2, <2>1 DEF Abstract!Next, Abstract!Finish, Abstract!Fail
<1>5. CASE UNCHANGED <<received, status>>
  BY <1>2, <1>5 DEF Abstract!vars
<1>6. BatchArrives \/ VerdictArrives \/ UNCHANGED <<received, status>>
  BY DEF Next, ProducerStep, ClientStep, Finished, vars, client, NewProducer, CallNextBatch,
         OpenSource, OpenFails, SkipSource, DecodeEntry, ReturnBatch, ReturnEnd, TearDown, Fault
<1> QED
  BY <1>3, <1>4, <1>5, <1>6

\* The scan implements the abstract timeline.
THEOREM Refinement == Spec => ImplementsTimeline
<1>1. Init => Abstract!Init
  BY DEF Init, Abstract!Init
<1> QED
  BY <1>1, InvariantHolds, StepRefines, PTL DEF Spec, ImplementsTimeline, Abstract!Spec

-----------------------------------------------------------------------------
(***************************************************************************)
(* Part two.  The inductive invariant, in four layers.  The first says how *)
(* producer, answer and token are tied; unlike IInv of part one it says    *)
(* nothing of what the sources hold, since that may be something else by   *)
(* now.                                                                    *)
(***************************************************************************)
Indices == {BuildResolver(image) : image \in Images}

\* Every row that some image of some source might yield.
AnyRow ==
    {Row(src, file, index, n, k) :
        src \in Nat, file \in Files, index \in Indices, n \in Nat, k \in Nat}

IsDriftState(state) ==
    /\ state.source_index \in Nat
    /\ NextEntry(state) \in Nat
    /\ state.resolver \in Indices \cup {EmptyIndex}

DriftTyped ==
    /\ listing \in Seq(Files) /\ asked \in Seq(Files) /\ sources \in Seq(Files)
    /\ content \in [Files -> Images]
    /\ mode \in {"files", "streams", "allocated"}
    /\ rewritten \in Nat /\ unreadable \in Nat
    /\ received \in Seq(AnyRow) /\ rows \in Seq(AnyRow)
    /\ source_idx \in Nat /\ entry_cursor \in Nat
    /\ resolver \in Indices \cup {EmptyIndex}
    /\ \/ decoder = None
       \/ /\ source_idx < Len(sources) /\ resolver # EmptyIndex
          /\ \E image \in Images : decoder = Some(image)
    /\ token # None => token = Some(Unwrap(token)) /\ IsDriftState(Unwrap(token))

DriftControl ==
    /\ pc \in {"down", "idle", "produce", "reply"}
    /\ status \in {"running", "done", "failed"}
    /\ answer \in {"none", "batch", "end", "error"}
    /\ pc = "down" => ProducerPosition = StateBegin /\ resolver = EmptyIndex /\ decoder = None
    /\ pc \in {"produce", "reply"} => status = "running"
    /\ pc # "idle" => pending_resume = None
    /\ pending_resume \in {None, token, Some(DefaultState)}
    /\ unreadable = 0 => pending_resume \in {None, token}
    /\ resume = IF InFlight THEN Some(CurrentState) ELSE None
    /\ pc = "idle" /\ pending_resume = None /\ status = "running" =>
          IF token = None
          THEN ProducerPosition = StateBegin /\ resolver = EmptyIndex
          ELSE token = Some(CurrentState)
    /\ token = None => received = << >>

(***************************************************************************)
(* The second: what has been read lies before the position, in order, and  *)
(* the index at hand is the one that the rows of its source came from.     *)
(***************************************************************************)
\* A batch is being filled or on its way.
Active == pc = "produce" \/ InFlight

\* What the client has, and what it has once the batch in progress arrives.
Held == received \o rows

ClientIndex == IF token = None THEN EmptyIndex ELSE Unwrap(token).resolver

\* The rows all lie before a position.
Before(seq, p) == \A i \in 1..Len(seq) : ~PositionLeq(p, RowPosition(seq[i]))

\* The rows of a source have their paths from this index.
PathsFrom(seq, src, index) ==
    \A i \in 1..Len(seq) :
        seq[i].src = src =>
            index # EmptyIndex /\ seq[i].path = Resolve(index, seq[i].entry, MAX_DEPTH)

\* The rows of each source have their paths from one index, which for the source at
\* hand is the index at hand.
IndexedAlike(seq, src, index) ==
    /\ PathsFrom(seq, src, index)
    /\ \A other \in 0..(src - 1) : \E image \in Images :
          PathsFrom(seq, other, BuildResolver(image))

MovesOn(seq, p, index) ==
    /\ Abstract!Ordered(seq)
    /\ Before(seq, p)
    /\ IndexedAlike(seq, p[1], index)

DriftForward ==
    unreadable = 0 =>
        /\ MovesOn(received, ClientPosition, ClientIndex)
        /\ Active => MovesOn(Held, ProducerPosition, resolver)

(***************************************************************************)
(* The third: where the glob only gains files behind the ones it had, the  *)
(* i-th file of every list that is long enough is the i-th of names.       *)
(***************************************************************************)
Follows(list, names) == \A i \in 1..Len(list) : list[i] = names[i]

\* The label of a position past the last source.
Unnamed(label) == label = ""

NamesFile(state, names) ==
    Unnamed(state.source) \/ state.source = names[state.source_index + 1]

DriftNames(names) ==
    /\ Follows(sources, names)
    /\ Follows(asked, names)
    /\ token # None => NamesFile(Unwrap(token), names)

(***************************************************************************)
(* The fourth: where it also loses none of the files it was asked for,     *)
(* unless it matches none at all, and no file is rewritten, every row      *)
(* before the position has been read.                                      *)
(***************************************************************************)
AskedImage(src) == content[asked[src + 1]]

AskedRow(src, n, k) == Row(src, asked[src + 1], BuildResolver(AskedImage(src)), n, k)

HoldsAllBefore(seq, p) ==
    \A src \in 0..(Len(asked) - 1) :
    \A n \in 0..(EntryCount(AskedImage(src)) - 1) :
    \A k \in 1..RowCount(AskedImage(src), n, mode) :
        ~PositionLeq(p, <<src, n>>) => \E i \in 1..Len(seq) : seq[i] = AskedRow(src, n, k)

OwnIndex(index, src, names) ==
    index = EmptyIndex \/ index = BuildResolver(content[names[src + 1]])

DriftComplete(names) ==
    /\ pc # "down" => Len(sources) >= Len(asked)
    /\ rewritten = 0 =>
        /\ decoder = None \/ decoder = Some(content[names[source_idx + 1]])
        /\ OwnIndex(resolver, source_idx, names)
        /\ token # None => OwnIndex(Unwrap(token).resolver, Unwrap(token).source_index, names)
        /\ HoldsAllBefore(received, ClientPosition)
        /\ Active => HoldsAllBefore(Held, ProducerPosition)
        /\ status = "done" \/ (pc = "reply" /\ answer = "end") =>
              HoldsAllBefore(received, <<Len(asked), 0>>)

-----------------------------------------------------------------------------
(***************************************************************************)
(* Lemmas on rows and tokens.                                              *)
(***************************************************************************)
LEMMA AnyRowIs ==
    ASSUME NEW r
    PROVE  r \in AnyRow <=>
              \E src \in Nat, file \in Files, index \in Indices, n \in Nat, k \in Nat :
                  r = Row(src, file, index, n, k)
  BY DEF AnyRow

\* The fields of a row.
LEMMA RowIs ==
    ASSUME NEW src, NEW file, NEW index, NEW n, NEW k
    PROVE  /\ Row(src, file, index, n, k).src = src
           /\ Row(src, file, index, n, k).entry = n
           /\ Row(src, file, index, n, k).stream = k
           /\ Row(src, file, index, n, k).path = Resolve(index, n, MAX_DEPTH)
  BY DEF Row

\* The numbers in a row are natural.
LEMMA AnyRowFields ==
    ASSUME NEW r \in AnyRow
    PROVE  r.src \in Nat /\ r.entry \in Nat /\ r.stream \in Nat
<1>1. PICK src \in Nat, file \in Files, index \in Indices, n \in Nat, k \in Nat :
         r = Row(src, file, index, n, k)
  BY AnyRowIs
<1> QED
  BY <1>1, RowIs

\* What emit makes of one entry, whatever the image and the index: the rows of that
\* entry, in the order of its streams.
LEMMA EmittedRows ==
    ASSUME mode \in {"files", "streams", "allocated"},
           NEW image \in Images, NEW index \in Indices, NEW file \in Files, NEW src \in Nat,
           NEW n \in Nat, n < EntryCount(image),
           NEW e, e = Emit(src, file, index, image, n, mode)
    PROVE  /\ e \in Seq(AnyRow)
           /\ Len(e) = RowCount(image, n, mode)
           /\ \A k \in 1..Len(e) : e[k] = Row(src, file, index, n, k)
<1> DEFINE count == RowCount(image, n, mode)
<1>1. IsImage(image)
  BY ReadMftAssumption
<1>2. EntryCount(image) \in Nat
  BY <1>1 DEF IsImage, EntryCount
<1>3. count \in Nat
  BY <1>1, <1>2, RowCountOfImage
<1>4. e = [k \in 1..count |-> Row(src, file, index, n, k)]
  BY DEF Emit
<1> HIDE DEF count
<1>5. \A k \in 1..count : Row(src, file, index, n, k) \in AnyRow
  BY <1>3, AnyRowIs
<1>6. e \in Seq(AnyRow) /\ Len(e) = count
  BY <1>3, <1>4, <1>5
<1> QED
  BY <1>4, <1>6 DEF count

\* A token states the position and the index of the producer that wrote it, whatever the
\* source has held.
LEMMA TokenOfProducer ==
    ASSUME DriftTyped
    PROVE  /\ IsDriftState(CurrentState)
           /\ StatePosition(CurrentState) = ProducerPosition
           /\ CurrentState.resolver = resolver
           /\ CurrentState.source_index = source_idx
           /\ CurrentState.source = CurrentLabel
<1> DEFINE stride == IF decoder = None THEN DEFAULT_STRIDE ELSE Unwrap(decoder).stride
<1>1. stride \in Nat \ {0}
  <2>1. CASE decoder = None
    BY <2>1 DEF DEFAULT_STRIDE
  <2>2. CASE decoder # None
    <3>1. PICK image \in Images : decoder = Some(image)
      BY <2>2 DEF DriftTyped
    <3>2. IsImage(image)
      BY ReadMftAssumption
    <3> QED
      BY <2>2, <3>1, <3>2 DEF IsImage, Some, Unwrap
  <2> QED
    BY <2>1, <2>2
<1>2. CurrentState = [source |-> CurrentLabel, byte_offset |-> entry_cursor * stride,
                      record_size |-> stride, records_emitted |-> records_emitted,
                      resolver |-> resolver, source_index |-> source_idx]
  BY DEF CurrentState, EncodeResume
<1> HIDE DEF stride
<1>3. (entry_cursor * stride) \div stride = entry_cursor
  BY <1>1, OffsetRoundTrip DEF DriftTyped
<1>4. NextEntry(CurrentState) = entry_cursor
  BY <1>1, <1>2, <1>3 DEF NextEntry
<1> QED
  BY <1>2, <1>4 DEF IsDriftState, StatePosition, ProducerPosition, DriftTyped

\* The default state is a token for the beginning of the scan.  (The SMT backend does not
\* take the empty string.)
LEMMA DefaultStateFields ==
    /\ DefaultState.source_index = 0
    /\ DefaultState.resolver = EmptyIndex
    /\ DefaultState.byte_offset = 0
    /\ DefaultState.record_size = DEFAULT_STRIDE
    /\ Unnamed(DefaultState.source)
  BY Zenon DEF DefaultState, Unnamed

\* A producer without a token begins at the beginning.
LEMMA DefaultStateIs ==
    /\ IsDriftState(DefaultState)
    /\ StatePosition(DefaultState) = StateBegin
<1>1. NextEntry(DefaultState) = 0
  BY DefaultStateFields DEF NextEntry, DEFAULT_STRIDE
<1> QED
  BY <1>1, DefaultStateFields DEF IsDriftState, StatePosition, StateBegin

\* An option that is not empty holds what it was made of.
LEMMA SomeIs == ASSUME NEW x PROVE Some(x) # None /\ Unwrap(Some(x)) = x
  BY DEF Some, None, Unwrap

\* A pass over an image makes an index that is not empty.
LEMMA BuiltIsIndex ==
    ASSUME NEW image \in Images
    PROVE  BuildResolver(image) \in Indices /\ BuildResolver(image) # EmptyIndex
  BY BuiltIsNotEmpty DEF Indices

-----------------------------------------------------------------------------
(***************************************************************************)
(* The first layer is kept, action by action.                              *)
(***************************************************************************)
DriftFits == DriftTyped /\ DriftControl

\* It holds at the beginning.
LEMMA DriftInitFits == DriftInit => DriftFits
<1> SUFFICES ASSUME DriftInit PROVE DriftFits
  OBVIOUS
<1>1. DriftTyped
  BY ReadMftAssumption DEF DriftInit, Init, NoProducer, DriftTyped
<1>2. DriftControl
  BY DEF DriftInit, Init, NoProducer, DriftControl, ProducerPosition, StateBegin, InFlight
<1> QED
  BY <1>1, <1>2 DEF DriftFits

\* A producer is made, its sources those of the present list, the client's token or the
\* default state pending.
LEMMA NewProducerFits ==
    ASSUME DriftFits, (NewProducer /\ UNCHANGED drift) \/ NewProducerFromUnreadable
    PROVE  DriftFits'
<1> USE DEF DriftFits
<1>1. /\ pc = "down" /\ pc' = "idle" /\ status = "running" /\ sources' = listing
      /\ UNCHANGED <<listing, content, mode, source_idx, decoder, resolver, entry_cursor,
                     records_emitted, rows, answer, resume, received, token, status, asked,
                     rewritten>>
      /\ \/ pending_resume' = token /\ UNCHANGED unreadable
         \/ pending_resume' = Some(DefaultState) /\ unreadable' = unreadable + 1
  BY DEF NewProducer, NewProducerFromUnreadable, client, surroundings, drift
<1>2. /\ ProducerPosition' = StateBegin /\ decoder' = None /\ resolver' = EmptyIndex
      /\ resume' = None /\ ~InFlight'
  BY <1>1 DEF DriftControl, ProducerPosition, InFlight
<1>3. DriftTyped'
  BY <1>1, <1>2 DEF DriftTyped
<1>4. DriftControl'
  BY <1>1, <1>2, SomeIs DEF DriftControl, DriftTyped
<1> QED
  BY <1>3, <1>4

\* The producer goes on where it stood, or from the pending state.
LEMMA CallNextBatchFits ==
    ASSUME DriftFits, CallNextBatch, UNCHANGED drift
    PROVE  DriftFits'
<1> USE DEF DriftFits
<1>1. /\ pc = "idle" /\ status = "running" /\ pc' = "produce"
      /\ pending_resume' = None /\ rows' = << >> /\ answer' = "none" /\ resume' = None
      /\ UNCHANGED <<listing, content, mode, sources, received, token, status, asked,
                     rewritten, unreadable>>
  BY DEF CallNextBatch, position, client, surroundings, drift
<1>2. /\ source_idx' \in Nat /\ entry_cursor' \in Nat
      /\ resolver' \in Indices \cup {EmptyIndex}
      /\ \/ decoder' = None
         \/ /\ source_idx' < Len(sources) /\ resolver' # EmptyIndex
            /\ \E image \in Images : decoder' = Some(image)
  <2>1. CASE pending_resume = None
    BY <2>1 DEF CallNextBatch, position, DriftTyped
  <2>2. CASE pending_resume # None
    <3>1. ApplyPending(Unwrap(pending_resume))
      BY <2>2 DEF CallNextBatch
    <3>2. IsDriftState(Unwrap(pending_resume))
      BY <2>2, DefaultStateIs, SomeIs DEF DriftControl, DriftTyped
    <3> QED
      BY <3>1, <3>2 DEF ApplyPending, IsDriftState
  <2> QED
    BY <2>1, <2>2
<1>3. DriftTyped'
  BY <1>1, <1>2 DEF DriftTyped
<1>4. DriftControl'
  BY <1>1 DEF DriftControl, InFlight
<1> QED
  BY <1>3, <1>4

\* The turns of the loops: a source is opened, passed over, or read on.
LEMMA LoopTurnFits ==
    ASSUME DriftFits, OpenSource \/ SkipSource \/ DecodeEntry, UNCHANGED drift
    PROVE  DriftFits'
<1> USE DEF DriftFits
<1>1. /\ pc = "produce" /\ pc' = pc
      /\ UNCHANGED <<listing, content, mode, sources, pending_resume, answer, resume,
                     received, token, status, asked, rewritten, unreadable>>
  BY DEF OpenSource, SkipSource, DecodeEntry, BatchOpen, client, surroundings, drift
<1>2. DriftControl'
  BY <1>1 DEF DriftControl, InFlight
<1>3. CASE OpenSource
  <2>1. /\ source_idx < Len(sources)
        /\ decoder' = Some(content[CurrentFile])
        /\ resolver' = IF resolver = EmptyIndex THEN BuildResolver(content[CurrentFile])
                                                ELSE resolver
        /\ UNCHANGED <<source_idx, entry_cursor, rows>>
    BY <1>3 DEF OpenSource, SourcesExhausted, DriftTyped
  <2>2. content[CurrentFile] \in Images
    BY <2>1 DEF DriftTyped, CurrentFile
  <2>3. resolver' \in Indices /\ resolver' # EmptyIndex
    BY <2>1, <2>2, BuiltIsIndex DEF DriftTyped
  <2>4. DriftTyped'
    BY <1>1, <2>1, <2>2, <2>3 DEF DriftTyped
  <2> QED
    BY <1>2, <2>4
<1>4. CASE SkipSource
  <2>1. /\ decoder' = None /\ resolver' = EmptyIndex
        /\ entry_cursor' = 0 /\ source_idx' = source_idx + 1 /\ rows' = rows
    BY <1>4 DEF SkipSource, AdvanceSource
  <2>2. DriftTyped'
    BY <1>1, <2>1 DEF DriftTyped
  <2> QED
    BY <1>2, <2>2
<1>5. CASE DecodeEntry
  <2>1. PICK image \in Images : decoder = Some(image)
    BY <1>5 DEF DecodeEntry, DriftTyped
  <2> DEFINE new == Emit(source_idx, CurrentFile, resolver, image, entry_cursor, mode)
  <2>2. /\ entry_cursor < EntryCount(image)
        /\ rows' = rows \o new
        /\ \/ /\ decoder' = None /\ resolver' = EmptyIndex
              /\ entry_cursor' = 0 /\ source_idx' = source_idx + 1
           \/ entry_cursor' = entry_cursor + 1 /\ UNCHANGED <<source_idx, decoder, resolver>>
    BY <1>5, <2>1, SomeIs DEF DecodeEntry, AdvanceSource
  <2>3. source_idx < Len(sources) /\ resolver \in Indices /\ CurrentFile \in Files
    BY <2>1, SomeIs DEF DriftTyped, CurrentFile
  <2>4. new \in Seq(AnyRow)
    BY <2>2, <2>3, EmittedRows DEF DriftTyped
  <2> HIDE DEF new
  <2>5. rows' \in Seq(AnyRow)
    BY <2>2, <2>4 DEF DriftTyped
  <2>6. DriftTyped'
    BY <1>1, <2>2, <2>5 DEF DriftTyped
  <2> QED
    BY <1>2, <2>6
<1> QED
  BY <1>3, <1>4, <1>5

\* The call answers: with its batch and the token of the position it ends at, with the end,
\* or with an error that drops the rows.
LEMMA AnswerKeepsFit ==
    ASSUME DriftFits, OpenFails \/ ReturnBatch \/ ReturnEnd, UNCHANGED drift
    PROVE  DriftFits'
<1> USE DEF DriftFits
<1>1. /\ pc = "produce" /\ pc' = "reply"
      /\ UNCHANGED <<listing, content, mode, sources, source_idx, decoder, resolver,
                     entry_cursor, records_emitted, pending_resume, received, token, status,
                     asked, rewritten, unreadable>>
  BY DEF OpenFails, ReturnBatch, ReturnEnd, BatchOpen, LoopOver, position, client,
         surroundings, drift
<1>2. /\ rows' = rows \/ rows' = << >>
      /\ answer' \in {"batch", "end", "error"}
      /\ resume' = IF answer' = "batch" THEN Some(CurrentState) ELSE None
  BY <1>1 DEF OpenFails, ReturnBatch, ReturnEnd, CurrentState, DriftControl, InFlight
<1>3. CurrentState' = CurrentState
  BY <1>1 DEF CurrentState, CurrentLabel
<1>4. rows' \in Seq(AnyRow)
  <2>1. rows \in Seq(AnyRow) /\ << >> \in Seq(AnyRow)
    BY DEF DriftTyped
  <2> QED
    BY <1>2, <2>1
<1>5. DriftTyped'
  BY <1>1, <1>4 DEF DriftTyped
<1>6. DriftControl'
  BY <1>1, <1>2, <1>3 DEF DriftControl, InFlight
<1> QED
  BY <1>5, <1>6

\* The answer arrives: the batch with its token, or the verdict.
LEMMA ArrivalFits ==
    ASSUME DriftFits, BatchArrives \/ VerdictArrives, UNCHANGED drift
    PROVE  DriftFits'
<1> USE DEF DriftFits
<1>1. /\ pc = "reply" /\ pc' = "idle" /\ answer' = "none" /\ pending_resume' = None
      /\ UNCHANGED <<listing, content, mode, sources, source_idx, decoder, resolver,
                     entry_cursor, records_emitted, asked, rewritten, unreadable>>
  BY DEF BatchArrives, VerdictArrives, position, surroundings, drift, DriftControl
<1>2. CASE BatchArrives
  <2>1. /\ received' = received \o rows /\ rows' = << >> /\ resume' = None
        /\ token' = Some(CurrentState) /\ status' = status
    BY <1>2 DEF BatchArrives, DriftControl, InFlight
  <2>2. CurrentState' = CurrentState /\ IsDriftState(CurrentState)
    BY <1>1, TokenOfProducer DEF CurrentState, CurrentLabel
  <2>3. token' # None /\ Unwrap(token') = CurrentState
    BY <2>1, SomeIs
  <2>4. IsDriftState(Unwrap(token))'
    BY <2>2, <2>3 DEF IsDriftState, NextEntry
  <2>5. DriftTyped'
    BY <1>1, <2>1, <2>3, <2>4 DEF DriftTyped
  <2>6. DriftControl'
    BY <1>1, <1>2, <2>1, <2>2, <2>3 DEF DriftControl, InFlight, BatchArrives
  <2> QED
    BY <2>5, <2>6
<1>3. CASE VerdictArrives
  <2>1. /\ status' \in {"done", "failed"} /\ answer \in {"end", "error"}
        /\ UNCHANGED <<rows, resume, received, token>>
    BY <1>3 DEF VerdictArrives
  <2>2. DriftTyped'
    BY <1>1, <2>1 DEF DriftTyped
  <2>3. DriftControl'
    BY <1>1, <2>1 DEF DriftControl, InFlight
  <2> QED
    BY <2>2, <2>3
<1> QED
  BY <1>2, <1>3

\* The producer is lost.
LEMMA LossFits ==
    ASSUME DriftFits, TearDown \/ Fault, UNCHANGED drift
    PROVE  DriftFits'
<1> USE DEF DriftFits
<1>1. /\ pc' = "down" /\ status = "running"
      /\ sources' = << >> /\ source_idx' = 0 /\ decoder' = None /\ resolver' = EmptyIndex
      /\ entry_cursor' = 0 /\ pending_resume' = None /\ rows' = << >>
      /\ answer' = "none" /\ resume' = None
      /\ UNCHANGED <<listing, content, mode, received, token, status, asked, rewritten,
                     unreadable>>
  BY DEF TearDown, Fault, DropProducer, client, surroundings, drift, DriftControl
<1>2. DriftTyped'
  BY <1>1 DEF DriftTyped
<1>3. DriftControl'
  BY <1>1 DEF DriftControl, InFlight, ProducerPosition, StateBegin
<1> QED
  BY <1>2, <1>3

\* The directory or a file changes, no file is left, or the query is over.
LEMMA SurroundingsFit ==
    ASSUME DriftFits,
           \/ DirectoryChanges \/ FileChanges \/ ProducerFails
           \/ Finished /\ UNCHANGED drift
           \/ UNCHANGED driftVars
    PROVE  DriftFits'
<1> USE DEF DriftFits
<1>1. /\ UNCHANGED <<pc, sources, source_idx, decoder, resolver, entry_cursor,
                     records_emitted, pending_resume, rows, answer, resume, received, token,
                     mode, asked, unreadable>>
      /\ status' = status \/ (pc = "down" /\ status' = "failed")
      /\ listing' = listing \/ listing' \in Relistings
      /\ rewritten' = rewritten \/ rewritten' = rewritten + 1
  <2>1. CASE DirectoryChanges
    BY <2>1 DEF DirectoryChanges, producer, position, client
  <2>2. CASE FileChanges
    BY <2>2 DEF FileChanges, producer, position, client
  <2>3. CASE ProducerFails
    BY <2>3 DEF ProducerFails, producer, position, surroundings, drift
  <2>4. CASE (Finished /\ UNCHANGED drift) \/ UNCHANGED driftVars
    BY <2>4 DEF Finished, driftVars, vars, drift, producer, position, client, surroundings
  <2> QED
    BY <2>1, <2>2, <2>3, <2>4
<1>2. listing' \in Seq(Files)
  BY <1>1, DriftAssumption DEF DriftTyped
<1>3. content' \in [Files -> Images]
  <2>1. CASE FileChanges
    BY <2>1, DriftAssumption DEF FileChanges, DriftTyped
  <2>2. CASE ~FileChanges
    BY <2>2 DEF DirectoryChanges, ProducerFails, Finished, driftVars, vars, drift,
                surroundings, DriftTyped
  <2> QED
    BY <2>1, <2>2
<1>4. DriftTyped'
  BY <1>1, <1>2, <1>3 DEF DriftTyped
<1>5. CurrentState' = CurrentState
  BY <1>1 DEF CurrentState, CurrentLabel
<1>6. DriftControl'
  BY <1>1, <1>5 DEF DriftControl, InFlight, ProducerPosition
<1> QED
  BY <1>4, <1>6

\* The actions of DriftNext.
LEMMA DriftCases ==
    ASSUME [DriftNext]_driftVars
    PROVE  \/ (listing # << >> /\ NewProducer /\ UNCHANGED drift) \/ NewProducerFromUnreadable
           \/ (CallNextBatch /\ UNCHANGED drift)
           \/ (OpenSource \/ SkipSource \/ DecodeEntry) /\ UNCHANGED drift
           \/ (OpenFails \/ ReturnBatch \/ ReturnEnd) /\ UNCHANGED drift
           \/ (BatchArrives \/ VerdictArrives) /\ UNCHANGED drift
           \/ (TearDown \/ Fault) /\ UNCHANGED drift
           \/ \/ DirectoryChanges \/ FileChanges \/ ProducerFails
              \/ Finished /\ UNCHANGED drift
              \/ UNCHANGED driftVars
  BY DEF DriftNext, ScanProducerStep, ScanClientStep, ScanFault, ProducerStep

\* Types and control hold in every reachable state.
THEOREM DriftFitsAlways == DriftSpec => []DriftFits
<1>1. DriftFits /\ [DriftNext]_driftVars => DriftFits'
  BY DriftCases, NewProducerFits, CallNextBatchFits, LoopTurnFits, AnswerKeepsFit,
     ArrivalFits, LossFits, SurroundingsFit
<1> QED
  BY <1>1, DriftInitFits, PTL DEF DriftSpec

-----------------------------------------------------------------------------
(***************************************************************************)
(* Lemmas on what has been read.                                           *)
(***************************************************************************)

\* The rows of an entry, read with the index at hand, move the reader past that entry.
LEMMA EntryMovesOn ==
    ASSUME NEW seq \in Seq(AnyRow), NEW new \in Seq(AnyRow),
           NEW s \in Nat, NEW n \in Nat, NEW index \in Indices, NEW file,
           MovesOn(seq, <<s, n>>, index),
           \A k \in 1..Len(new) : new[k] = Row(s, file, index, n, k)
    PROVE  MovesOn(seq \o new, <<s, n + 1>>, index)
<1> DEFINE both == seq \o new
<1>1. /\ both \in Seq(AnyRow) /\ Len(seq) \in Nat /\ Len(new) \in Nat
      /\ Len(both) = Len(seq) + Len(new)
      /\ \A i \in 1..Len(seq) : both[i] = seq[i]
      /\ \A i \in 1..Len(new) : both[Len(seq) + i] = new[i]
  OBVIOUS
<1> HIDE DEF both
<1>2. \A i \in 1..Len(both) :
         \/ i \in 1..Len(seq)
         \/ i - Len(seq) \in 1..Len(new) /\ i = Len(seq) + (i - Len(seq))
  BY <1>1
<1>3. \A k \in 1..Len(new) : /\ new[k].src = s /\ new[k].entry = n /\ new[k].stream = k
                             /\ new[k].path = Resolve(index, n, MAX_DEPTH)
  BY RowIs
<1>4. \A i \in 1..Len(seq) :
         /\ seq[i].src \in Nat /\ seq[i].entry \in Nat /\ seq[i].stream \in Nat
         /\ seq[i].src < s \/ (seq[i].src = s /\ seq[i].entry < n)
  <2> SUFFICES ASSUME NEW i \in 1..Len(seq)
               PROVE  /\ seq[i].src \in Nat /\ seq[i].entry \in Nat /\ seq[i].stream \in Nat
                      /\ seq[i].src < s \/ (seq[i].src = s /\ seq[i].entry < n)
    OBVIOUS
  <2>1. seq[i].src \in Nat /\ seq[i].entry \in Nat /\ seq[i].stream \in Nat
    BY AnyRowFields
  <2>2. ~PositionLeq(<<s, n>>, RowPosition(seq[i]))
    BY DEF MovesOn, Before
  <2> QED
    BY <2>1, <2>2 DEF PositionLeq, RowPosition
<1>5. Abstract!Ordered(both)
  <2> SUFFICES ASSUME NEW i \in 1..Len(both), NEW j \in 1..Len(both), i < j
               PROVE  Abstract!Before(both[i], both[j])
    BY DEF Abstract!Ordered
  <2>1. CASE i \in 1..Len(seq) /\ j \in 1..Len(seq)
    BY <2>1, <1>1 DEF MovesOn, Abstract!Ordered
  <2>2. CASE i \in 1..Len(seq) /\ j - Len(seq) \in 1..Len(new) /\ j = Len(seq) + (j - Len(seq))
    <3> DEFINE m == j - Len(seq)
    <3>1. both[i] = seq[i] /\ both[j] = new[m] /\ m \in 1..Len(new)
      BY <2>2, <1>1
    <3> QED
      BY <3>1, <2>2, <1>3, <1>4 DEF Abstract!Before, Abstract!SameRecord
  <2>3. CASE /\ i - Len(seq) \in 1..Len(new) /\ i = Len(seq) + (i - Len(seq))
             /\ j - Len(seq) \in 1..Len(new) /\ j = Len(seq) + (j - Len(seq))
    <3> DEFINE l == i - Len(seq)
               m == j - Len(seq)
    <3>1. /\ l \in 1..Len(new) /\ i = Len(seq) + l
          /\ m \in 1..Len(new) /\ j = Len(seq) + m
      BY <2>3
    <3> HIDE DEF l, m
    <3>2. both[i] = new[l] /\ both[j] = new[m] /\ l < m
      BY <3>1, <1>1
    <3> QED
      BY <3>1, <3>2, <1>3 DEF Abstract!Before, Abstract!SameRecord
  <2> QED
    BY <2>1, <2>2, <2>3, <1>1, <1>2
<1>6. Before(both, <<s, n + 1>>)
  <2> SUFFICES ASSUME NEW i \in 1..Len(both)
               PROVE  ~PositionLeq(<<s, n + 1>>, RowPosition(both[i]))
    BY DEF Before
  <2>1. CASE i \in 1..Len(seq)
    <3>1. both[i] = seq[i]
      BY <2>1, <1>1
    <3>2. /\ seq[i].src \in Nat /\ seq[i].entry \in Nat
          /\ seq[i].src < s \/ (seq[i].src = s /\ seq[i].entry < n)
      BY <2>1, <1>4
    <3> QED
      BY <3>1, <3>2 DEF PositionLeq, RowPosition
  <2>2. CASE i - Len(seq) \in 1..Len(new) /\ i = Len(seq) + (i - Len(seq))
    <3> DEFINE m == i - Len(seq)
    <3>1. m \in 1..Len(new) /\ both[i] = new[m]
      BY <2>2, <1>1
    <3> QED
      BY <3>1, <1>3 DEF PositionLeq, RowPosition
  <2> QED
    BY <2>1, <2>2, <1>2
<1>7. index # EmptyIndex
  BY BuiltIsIndex DEF Indices
<1>8. PathsFrom(both, s, index)
  <2> SUFFICES ASSUME NEW i \in 1..Len(both), both[i].src = s
               PROVE  both[i].path = Resolve(index, both[i].entry, MAX_DEPTH)
    BY <1>7 DEF PathsFrom
  <2>1. CASE i \in 1..Len(seq)
    BY <2>1, <1>1 DEF MovesOn, IndexedAlike, PathsFrom
  <2>2. CASE i - Len(seq) \in 1..Len(new) /\ i = Len(seq) + (i - Len(seq))
    <3> DEFINE m == i - Len(seq)
    <3>1. m \in 1..Len(new) /\ both[i] = new[m]
      BY <2>2, <1>1
    <3> QED
      BY <3>1, <1>3
  <2> QED
    BY <2>1, <2>2, <1>2
<1>9. ASSUME NEW other \in 0..(s - 1)
      PROVE  \E image \in Images : PathsFrom(both, other, BuildResolver(image))
  <2>1. PICK image \in Images : PathsFrom(seq, other, BuildResolver(image))
    BY DEF MovesOn, IndexedAlike
  <2>2. ASSUME NEW i \in 1..Len(both), both[i].src = other
        PROVE  both[i] = seq[i] /\ i \in 1..Len(seq)
    <3>1. CASE i - Len(seq) \in 1..Len(new) /\ i = Len(seq) + (i - Len(seq))
      <4> DEFINE m == i - Len(seq)
      <4>1. m \in 1..Len(new) /\ both[i] = new[m]
        BY <3>1, <1>1
      <4>2. both[i].src = s
        BY <4>1, <1>3
      <4> QED
        BY <2>2, <4>2
    <3> QED
      BY <3>1, <1>1, <1>2
  <2>3. PathsFrom(both, other, BuildResolver(image))
    BY <2>1, <2>2 DEF PathsFrom
  <2> QED
    BY <2>3
<1>10. MovesOn(both, <<s, n + 1>>, index)
  BY <1>5, <1>6, <1>8, <1>9 DEF MovesOn, IndexedAlike
<1> QED
  BY <1>10 DEF both

\* Past a source the index at hand is dropped; there are no rows of the next source yet.
LEMMA SourceMovesOn ==
    ASSUME NEW seq \in Seq(AnyRow), NEW s \in Nat, NEW n \in Nat, NEW index \in Indices,
           MovesOn(seq, <<s, n>>, index)
    PROVE  MovesOn(seq, <<s + 1, 0>>, EmptyIndex)
<1>1. ASSUME NEW i \in 1..Len(seq)
      PROVE  seq[i].src \in Nat /\ seq[i].entry \in Nat /\ seq[i].src <= s
  <2>1. seq[i].src \in Nat /\ seq[i].entry \in Nat
    BY AnyRowFields
  <2>2. ~PositionLeq(<<s, n>>, RowPosition(seq[i]))
    BY DEF MovesOn, Before
  <2> QED
    BY <2>1, <2>2 DEF PositionLeq, RowPosition
<1>2. Before(seq, <<s + 1, 0>>)
  BY <1>1 DEF Before, PositionLeq, RowPosition
<1>3. PathsFrom(seq, s + 1, EmptyIndex)
  BY <1>1 DEF PathsFrom
<1>4. PICK image \in Images : index = BuildResolver(image)
  BY DEF Indices
<1>5. PathsFrom(seq, s, BuildResolver(image))
  BY <1>4 DEF MovesOn, IndexedAlike
<1>6. ASSUME NEW other \in 0..((s + 1) - 1)
      PROVE  \E img \in Images : PathsFrom(seq, other, BuildResolver(img))
  <2>1. CASE other = s
    BY <2>1, <1>5
  <2>2. CASE other # s
    BY <2>2 DEF MovesOn, IndexedAlike
  <2> QED
    BY <2>1, <2>2
<1> QED
  BY <1>2, <1>3, <1>6 DEF MovesOn, IndexedAlike

\* A source of which nothing has been read yet may be given any index.
LEMMA OpeningMovesOn ==
    ASSUME NEW seq, NEW p, NEW index, MovesOn(seq, p, EmptyIndex)
    PROVE  MovesOn(seq, p, index)
  BY DEF MovesOn, IndexedAlike, PathsFrom

-----------------------------------------------------------------------------
(***************************************************************************)
(* The second layer.                                                       *)
(***************************************************************************)

\* A call starts where the client's token says, with the token's index.
LEMMA CallStartsAtToken ==
    ASSUME DriftFits, unreadable = 0, CallNextBatch, UNCHANGED drift
    PROVE  ProducerPosition' = ClientPosition /\ resolver' = ClientIndex
<1> USE DEF DriftFits
<1>1. pc = "idle" /\ status = "running"
  BY DEF CallNextBatch
<1>2. CASE pending_resume = None
  <2>1. UNCHANGED <<source_idx, entry_cursor, resolver>>
    BY <1>2 DEF CallNextBatch, position
  <2>2. ProducerPosition' = ProducerPosition
    BY <2>1 DEF ProducerPosition
  <2>3. CASE token = None
    BY <1>1, <1>2, <2>1, <2>2, <2>3 DEF DriftControl, ClientPosition, ClientIndex
  <2>4. CASE token # None
    <3>1. Unwrap(token) = CurrentState
      BY <1>1, <1>2, <2>4, SomeIs DEF DriftControl
    <3> QED
      BY <2>1, <2>2, <2>4, <3>1, TokenOfProducer DEF ClientPosition, ClientIndex
  <2> QED
    BY <2>3, <2>4
<1>3. CASE pending_resume # None
  <2>1. pending_resume = token
    BY <1>3 DEF DriftControl
  <2>2. ApplyPending(Unwrap(token))
    BY <1>3, <2>1 DEF CallNextBatch
  <2> QED
    BY <1>3, <2>1, <2>2
       DEF ApplyPending, ProducerPosition, ClientPosition, ClientIndex, StatePosition
<1> QED
  BY <1>2, <1>3

\* A step that leaves the client alone and does not touch a batch.
LEMMA ForwardFrame ==
    ASSUME DriftForward, UNCHANGED <<received, token>>,
           unreadable' = 0 => unreadable = 0,
           Active' => Active /\ UNCHANGED <<rows, resolver, source_idx, entry_cursor>>
    PROVE  DriftForward'
<1> SUFFICES ASSUME unreadable' = 0
             PROVE  /\ MovesOn(received, ClientPosition, ClientIndex)'
                    /\ Active' => MovesOn(Held, ProducerPosition, resolver)'
  BY DEF DriftForward
<1>1. MovesOn(received, ClientPosition, ClientIndex)'
  BY DEF DriftForward, ClientPosition, ClientIndex, MovesOn, Before, IndexedAlike, PathsFrom
<1>2. ASSUME Active' PROVE MovesOn(Held, ProducerPosition, resolver)'
  BY <1>2 DEF DriftForward, Held, ProducerPosition, MovesOn, Before, IndexedAlike, PathsFrom
<1> QED
  BY <1>1, <1>2

\* The turns of the loops: an opened source keeps the index its rows came from, an entry
\* adds its rows, and past the last entry the index is dropped.
LEMMA ForwardTurn ==
    ASSUME DriftFits, DriftForward, OpenSource \/ SkipSource \/ DecodeEntry, UNCHANGED drift
    PROVE  DriftForward'
<1> USE DEF DriftFits
<1> SUFFICES ASSUME unreadable = 0
             PROVE  /\ MovesOn(received, ClientPosition, ClientIndex)'
                    /\ MovesOn(Held', ProducerPosition', resolver')
  BY DEF DriftForward, MovesOn, Before, IndexedAlike, PathsFrom, drift
<1>1. pc = "produce" /\ UNCHANGED <<received, token, sources, mode>>
  BY DEF OpenSource, SkipSource, DecodeEntry, BatchOpen, client, surroundings
<1>2. MovesOn(received, ClientPosition, ClientIndex)'
  BY <1>1 DEF DriftForward, ClientPosition, ClientIndex, MovesOn, Before, IndexedAlike, PathsFrom
<1>3. MovesOn(Held, <<source_idx, entry_cursor>>, resolver)
  BY <1>1 DEF DriftForward, Active, ProducerPosition
<1>4. /\ source_idx \in Nat /\ entry_cursor \in Nat
      /\ Held \in Seq(AnyRow)
  BY DEF DriftTyped, Held
<1>5. CASE OpenSource
  <2>1. Held' = Held /\ ProducerPosition' = <<source_idx, entry_cursor>>
    BY <1>1, <1>5 DEF OpenSource, Held, ProducerPosition
  <2>2. CASE resolver = EmptyIndex
    BY <1>2, <1>3, <2>1, <2>2, OpeningMovesOn
  <2>3. CASE resolver # EmptyIndex
    <3>1. resolver' = resolver
      BY <1>5, <2>3 DEF OpenSource
    <3> QED
      BY <1>2, <1>3, <2>1, <3>1
  <2> QED
    BY <2>2, <2>3
<1>6. CASE SkipSource
  <2>1. /\ Held' = Held /\ ProducerPosition' = <<source_idx + 1, 0>>
        /\ resolver' = EmptyIndex /\ decoder # None
    BY <1>1, <1>6 DEF SkipSource, AdvanceSource, Held, ProducerPosition
  <2>2. resolver \in Indices
    BY <2>1 DEF DriftTyped
  <2>3. MovesOn(Held, <<source_idx + 1, 0>>, EmptyIndex)
    BY <1>3, <1>4, <2>2, SourceMovesOn
  <2> QED
    BY <1>2, <2>1, <2>3
<1>7. CASE DecodeEntry
  <2>1. PICK image \in Images : decoder = Some(image)
    BY <1>7 DEF DecodeEntry, DriftTyped
  <2> DEFINE new == Emit(source_idx, CurrentFile, resolver, image, entry_cursor, mode)
  <2>2. /\ entry_cursor < EntryCount(image)
        /\ rows' = rows \o new
        /\ \/ /\ resolver' = EmptyIndex
              /\ entry_cursor' = 0 /\ source_idx' = source_idx + 1
           \/ entry_cursor' = entry_cursor + 1 /\ UNCHANGED <<source_idx, resolver>>
    BY <1>7, <2>1, SomeIs DEF DecodeEntry, AdvanceSource
  <2>3. source_idx < Len(sources) /\ resolver \in Indices /\ CurrentFile \in Files
    BY <2>1, SomeIs DEF DriftTyped, CurrentFile
  <2>4. /\ new \in Seq(AnyRow)
        /\ \A k \in 1..Len(new) : new[k] = Row(source_idx, CurrentFile, resolver, entry_cursor, k)
    BY <2>2, <2>3, EmittedRows DEF DriftTyped
  <2> HIDE DEF new
  <2>5. Held' = Held \o new /\ Held \o new \in Seq(AnyRow)
    <3>1. received \o (rows \o new) = (received \o rows) \o new
      BY <2>4, ConcatAssociative DEF DriftTyped
    <3> QED
      BY <1>1, <1>4, <2>2, <2>4, <3>1 DEF Held
  <2>6. MovesOn(Held \o new, <<source_idx, entry_cursor + 1>>, resolver)
    BY <1>3, <1>4, <2>3, <2>4, EntryMovesOn
  <2>7. CASE entry_cursor' = entry_cursor + 1 /\ UNCHANGED <<source_idx, resolver>>
    BY <1>2, <2>5, <2>6, <2>7 DEF ProducerPosition
  <2>8. CASE resolver' = EmptyIndex /\ entry_cursor' = 0 /\ source_idx' = source_idx + 1
    <3>1. entry_cursor + 1 \in Nat
      BY <1>4
    <3>2. MovesOn(Held \o new, <<source_idx + 1, 0>>, EmptyIndex)
      BY <1>4, <2>3, <2>5, <2>6, <3>1, SourceMovesOn
    <3> QED
      BY <1>2, <2>5, <2>8, <3>2 DEF ProducerPosition
  <2> QED
    BY <2>2, <2>7, <2>8
<1> QED
  BY <1>5, <1>6, <1>7

\* The batch in progress becomes what the client has.
LEMMA ForwardArrival ==
    ASSUME DriftFits, DriftForward, BatchArrives, UNCHANGED drift
    PROVE  DriftForward'
<1> USE DEF DriftFits
<1>1. /\ pc = "reply" /\ answer = "batch" /\ pc' = "idle" /\ received' = Held
      /\ token' = Some(CurrentState) /\ unreadable' = unreadable
  BY DEF BatchArrives, DriftControl, InFlight, Held, drift
<1>2. /\ ClientPosition' = ProducerPosition
      /\ ClientIndex' = resolver
  BY <1>1, SomeIs, TokenOfProducer DEF ClientPosition, ClientIndex
<1>3. ~Active'
  BY <1>1 DEF Active, InFlight
<1>4. unreadable = 0 => MovesOn(Held, ProducerPosition, resolver)
  BY <1>1 DEF DriftForward, Active, InFlight
<1> QED
  BY <1>1, <1>2, <1>3, <1>4 DEF DriftForward

\* Every step keeps the rows in the order of reading, at the client and at the producer.
LEMMA ForwardKept ==
    ASSUME DriftFits, DriftForward, [DriftNext]_driftVars
    PROVE  DriftForward'
<1>1. CASE (NewProducer /\ UNCHANGED drift) \/ NewProducerFromUnreadable
  <2>1. /\ pc' = "idle" /\ UNCHANGED <<received, token>>
        /\ unreadable' = unreadable \/ unreadable' = unreadable + 1
    BY <1>1 DEF NewProducer, NewProducerFromUnreadable, client, drift
  <2>2. ~Active' /\ (unreadable' = 0 => unreadable = 0)
    BY <2>1 DEF Active, InFlight, DriftFits, DriftTyped
  <2> QED
    BY <2>1, <2>2, ForwardFrame
<1>2. CASE CallNextBatch /\ UNCHANGED drift
  <2>1. /\ pc = "idle" /\ pc' = "produce" /\ rows' = << >>
        /\ UNCHANGED <<received, token, unreadable>>
    BY <1>2 DEF CallNextBatch, client, drift
  <2>2. ASSUME unreadable = 0
        PROVE  /\ MovesOn(received, ClientPosition, ClientIndex)'
               /\ MovesOn(Held', ProducerPosition', resolver')
    <3>1. MovesOn(received, ClientPosition, ClientIndex)
      BY <2>2 DEF DriftForward
    <3>2. /\ ProducerPosition' = ClientPosition /\ resolver' = ClientIndex
      BY <1>2, <2>2, CallStartsAtToken
    <3>3. Held' = received
      BY <2>1 DEF Held, DriftFits, DriftTyped
    <3>4. ClientPosition' = ClientPosition /\ ClientIndex' = ClientIndex
      BY <2>1 DEF ClientPosition, ClientIndex
    <3> QED
      BY <2>1, <3>1, <3>2, <3>3, <3>4
  <2> QED
    BY <2>1, <2>2 DEF DriftForward
<1>3. CASE (OpenSource \/ SkipSource \/ DecodeEntry) /\ UNCHANGED drift
  BY <1>3, ForwardTurn
<1>4. CASE (OpenFails \/ ReturnBatch \/ ReturnEnd) /\ UNCHANGED drift
  <2>1. /\ UNCHANGED <<received, token, unreadable>> /\ Active
        /\ pc' = "reply"
        /\ \/ answer' = "batch" /\ UNCHANGED <<rows, resolver, source_idx, entry_cursor>>
           \/ answer' \in {"end", "error"}
    BY <1>4 DEF OpenFails, ReturnBatch, ReturnEnd, BatchOpen, LoopOver, position, client, drift,
                Active
  <2> QED
    BY <2>1, ForwardFrame DEF Active, InFlight
<1>5. CASE BatchArrives /\ UNCHANGED drift
  BY <1>5, ForwardArrival
<1>6. CASE VerdictArrives /\ UNCHANGED drift
  <2>1. pc' = "idle" /\ UNCHANGED <<received, token, unreadable>>
    BY <1>6 DEF VerdictArrives, drift
  <2> QED
    BY <2>1, ForwardFrame DEF Active, InFlight
<1>7. CASE (TearDown \/ Fault) /\ UNCHANGED drift
  <2>1. pc' = "down" /\ UNCHANGED <<received, token, unreadable>>
    BY <1>7 DEF TearDown, Fault, DropProducer, client, drift
  <2> QED
    BY <2>1, ForwardFrame DEF Active, InFlight
<1>8. CASE \/ DirectoryChanges \/ FileChanges \/ ProducerFails
           \/ Finished /\ UNCHANGED drift
           \/ UNCHANGED driftVars
  <2>1. UNCHANGED <<pc, answer, received, token, unreadable, rows, resolver, source_idx,
                    entry_cursor>>
    BY <1>8 DEF DirectoryChanges, FileChanges, ProducerFails, Finished, driftVars, vars, drift,
                producer, position, client
  <2> QED
    BY <2>1, ForwardFrame DEF Active, InFlight
<1> QED
  BY DriftCases, <1>1, <1>2, <1>3, <1>4, <1>5, <1>6, <1>7, <1>8

\* At the beginning nothing has been received.
LEMMA ForwardInit == DriftInit => DriftForward
<1> SUFFICES ASSUME DriftInit PROVE DriftForward
  OBVIOUS
<1>1. received = << >> /\ token = None /\ ~Active
  BY DEF DriftInit, Init, NoProducer, Active, InFlight
<1>2. ClientPosition = StateBegin
  BY <1>1 DEF ClientPosition
<1>3. MovesOn(<< >>, StateBegin, ClientIndex)
  BY DEF MovesOn, Abstract!Ordered, Before, IndexedAlike, PathsFrom, StateBegin
<1> QED
  BY <1>1, <1>2, <1>3 DEF DriftForward

\* As long as every token parses, what is received and what is held only moves forward.
THEOREM DriftForwardAlways == DriftSpec => []DriftForward
<1>1. DriftFits /\ DriftForward /\ [DriftNext]_driftVars => DriftForward'
  BY ForwardKept
<1> QED
  BY <1>1, ForwardInit, DriftFitsAlways, PTL DEF DriftSpec

\* No row arrives twice or after one of a later record, whatever becomes of the sources.
THEOREM DriftOnlyForward == DriftSpec => []NeverGoesBack
<1>1. DriftForward => NeverGoesBack
  BY DEF DriftForward, MovesOn, NeverGoesBack
<1> QED
  BY <1>1, DriftForwardAlways, PTL

\* The rows of a source have their paths from one index, whatever becomes of the source.
THEOREM DriftOneIndex == DriftSpec => []OneIndexPerSource
<1>1. DriftFits /\ DriftForward => OneIndexPerSource
  <2> SUFFICES ASSUME DriftFits, DriftForward, unreadable = 0,
                      NEW i \in 1..Len(received), NEW src, src = received[i].src
               PROVE  \E image \in Images : \A j \in 1..Len(received) :
                         received[j].src = src =>
                            received[j].path =
                               Resolve(BuildResolver(image), received[j].entry, MAX_DEPTH)
    BY DEF OneIndexPerSource
  <2> DEFINE s == ClientPosition[1]
  <2>1. MovesOn(received, ClientPosition, ClientIndex)
    BY DEF DriftForward
  <2>2. received[i] \in AnyRow /\ received[i].src \in Nat /\ received[i].entry \in Nat
    BY AnyRowFields DEF DriftFits, DriftTyped
  <2>3. ClientPosition \in Positions /\ ClientIndex \in Indices \cup {EmptyIndex}
    BY DEF DriftFits, DriftTyped, IsDriftState, ClientPosition, ClientIndex, StatePosition,
           StateBegin, Positions
  <2>4. src <= s
    <3>1. ~PositionLeq(ClientPosition, RowPosition(received[i]))
      BY <2>1 DEF MovesOn, Before
    <3> QED
      BY <2>2, <2>3, <3>1 DEF PositionLeq, RowPosition, Positions
  <2>5. CASE src = s
    <3>1. PathsFrom(received, s, ClientIndex)
      BY <2>1 DEF MovesOn, IndexedAlike
    <3>2. ClientIndex # EmptyIndex
      BY <2>5, <3>1 DEF PathsFrom
    <3>3. PICK image \in Images : ClientIndex = BuildResolver(image)
      BY <2>3, <3>2 DEF Indices
    <3> QED
      BY <2>5, <3>1, <3>3 DEF PathsFrom
  <2>6. CASE src # s
    <3>1. src \in 0..(s - 1)
      BY <2>2, <2>3, <2>4, <2>6 DEF Positions
    <3>2. PICK image \in Images : PathsFrom(received, src, BuildResolver(image))
      BY <2>1, <3>1 DEF MovesOn, IndexedAlike
    <3> QED
      BY <3>2 DEF PathsFrom
  <2> QED
    BY <2>5, <2>6
<1> QED
  BY <1>1, DriftFitsAlways, DriftForwardAlways, PTL

-----------------------------------------------------------------------------
(***************************************************************************)
(* The third layer.                                                        *)
(***************************************************************************)

\* What a producer's label names: the file at its position, if there is one.
LEMMA LabelIs ==
    ASSUME NEW names, DriftTyped, Follows(sources, names)
    PROVE  Unnamed(CurrentLabel) \/ CurrentLabel = names[source_idx + 1]
<1>1. CASE source_idx < Len(sources)
  <2>1. CurrentLabel = sources[source_idx + 1]
    BY <1>1, Zenon DEF CurrentLabel
  <2>2. source_idx + 1 \in 1..Len(sources)
    BY <1>1 DEF DriftTyped
  <2> QED
    BY <2>1, <2>2 DEF Follows
<1>2. CASE ~(source_idx < Len(sources))
  BY <1>2, Zenon DEF CurrentLabel, Unnamed
<1> QED
  BY <1>1, <1>2

\* At the beginning nobody holds a name.
LEMMA NamesInit ==
    ASSUME NEW names, DriftInit, Follows(listing, names)
    PROVE  DriftNames(names)
  BY DEF DriftInit, Init, NoProducer, DriftNames, Follows

\* Every step keeps to the names that the listings follow.
LEMMA NamesKept ==
    ASSUME NEW names, DriftFits, DriftNames(names), Follows(listing, names),
           [DriftNext]_driftVars
    PROVE  DriftNames(names)'
<1>1. \/ BatchArrives /\ UNCHANGED drift
      \/ token' = token /\ asked' = asked /\ sources' \in {sources, listing, << >>}
  BY DriftCases DEF NewProducer, CallNextBatch, OpenSource, OpenFails, SkipSource, DecodeEntry,
     ReturnBatch, ReturnEnd, VerdictArrives, TearDown, Fault, DropProducer, Finished,
     DirectoryChanges, FileChanges, ProducerFails, NewProducerFromUnreadable,
     vars, driftVars, drift, producer, position, client
<1>2. CASE BatchArrives /\ UNCHANGED drift
  <2>1. token' = Some(CurrentState) /\ UNCHANGED <<sources, asked>>
    BY <1>2 DEF BatchArrives, DriftFits, DriftControl, InFlight, position, drift
  <2>2. NamesFile(CurrentState, names)
    BY LabelIs, TokenOfProducer DEF NamesFile, DriftFits, DriftNames
  <2>3. NamesFile(Unwrap(token'), names)
    BY <2>1, <2>2, SomeIs
  <2> QED
    BY <2>1, <2>3 DEF DriftNames, Follows, NamesFile
<1>3. CASE token' = token /\ asked' = asked /\ sources' \in {sources, listing, << >>}
  <2>1. Follows(sources', names)
    BY <1>3 DEF Follows, DriftNames
  <2> QED
    BY <1>3, <2>1 DEF DriftNames, Follows, NamesFile
<1> QED
  BY <1>1, <1>2, <1>3

\* Where the glob only gains files behind the ones it had: a resumed scan goes on in the
\* file that its token names, and not in another one.
THEOREM DriftRightFile ==
    ASSUME NEW names
    PROVE  DriftSpec /\ []Follows(listing, names) => []ResumesRightFile
<1>1. DriftInit /\ Follows(listing, names) => DriftNames(names)
  BY NamesInit
<1>2. DriftFits /\ DriftNames(names) /\ Follows(listing, names) /\ [DriftNext]_driftVars
         => DriftNames(names)'
  BY NamesKept
<1>3. DriftFits /\ DriftNames(names) => ResumesRightFile
  <2> SUFFICES ASSUME DriftFits, DriftNames(names), decoder # None, token # None,
                      source_idx = Unwrap(token).source_index, ~Unnamed(Unwrap(token).source)
               PROVE  CurrentFile = Unwrap(token).source
    BY Zenon DEF ResumesRightFile, Unnamed
  <2>1. source_idx + 1 \in 1..Len(sources)
    BY DEF DriftFits, DriftTyped
  <2>2. CurrentFile = names[source_idx + 1]
    BY <2>1 DEF CurrentFile, DriftNames, Follows
  <2> QED
    BY <2>2 DEF DriftNames, NamesFile
<1> QED
  BY <1>1, <1>2, <1>3, DriftFitsAlways, PTL DEF DriftSpec

-----------------------------------------------------------------------------
(***************************************************************************)
(* The fourth layer.                                                       *)
(***************************************************************************)

\* The glob gains files behind the ones it had and loses none, or it matches none at all.
LosesNoFile(names) ==
    /\ Follows(listing, names)
    /\ listing # << >> => Len(listing) >= Len(asked)

\* What the query asked for, in numbers.
LEMMA AskedIs ==
    ASSUME DriftTyped, NEW src \in 0..(Len(asked) - 1)
    PROVE  /\ src \in Nat /\ src < Len(asked)
           /\ AskedImage(src) \in Images
           /\ EntryCount(AskedImage(src)) \in Nat
           /\ \A n \in 0..(EntryCount(AskedImage(src)) - 1) :
                 RowCount(AskedImage(src), n, mode) \in Nat
<1>1. src \in Nat /\ src + 1 \in 1..Len(asked)
  BY DEF DriftTyped
<1>2. AskedImage(src) \in Images
  BY <1>1 DEF DriftTyped, AskedImage
<1>3. IsImage(AskedImage(src))
  BY <1>2, ReadMftAssumption
<1>4. EntryCount(AskedImage(src)) \in Nat
  BY <1>3 DEF IsImage, EntryCount
<1>5. \A n \in 0..(EntryCount(AskedImage(src)) - 1) :
         RowCount(AskedImage(src), n, mode) \in Nat
  BY <1>3, RowCountOfImage DEF DriftTyped
<1> QED
  BY <1>1, <1>2, <1>4, <1>5

\* Nothing lies before the beginning.
LEMMA NothingBeforeBegin ==
    ASSUME DriftTyped, NEW seq
    PROVE  HoldsAllBefore(seq, StateBegin)
<1> SUFFICES ASSUME NEW src \in 0..(Len(asked) - 1),
                    NEW n \in 0..(EntryCount(AskedImage(src)) - 1)
             PROVE  PositionLeq(StateBegin, <<src, n>>)
  BY DEF HoldsAllBefore
<1>1. src \in Nat /\ n \in Nat
  BY AskedIs
<1> QED
  BY <1>1 DEF PositionLeq, StateBegin

\* More rows hold no less.
LEMMA MoreHoldsMore ==
    ASSUME NEW p, NEW seq \in Seq(AnyRow), NEW new \in Seq(AnyRow), HoldsAllBefore(seq, p)
    PROVE  HoldsAllBefore(seq \o new, p)
<1>1. \A i \in 1..Len(seq) : i \in 1..Len(seq \o new) /\ (seq \o new)[i] = seq[i]
  OBVIOUS
<1> QED
  BY <1>1 DEF HoldsAllBefore

\* All rows of an entry, added to all those before it, are all those before the next.
LEMMA EntryComplete ==
    ASSUME DriftTyped,
           NEW seq \in Seq(AnyRow), NEW new \in Seq(AnyRow), NEW s \in Nat, NEW n \in Nat,
           HoldsAllBefore(seq, <<s, n>>),
           s < Len(asked) => /\ Len(new) = RowCount(AskedImage(s), n, mode)
                             /\ \A k \in 1..Len(new) : new[k] = AskedRow(s, n, k)
    PROVE  HoldsAllBefore(seq \o new, <<s, n + 1>>)
<1> SUFFICES ASSUME NEW src \in 0..(Len(asked) - 1),
                    NEW m \in 0..(EntryCount(AskedImage(src)) - 1),
                    NEW k \in 1..RowCount(AskedImage(src), m, mode),
                    ~PositionLeq(<<s, n + 1>>, <<src, m>>)
             PROVE  \E i \in 1..Len(seq \o new) : (seq \o new)[i] = AskedRow(src, m, k)
  BY DEF HoldsAllBefore
<1>1. src \in Nat /\ src < Len(asked) /\ m \in Nat
  BY AskedIs
<1>2. CASE ~PositionLeq(<<s, n>>, <<src, m>>)
  BY <1>2, MoreHoldsMore DEF HoldsAllBefore
<1>3. CASE PositionLeq(<<s, n>>, <<src, m>>)
  <2>1. src = s /\ m = n
    BY <1>1, <1>3 DEF PositionLeq
  <2>2. k \in 1..Len(new) /\ new[k] = AskedRow(src, m, k)
    BY <1>1, <2>1
  <2>3. /\ Len(seq) + k \in 1..Len(seq \o new)
        /\ (seq \o new)[Len(seq) + k] = new[k]
    BY <2>2
  <2> QED
    BY <2>2, <2>3
<1> QED
  BY <1>2, <1>3

\* Past the last entry of a source there is no row before the next source.
LEMMA SourceComplete ==
    ASSUME DriftTyped, NEW seq, NEW s \in Nat, NEW n \in Nat, HoldsAllBefore(seq, <<s, n>>),
           s < Len(asked) => n >= EntryCount(AskedImage(s))
    PROVE  HoldsAllBefore(seq, <<s + 1, 0>>)
<1> SUFFICES ASSUME NEW src \in 0..(Len(asked) - 1),
                    NEW m \in 0..(EntryCount(AskedImage(src)) - 1),
                    ~PositionLeq(<<s + 1, 0>>, <<src, m>>)
             PROVE  ~PositionLeq(<<s, n>>, <<src, m>>)
  BY DEF HoldsAllBefore
<1>1. /\ src \in Nat /\ src < Len(asked) /\ m \in Nat
      /\ EntryCount(AskedImage(src)) \in Nat /\ m < EntryCount(AskedImage(src))
  BY AskedIs
<1>2. src < s \/ src = s
  BY <1>1 DEF PositionLeq
<1> QED
  BY <1>1, <1>2 DEF PositionLeq

\* At a position past the last source everything is there.
LEMMA EndComplete ==
    ASSUME DriftTyped, NEW seq, NEW s \in Nat, NEW n \in Nat, HoldsAllBefore(seq, <<s, n>>),
           s >= Len(asked)
    PROVE  HoldsAllBefore(seq, <<Len(asked), 0>>)
<1> SUFFICES ASSUME NEW src \in 0..(Len(asked) - 1),
                    NEW m \in 0..(EntryCount(AskedImage(src)) - 1)
             PROVE  ~PositionLeq(<<s, n>>, <<src, m>>)
  BY DEF HoldsAllBefore
<1>1. src \in Nat /\ src < Len(asked) /\ m \in Nat
  BY AskedIs
<1> QED
  BY <1>1 DEF PositionLeq, DriftTyped

\* The parts of the fourth layer: what is at hand in the producer, what the client has,
\* what the batch in progress adds to it, and what it means that the scan is over.
ProducerOwns(names) ==
    /\ decoder = None \/ decoder = Some(content[names[source_idx + 1]])
    /\ OwnIndex(resolver, source_idx, names)

ClientComplete(names) ==
    /\ token # None => OwnIndex(Unwrap(token).resolver, Unwrap(token).source_index, names)
    /\ HoldsAllBefore(received, ClientPosition)

Over == status = "done" \/ (pc = "reply" /\ answer = "end")

\* What is complete, for the client and for the producer.
LEMMA DriftCompleteIs ==
    ASSUME NEW names
    PROVE  DriftComplete(names) <=>
              /\ pc # "down" => Len(sources) >= Len(asked)
              /\ rewritten = 0 =>
                    /\ ProducerOwns(names) /\ ClientComplete(names)
                    /\ Active => HoldsAllBefore(Held, ProducerPosition)
                    /\ Over => HoldsAllBefore(received, <<Len(asked), 0>>)
  BY DEF DriftComplete, ProducerOwns, ClientComplete, Over

\* While no file is rewritten, what is to be read stays what it was.
LEMMA StillAsWritten ==
    ASSUME DriftFits, [DriftNext]_driftVars
    PROVE  /\ asked' = asked /\ mode' = mode
           /\ rewritten' = 0 => rewritten = 0 /\ content' = content
<1>1. CASE FileChanges
  <2>1. rewritten' # 0
    BY <1>1 DEF FileChanges, DriftFits, DriftTyped
  <2> QED
    BY <1>1, <2>1 DEF FileChanges
<1>2. CASE ~FileChanges
  BY <1>2, DriftCases
     DEF NewProducer, NewProducerFromUnreadable, CallNextBatch, OpenSource, SkipSource,
         DecodeEntry, OpenFails, ReturnBatch, ReturnEnd, BatchArrives, VerdictArrives,
         TearDown, Fault, DirectoryChanges, ProducerFails, Finished, driftVars, vars, drift,
         surroundings
<1> QED
  BY <1>1, <1>2

\* The list of a producer that is made names every file that was asked for.
LEMMA SourcesKept ==
    ASSUME NEW names, DriftComplete(names), LosesNoFile(names), DriftFits,
           [DriftNext]_driftVars
    PROVE  pc' # "down" => Len(sources') >= Len(asked')
<1>1. asked' = asked
  BY StillAsWritten
<1>2. CASE (listing # << >> /\ NewProducer /\ UNCHANGED drift) \/ NewProducerFromUnreadable
  <2>1. sources' = listing /\ listing # << >>
    BY <1>2 DEF NewProducer, NewProducerFromUnreadable
  <2> QED
    BY <1>1, <2>1 DEF LosesNoFile
<1>3. CASE (TearDown \/ Fault) /\ UNCHANGED drift
  BY <1>3 DEF TearDown, Fault, DropProducer
<1>4. CASE \/ DirectoryChanges \/ FileChanges \/ ProducerFails
           \/ Finished /\ UNCHANGED drift
           \/ UNCHANGED driftVars
  <2>1. sources' = sources /\ pc' = pc
    BY <1>4 DEF DirectoryChanges, FileChanges, ProducerFails, Finished, driftVars, vars,
                producer, position
  <2> QED
    BY <1>1, <2>1 DEF DriftComplete
<1>5. CASE \/ CallNextBatch \/ OpenSource \/ SkipSource \/ DecodeEntry \/ OpenFails
           \/ ReturnBatch \/ ReturnEnd \/ BatchArrives \/ VerdictArrives
  <2>1. pc # "down"
    BY <1>5 DEF CallNextBatch, OpenSource, SkipSource, DecodeEntry, OpenFails, BatchOpen,
                ReturnBatch, ReturnEnd, LoopOver, BatchArrives, VerdictArrives
  <2>2. sources' = sources
    <3>1. CASE CallNextBatch
      BY <3>1 DEF CallNextBatch, position
    <3>2. CASE \/ OpenSource \/ SkipSource \/ DecodeEntry \/ OpenFails
               \/ ReturnBatch \/ ReturnEnd \/ BatchArrives \/ VerdictArrives
      BY <3>2 DEF OpenSource, SkipSource, DecodeEntry, OpenFails, ReturnBatch, ReturnEnd,
                  BatchArrives, VerdictArrives, position
    <3> QED
      BY <1>5, <3>1, <3>2
  <2> QED
    BY <1>1, <2>1, <2>2 DEF DriftComplete
<1> QED
  BY DriftCases, <1>2, <1>3, <1>4, <1>5

\* What the client has is not touched by a step that leaves client and files alone.
LEMMA ClientCompleteKept ==
    ASSUME NEW names, ClientComplete(names),
           UNCHANGED <<content, asked, mode, received, token>>
    PROVE  ClientComplete(names)'
  BY DEF ClientComplete, OwnIndex, HoldsAllBefore, AskedImage, AskedRow, ClientPosition

\* What a sequence holds of the files is a matter of the files alone.
LEMMA FilesUntouched ==
    ASSUME UNCHANGED <<content, asked, mode>>
    PROVE  \A seq, p : HoldsAllBefore(seq, p) => HoldsAllBefore(seq, p)'
  BY DEF HoldsAllBefore, AskedImage, AskedRow

\* A step of the loops.
LEMMA TurnComplete ==
    ASSUME NEW names, DriftFits, DriftNames(names), DriftComplete(names), rewritten = 0,
           OpenSource \/ SkipSource \/ DecodeEntry,
           UNCHANGED <<content, asked, mode>>
    PROVE  ProducerOwns(names)' /\ HoldsAllBefore(Held, ProducerPosition)'
<1> USE DEF DriftFits
<1>1. pc = "produce" /\ UNCHANGED <<received, sources>>
  BY DEF OpenSource, SkipSource, DecodeEntry, BatchOpen, client
<1>2. /\ HoldsAllBefore(Held, <<source_idx, entry_cursor>>)
      /\ ProducerOwns(names)
      /\ source_idx \in Nat /\ entry_cursor \in Nat /\ Held \in Seq(AnyRow)
  <2>1. ProducerOwns(names) /\ (Active => HoldsAllBefore(Held, ProducerPosition))
    BY DriftCompleteIs
  <2>2. HoldsAllBefore(Held, <<source_idx, entry_cursor>>)
    BY <1>1, <2>1 DEF Active, ProducerPosition
  <2>3. source_idx \in Nat /\ entry_cursor \in Nat /\ Held \in Seq(AnyRow)
    BY DEF DriftTyped, Held
  <2> QED
    BY <2>1, <2>2, <2>3
<1>3. \A seq, p : HoldsAllBefore(seq, p) => HoldsAllBefore(seq, p)'
  BY FilesUntouched
<1>4. source_idx < Len(asked) => asked[source_idx + 1] = names[source_idx + 1]
  <2>1. source_idx < Len(asked) => source_idx + 1 \in 1..Len(asked)
    BY <1>2 DEF DriftTyped
  <2> QED
    BY <2>1 DEF DriftNames, Follows
<1>5. CASE OpenSource
  <2>1. /\ source_idx < Len(sources) /\ decoder' = Some(content[CurrentFile])
        /\ resolver' = resolver \/ resolver' = BuildResolver(content[CurrentFile])
        /\ UNCHANGED <<source_idx, entry_cursor, rows>>
    BY <1>5 DEF OpenSource, SourcesExhausted, DriftTyped
  <2>2. CurrentFile = names[source_idx + 1]
    <3>1. source_idx + 1 \in 1..Len(sources)
      BY <1>2, <2>1 DEF DriftTyped
    <3> QED
      BY <3>1 DEF CurrentFile, DriftNames, Follows
  <2>3. ProducerOwns(names)'
    BY <1>2, <2>1, <2>2 DEF ProducerOwns, OwnIndex
  <2>4. Held' = Held /\ ProducerPosition' = <<source_idx, entry_cursor>>
    BY <1>1, <2>1 DEF Held, ProducerPosition
  <2> QED
    BY <1>2, <1>3, <2>3, <2>4
<1>6. CASE SkipSource
  <2>1. /\ decoder # None /\ entry_cursor >= EntryCount(Unwrap(decoder))
        /\ decoder' = None /\ resolver' = EmptyIndex
        /\ entry_cursor' = 0 /\ source_idx' = source_idx + 1 /\ rows' = rows
    BY <1>6 DEF SkipSource, AdvanceSource
  <2>2. Unwrap(decoder) = content[names[source_idx + 1]]
    BY <1>2, <2>1, SomeIs DEF ProducerOwns
  <2>3. source_idx < Len(asked) => entry_cursor >= EntryCount(AskedImage(source_idx))
    BY <1>4, <2>1, <2>2 DEF AskedImage
  <2>4. HoldsAllBefore(Held, <<source_idx + 1, 0>>)
    BY <1>2, <2>3, SourceComplete
  <2>5. Held' = Held /\ ProducerPosition' = <<source_idx + 1, 0>>
    BY <1>1, <2>1 DEF Held, ProducerPosition
  <2>6. ProducerOwns(names)'
    BY <2>1 DEF ProducerOwns, OwnIndex
  <2> QED
    BY <1>3, <2>4, <2>5, <2>6
<1>7. CASE DecodeEntry
  <2> DEFINE image == content[names[source_idx + 1]]
             new == Emit(source_idx, CurrentFile, resolver, image, entry_cursor, mode)
  <2>1. decoder # None
    BY <1>7 DEF DecodeEntry
  <2>2. decoder = Some(image) /\ Unwrap(decoder) = image
    BY <1>2, <2>1, SomeIs DEF ProducerOwns
  <2>3. /\ source_idx < Len(sources) /\ source_idx + 1 \in 1..Len(sources)
        /\ resolver \in Indices /\ resolver # EmptyIndex /\ image \in Images
    <3>1. PICK i \in Images : decoder = Some(i)
      BY <2>1 DEF DriftTyped
    <3>2. image = i
      BY <2>2, <3>1, SomeIs
    <3> QED
      BY <2>1, <3>2 DEF DriftTyped
  <2>4. resolver = BuildResolver(image)
    BY <1>2, <2>3 DEF ProducerOwns, OwnIndex
  <2>5. CurrentFile = names[source_idx + 1] /\ CurrentFile \in Files
    BY <2>3 DEF CurrentFile, DriftNames, Follows, DriftTyped
  <2>6. /\ entry_cursor < EntryCount(image)
        /\ rows' = rows \o new
        /\ \/ /\ entry_cursor + 1 >= EntryCount(image)
              /\ decoder' = None /\ resolver' = EmptyIndex
              /\ entry_cursor' = 0 /\ source_idx' = source_idx + 1
           \/ entry_cursor' = entry_cursor + 1 /\ UNCHANGED <<source_idx, decoder, resolver>>
    BY <1>7, <2>2 DEF DecodeEntry, AdvanceSource
  <2>7. /\ new \in Seq(AnyRow)
        /\ Len(new) = RowCount(image, entry_cursor, mode)
        /\ \A k \in 1..Len(new) : new[k] = Row(source_idx, CurrentFile, resolver, entry_cursor, k)
    <3>1. mode \in {"files", "streams", "allocated"}
      BY DEF DriftTyped
    <3> HIDE DEF image
    <3> QED
      BY <1>2, <2>3, <2>5, <2>6, <3>1, EmittedRows
  <2> HIDE DEF new
  <2>8. source_idx < Len(asked) =>
           /\ AskedImage(source_idx) = image
           /\ Len(new) = RowCount(AskedImage(source_idx), entry_cursor, mode)
           /\ \A k \in 1..Len(new) : new[k] = AskedRow(source_idx, entry_cursor, k)
    BY <1>4, <2>4, <2>5, <2>7 DEF AskedImage, AskedRow
  <2>9. Held' = Held \o new /\ Held \o new \in Seq(AnyRow)
    <3>1. received \o (rows \o new) = (received \o rows) \o new
      <4>1. received \in Seq(AnyRow) /\ rows \in Seq(AnyRow) /\ new \in Seq(AnyRow)
        BY <2>7 DEF DriftTyped
      <4> QED
        BY <4>1, ConcatAssociative
    <3> QED
      BY <1>1, <1>2, <2>6, <2>7, <3>1 DEF Held
  <2>10. HoldsAllBefore(Held \o new, <<source_idx, entry_cursor + 1>>)
    BY <1>2, <2>7, <2>8, EntryComplete
  <2>11. CASE entry_cursor' = entry_cursor + 1 /\ UNCHANGED <<source_idx, decoder, resolver>>
    <3>1. ProducerPosition' = <<source_idx, entry_cursor + 1>>
      BY <2>11 DEF ProducerPosition
    <3>2. ProducerOwns(names)'
      BY <1>2, <2>11 DEF ProducerOwns, OwnIndex
    <3> QED
      BY <1>3, <2>9, <2>10, <3>1, <3>2
  <2>12. CASE /\ entry_cursor + 1 >= EntryCount(image)
              /\ decoder' = None /\ resolver' = EmptyIndex
              /\ entry_cursor' = 0 /\ source_idx' = source_idx + 1
    <3>1. entry_cursor + 1 \in Nat
      BY <1>2
    <3>2. source_idx < Len(asked) => entry_cursor + 1 >= EntryCount(AskedImage(source_idx))
      BY <2>8, <2>12
    <3>3. HoldsAllBefore(Held \o new, <<source_idx + 1, 0>>)
      BY <1>2, <2>10, <3>1, <3>2, SourceComplete
    <3>4. ProducerPosition' = <<source_idx + 1, 0>>
      BY <2>12 DEF ProducerPosition
    <3>5. ProducerOwns(names)'
      BY <2>12 DEF ProducerOwns, OwnIndex
    <3> QED
      BY <1>3, <2>9, <3>3, <3>4, <3>5
  <2> QED
    BY <2>6, <2>11, <2>12
<1> QED
  BY <1>5, <1>6, <1>7

\* The producer goes on where it stood, from the token, or from the beginning.
LEMMA CallComplete ==
    ASSUME NEW names, DriftFits, ProducerOwns(names), ClientComplete(names), CallNextBatch,
           UNCHANGED <<content, asked, mode>>
    PROVE  ProducerOwns(names)' /\ HoldsAllBefore(received, ProducerPosition')
<1> USE DEF DriftFits
<1>1. pc = "idle" /\ status = "running"
  BY DEF CallNextBatch
<1>2. HoldsAllBefore(received, ClientPosition) /\ HoldsAllBefore(received, StateBegin)
  BY NothingBeforeBegin DEF ClientComplete
<1>3. CASE pending_resume = None
  <2>1. UNCHANGED <<source_idx, entry_cursor, resolver, decoder>>
    BY <1>3 DEF CallNextBatch, position
  <2>2. ProducerOwns(names)'
    BY <2>1 DEF ProducerOwns, OwnIndex
  <2>3. ProducerPosition' = ProducerPosition
    BY <2>1 DEF ProducerPosition
  <2>4. CASE token = None
    <3>1. ProducerPosition = StateBegin
      BY <1>1, <1>3, <2>4 DEF DriftControl
    <3> QED
      BY <1>2, <2>2, <2>3, <3>1
  <2>5. CASE token # None
    <3>1. Unwrap(token) = CurrentState
      BY <1>1, <1>3, <2>5, SomeIs DEF DriftControl
    <3>2. ClientPosition = ProducerPosition
      BY <2>5, <3>1, TokenOfProducer DEF ClientPosition
    <3> QED
      BY <1>2, <2>2, <2>3, <3>2
  <2> QED
    BY <2>4, <2>5
<1>4. CASE pending_resume # None
  <2>1. ApplyPending(Unwrap(pending_resume))
    BY <1>4 DEF CallNextBatch
  <2>2. CASE pending_resume = token
    <3>1. ProducerPosition' = ClientPosition
      BY <1>4, <2>1, <2>2 DEF ApplyPending, ProducerPosition, ClientPosition, StatePosition
    <3>2. OwnIndex(Unwrap(token).resolver, Unwrap(token).source_index, names)
      BY <1>4, <2>2 DEF ClientComplete
    <3>3. ProducerOwns(names)'
      BY <2>1, <2>2, <3>2 DEF ApplyPending, ProducerOwns, OwnIndex
    <3> QED
      BY <1>2, <3>1, <3>3
  <2>3. CASE pending_resume = Some(DefaultState)
    <3>1. Unwrap(pending_resume) = DefaultState
      BY <2>3, SomeIs
    <3>2. ProducerPosition' = StateBegin
      BY <2>1, <3>1, DefaultStateIs DEF ApplyPending, ProducerPosition, StatePosition
    <3>3. ProducerOwns(names)'
      BY <2>1, <3>1, DefaultStateFields DEF ApplyPending, ProducerOwns, OwnIndex
    <3> QED
      BY <1>2, <3>2, <3>3
  <2> QED
    BY <1>4, <2>2, <2>3 DEF DriftControl
<1> QED
  BY <1>3, <1>4

\* The stream ends only past the last source, with nothing unsent.
LEMMA EndReturned ==
    ASSUME NEW names, DriftFits, DriftComplete(names), rewritten = 0, ReturnEnd
    PROVE  HoldsAllBefore(received, <<Len(asked), 0>>)
<1> USE DEF DriftFits
<1>1. pc = "produce" /\ rows = << >> /\ source_idx >= Len(sources)
  <2>1. rows = << >> /\ LoopOver /\ Len(rows) = 0
    BY DEF ReturnEnd
  <2>2. ~(Len(rows) >= BATCH_ROWS)
    BY <2>1, ReadMftAssumption
  <2> QED
    BY <2>1, <2>2 DEF LoopOver, SourcesExhausted
<1>2. source_idx \in Nat /\ entry_cursor \in Nat /\ Len(sources) \in Nat /\ Len(asked) \in Nat
  BY DEF DriftTyped
<1>3. source_idx >= Len(asked)
  BY <1>1, <1>2 DEF DriftComplete
<1>4. Held = received
  BY <1>1 DEF Held, DriftTyped
<1>5. HoldsAllBefore(Held, ProducerPosition)
  BY <1>1, DriftCompleteIs DEF Active
<1> QED
  BY <1>2, <1>3, <1>4, <1>5, EndComplete DEF ProducerPosition

\* Every step keeps it complete.
LEMMA CompleteKept ==
    ASSUME NEW names, DriftFits, DriftNames(names), DriftComplete(names), LosesNoFile(names),
           [DriftNext]_driftVars
    PROVE  DriftComplete(names)'
<1> USE DEF DriftFits
<1>1. SUFFICES ASSUME rewritten' = 0
               PROVE  /\ ProducerOwns(names)' /\ ClientComplete(names)'
                      /\ Active' => HoldsAllBefore(Held, ProducerPosition)'
                      /\ Over' => HoldsAllBefore(received, <<Len(asked), 0>>)'
  BY SourcesKept DEF DriftComplete, ProducerOwns, ClientComplete, Over
<1>2. rewritten = 0 /\ UNCHANGED <<content, asked, mode>>
  BY <1>1, StillAsWritten
<1>3. /\ ProducerOwns(names) /\ ClientComplete(names)
      /\ Active => HoldsAllBefore(Held, ProducerPosition)
      /\ Over => HoldsAllBefore(received, <<Len(asked), 0>>)
  BY <1>2, DriftCompleteIs
<1>4. \A seq, p : HoldsAllBefore(seq, p) => HoldsAllBefore(seq, p)'
  BY <1>2 DEF HoldsAllBefore, AskedImage, AskedRow
<1>5. UNCHANGED <<received, token>> => ClientComplete(names)'
  BY <1>2, <1>3, ClientCompleteKept
<1>6. ASSUME UNCHANGED received, Over
      PROVE  HoldsAllBefore(received, <<Len(asked), 0>>)'
  <2>1. HoldsAllBefore(received, <<Len(asked), 0>>)
    BY <1>3, <1>6
  <2> QED
    BY <1>2, <1>6, <2>1 DEF HoldsAllBefore, AskedImage, AskedRow
<1>7. UNCHANGED <<source_idx, decoder, resolver>> => ProducerOwns(names)'
  BY <1>2, <1>3 DEF ProducerOwns, OwnIndex
<1>8. decoder' = None /\ resolver' = EmptyIndex => ProducerOwns(names)'
  BY DEF ProducerOwns, OwnIndex
<1>9. CASE (NewProducer /\ UNCHANGED drift) \/ NewProducerFromUnreadable
  <2>1. /\ pc = "down" /\ pc' = "idle" /\ status' = "running"
        /\ UNCHANGED <<received, token, source_idx, decoder, resolver>>
    BY <1>9 DEF NewProducer, NewProducerFromUnreadable, client
  <2>2. ~Active' /\ ~Over'
    BY <2>1 DEF Active, InFlight, Over
  <2> QED
    BY <1>5, <1>7, <2>1, <2>2
<1>10. CASE CallNextBatch
  <2>1. /\ status' = "running" /\ pc' = "produce" /\ rows' = << >>
        /\ UNCHANGED <<received, token>>
    BY <1>10 DEF CallNextBatch, client
  <2>2. ProducerOwns(names)' /\ HoldsAllBefore(received, ProducerPosition')
    BY <1>2, <1>3, <1>10, CallComplete
  <2>3. Held' = received
    BY <2>1 DEF Held, DriftTyped
  <2>4. HoldsAllBefore(Held, ProducerPosition)'
    BY <1>2, <2>2, <2>3 DEF HoldsAllBefore, AskedImage, AskedRow
  <2>5. ~Over'
    BY <2>1 DEF Over
  <2> QED
    BY <1>5, <2>1, <2>2, <2>4, <2>5
<1>11. CASE OpenSource \/ SkipSource \/ DecodeEntry
  <2>1. pc = "produce" /\ pc' = "produce" /\ UNCHANGED <<received, token, status>>
    BY <1>11 DEF OpenSource, SkipSource, DecodeEntry, BatchOpen, client
  <2>2. ~Over'
    BY <2>1 DEF Over, DriftControl
  <2>3. ProducerOwns(names)' /\ HoldsAllBefore(Held, ProducerPosition)'
    BY <1>2, <1>11, TurnComplete
  <2> QED
    BY <1>5, <2>1, <2>2, <2>3
<1>12. CASE OpenFails \/ ReturnBatch \/ ReturnEnd
  <2>1. /\ pc = "produce" /\ pc' = "reply" /\ status = "running"
        /\ UNCHANGED <<received, token, status, source_idx, decoder, resolver, entry_cursor>>
        /\ answer' \in {"batch", "error", "end"}
    BY <1>12 DEF OpenFails, ReturnBatch, ReturnEnd, BatchOpen, LoopOver, position, client,
                 DriftControl
  <2>2. ASSUME Active' PROVE HoldsAllBefore(Held, ProducerPosition)'
    <3>1. ReturnBatch
      BY <1>12, <2>1, <2>2 DEF Active, InFlight, OpenFails, ReturnEnd
    <3>2. Held' = Held /\ ProducerPosition' = ProducerPosition
      BY <2>1, <3>1 DEF ReturnBatch, Held, ProducerPosition
    <3> QED
      BY <1>2, <1>3, <2>1, <3>2 DEF Active, HoldsAllBefore, AskedImage, AskedRow
  <2>3. ASSUME Over' PROVE HoldsAllBefore(received, <<Len(asked), 0>>)'
    <3>1. ReturnEnd
      BY <1>12, <2>1, <2>3 DEF Over, OpenFails, ReturnBatch
    <3>2. HoldsAllBefore(received, <<Len(asked), 0>>)
      BY <1>2, <3>1, EndReturned
    <3> QED
      BY <1>2, <2>1, <3>2 DEF HoldsAllBefore, AskedImage, AskedRow
  <2> QED
    BY <1>5, <1>7, <2>1, <2>2, <2>3
<1>13. CASE BatchArrives
  <2>1. /\ pc = "reply" /\ answer = "batch" /\ pc' = "idle" /\ received' = Held
        /\ token' = Some(CurrentState)
        /\ UNCHANGED <<status, source_idx, decoder, resolver>>
    BY <1>13 DEF BatchArrives, position, Held, DriftControl, InFlight
  <2>2. ~Active' /\ ~Over'
    BY <2>1 DEF Active, InFlight, Over, DriftControl
  <2>3. ClientPosition' = ProducerPosition
    BY <2>1, SomeIs, TokenOfProducer DEF ClientPosition
  <2>4. HoldsAllBefore(received, ClientPosition)'
    <3>1. HoldsAllBefore(Held, ProducerPosition)
      BY <1>3, <2>1 DEF Active, InFlight
    <3> QED
      BY <1>2, <2>1, <2>3, <3>1 DEF HoldsAllBefore, AskedImage, AskedRow
  <2>5. OwnIndex(Unwrap(token).resolver, Unwrap(token).source_index, names)'
    <3>1. Unwrap(token)' = CurrentState
      BY <2>1, SomeIs
    <3>2. /\ Unwrap(token)'.resolver = resolver
          /\ Unwrap(token)'.source_index = source_idx
      BY <3>1, TokenOfProducer
    <3>3. OwnIndex(resolver, source_idx, names)
      BY <1>3 DEF ProducerOwns
    <3> QED
      BY <1>2, <3>2, <3>3 DEF OwnIndex
  <2>6. ClientComplete(names)'
    BY <2>4, <2>5 DEF ClientComplete
  <2> QED
    BY <1>7, <2>1, <2>2, <2>6
<1>14. CASE VerdictArrives
  <2>1. /\ pc' = "idle" /\ UNCHANGED <<received, token, source_idx, decoder, resolver>>
        /\ Over' => Over
    BY <1>14 DEF VerdictArrives, position, Over
  <2> QED
    BY <1>5, <1>6, <1>7, <2>1 DEF Active, InFlight
<1>15. CASE TearDown \/ Fault
  <2>1. /\ pc' = "down" /\ decoder' = None /\ resolver' = EmptyIndex
        /\ UNCHANGED <<received, token, status>>
    BY <1>15 DEF TearDown, Fault, DropProducer, client
  <2>2. ~Active' /\ (Over' => Over)
    BY <2>1 DEF Active, InFlight, Over
  <2> QED
    BY <1>5, <1>6, <1>8, <2>1, <2>2
<1>16. CASE \/ DirectoryChanges \/ FileChanges \/ ProducerFails
            \/ Finished /\ UNCHANGED drift
            \/ UNCHANGED driftVars
  <2>1. /\ UNCHANGED <<pc, answer, received, token, rows, resolver, source_idx, decoder,
                       entry_cursor>>
        /\ status' = status \/ status' = "failed"
    BY <1>16 DEF DirectoryChanges, FileChanges, ProducerFails, Finished, driftVars, vars,
                 producer, position, client
  <2>2. (Active' => Active) /\ (Over' => Over)
    BY <2>1 DEF Active, InFlight, Over
  <2>3. ASSUME Active PROVE HoldsAllBefore(Held, ProducerPosition)'
    <3>1. Held' = Held /\ ProducerPosition' = ProducerPosition
      BY <2>1 DEF Held, ProducerPosition
    <3>2. HoldsAllBefore(Held, ProducerPosition)
      BY <1>3, <2>3
    <3> QED
      BY <1>2, <3>1, <3>2 DEF HoldsAllBefore, AskedImage, AskedRow
  <2> QED
    BY <1>5, <1>6, <1>7, <2>1, <2>2, <2>3
<1> QED
  BY DriftCases, <1>9, <1>10, <1>11, <1>12, <1>13, <1>14, <1>15, <1>16

\* At the beginning nothing is owed.
LEMMA CompleteInit ==
    ASSUME NEW names, DriftInit
    PROVE  DriftComplete(names)
<1>1. DriftTyped
  BY DriftInitFits DEF DriftFits
<1>2. /\ pc = "down" /\ decoder = None /\ resolver = EmptyIndex /\ token = None
      /\ status = "running"
  BY DEF DriftInit, Init, NoProducer
<1>3. HoldsAllBefore(received, ClientPosition)
  BY <1>1, <1>2, NothingBeforeBegin DEF ClientPosition
<1> QED
  BY <1>2, <1>3 DEF DriftComplete, OwnIndex, Active, InFlight

\* Where the glob only gains files behind the ones it had, or matches none at all: a scan
\* that is declared over has brought every row of every source the query asked for, even
\* if the token did not parse on the way and the scan started over.
THEOREM DriftLosesNothing ==
    ASSUME NEW names
    PROVE  DriftSpec /\ []LosesNoFile(names) => []NothingLost
<1>1. DriftInit /\ LosesNoFile(names) => DriftNames(names) /\ DriftComplete(names)
  BY NamesInit, CompleteInit DEF LosesNoFile
<1>2. DriftFits /\ DriftNames(names) /\ DriftComplete(names) /\ LosesNoFile(names)
      /\ [DriftNext]_driftVars
         => DriftNames(names)' /\ DriftComplete(names)'
  BY NamesKept, CompleteKept DEF LosesNoFile
<1>3. DriftFits /\ DriftComplete(names) => NothingLost
  <2> SUFFICES ASSUME DriftFits, DriftComplete(names), status = "done", rewritten = 0,
                      NEW src \in 0..(Len(asked) - 1),
                      NEW n \in 0..(EntryCount(AskedImage(src)) - 1),
                      NEW k \in 1..RowCount(AskedImage(src), n, mode)
               PROVE  \E i \in 1..Len(received) : received[i] = AskedRow(src, n, k)
    BY DEF NothingLost, AskedImage, AskedRow
  <2>1. HoldsAllBefore(received, <<Len(asked), 0>>)
    BY DEF DriftComplete
  <2>2. src \in Nat /\ src < Len(asked) /\ n \in Nat
    BY AskedIs DEF DriftFits
  <2>3. ~PositionLeq(<<Len(asked), 0>>, <<src, n>>)
    BY <2>2 DEF PositionLeq, DriftFits, DriftTyped
  <2> QED
    BY <2>1, <2>3 DEF HoldsAllBefore
<1> QED
  BY <1>1, <1>2, <1>3, DriftFitsAlways, PTL DEF DriftSpec
=============================================================================
