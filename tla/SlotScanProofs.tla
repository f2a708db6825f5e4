--------------------------- MODULE SlotScanProofs ----------------------------
(***************************************************************************)
(* For records of every size with any attribute headers, and for files of  *)
(* every number of them, as long as no sum of an offset and the fields of  *)
(* a header wraps (on a 64-bit target none does: offsets and fields have   *)
(* 32 bits at most): the gate lets the crate have exactly the records      *)
(* whose chain is sound, what becomes of a slot is settled by the slot     *)
(* alone, the scan is a scan of the image, and the finished batch shows    *)
(* the records of the file.                                                *)
(***************************************************************************)
EXTENDS SlotScan, DataInduction

-----------------------------------------------------------------------------
(***************************************************************************)
(* The inductive invariant of one decode.                                  *)
(***************************************************************************)
NoWrap(s) ==
    s.parse = "entry" =>
        \A o \in DOMAIN s.header :
            /\ o + s.header[o].length < WORD
            /\ o + s.header[o].data_offset + s.header[o].data_size < WORD

\* The verdict of the gate is not among them.
NoOverrun(diags) == \A i \in 1..Len(diags) : diags[i] # "attr-overrun"

\* What the gate has passed are the first attributes of the chain.
PassesChain ==
    \A i \in 1..Len(passed) :
        /\ passed[i] = Position(slot)[i - 1]
        /\ IsAttribute(slot, Position(slot)[i - 1])

\* An attribute of the chain makes the crate panic.
PanicsInChain(s) ==
    \E k \in 0..(MAX_ATTRS - 1) :
        IsAttribute(s, Position(s)[k]) /\ s.header[Position(s)[k]].content = "panic"

DecodeFits ==
    /\ TypeOK
    /\ NoWrap(slot)
    /\ phase = "parse" => passed = << >> /\ view = EmptyView
    /\ phase \in {"gate", "attributes", "assemble"} =>
          slot.parse = "entry" /\ PassesChain
    /\ phase = "gate" => off = Position(slot)[Len(passed)] /\ view = EmptyView
    /\ phase \in {"attributes", "assemble"} =>
          /\ Len(passed) < MAX_ATTRS
          /\ IsTerminator(slot, Position(slot)[Len(passed)])
    /\ phase = "attributes" =>
          /\ Len(view.attributes) <= Len(passed)
          /\ off = Position(slot)[Len(view.attributes)]
    /\ phase = "done" /\ slot.parse = "entry" /\ SoundChain(slot) =>
          PanicsInChain(slot) \/ NoOverrun(outcome[1].diagnostics)
    /\ outcome # << >> => IsView(outcome[1].view)

-----------------------------------------------------------------------------
(***************************************************************************)
(* Lemmas on the chain of headers of a slot.                               *)
(***************************************************************************)
\* A sum that does not wrap.
LEMMA PlusIs ==
    ASSUME NEW a \in Nat, NEW b \in Nat, a + b < WORD
    PROVE  Plus(a, b) = a + b
  BY SlotsAssumption DEF Plus

\* The offsets that a walk along the lengths may reach.
Reachable(s) == {o \in Nat : o + 4 <= s.size => o \in DOMAIN s.header}

\* An attribute leads from such an offset to another.
LEMMA AttributeLeadsOn ==
    ASSUME NEW s, IsSlot(s), NoWrap(s), s.parse = "entry",
           NEW o \in Reachable(s), IsAttribute(s, o)
    PROVE  /\ o \in DOMAIN s.header /\ IsHeader(s.header[o])
           /\ o + s.header[o].length \in Reachable(s)
<1>1. o \in Nat /\ o \in DOMAIN s.header
  BY DEF IsAttribute, Reachable
<1>2. /\ IsHeader(s.header[o])
      /\ s.header[o].length >= 16 /\ Plus(o, s.header[o].length) + 4 <= s.size
            => Plus(o, s.header[o].length) \in DOMAIN s.header
  BY <1>1 DEF IsSlot
<1>3. s.header[o].length \in Nat /\ s.header[o].length >= 16
  BY <1>2 DEF IsHeader, IsAttribute, InBounds
<1>4. Plus(o, s.header[o].length) = o + s.header[o].length
  BY <1>1, <1>3, PlusIs DEF NoWrap
<1> QED
  BY <1>1, <1>2, <1>3, <1>4 DEF Reachable

\* Where the headers of a slot are: each attribute leads to the next position.
LEMMA PositionIs ==
    ASSUME NEW s, IsSlot(s), NoWrap(s), s.parse = "entry"
    PROVE  /\ Position(s) \in [Nat -> Reachable(s)]
           /\ Position(s)[0] = s.first
           /\ \A k \in Nat :
                 Position(s)[k + 1] =
                    IF IsAttribute(s, Position(s)[k])
                    THEN Position(s)[k] + s.header[Position(s)[k]].length
                    ELSE Position(s)[k]
<1> DEFINE R == Reachable(s)
           step == [o \in R |-> IF IsAttribute(s, o) THEN o + s.header[o].length ELSE o]
           IsPosition(at) ==
              at = [k \in Nat |->
                      IF k = 0 THEN s.first
                      ELSE LET o == at[k - 1]
                           IN  IF IsAttribute(s, o) THEN o + s.header[o].length ELSE o]
<1>1. step \in [R -> R] /\ s.first \in R
  BY AttributeLeadsOn DEF IsSlot, Reachable
<1>2. PICK g \in [Nat -> R] : g[0] = s.first /\ \A k \in Nat : g[k + 1] = step[g[k]]
  <2> HIDE DEF step, R, IsPosition
  <2>1. step \in [R -> R] /\ s.first \in R
    BY <1>1
  <2>2. ASSUME NEW a \in R, NEW f \in [R -> R]
        PROVE  \E g \in [Nat -> R] : g[0] = a /\ \A k \in Nat : g[k + 1] = f[g[k]]
    BY IterationExists
  <2> QED
    BY <2>1, <2>2
<1>3. IsPosition(g)
  <2>1. ASSUME NEW k \in Nat
        PROVE  g[k] = IF k = 0 THEN s.first
                      ELSE LET o == g[k - 1]
                           IN  IF IsAttribute(s, o) THEN o + s.header[o].length ELSE o
    <3>1. CASE k = 0
      BY <1>2, <3>1
    <3>2. CASE k # 0
      <4>1. k - 1 \in Nat /\ (k - 1) + 1 = k
        BY <3>2
      <4>2. g[(k - 1) + 1] = step[g[k - 1]] /\ g[k - 1] \in R
        BY <1>2, <4>1
      <4> QED
        BY <3>2, <4>1, <4>2
    <3> QED
      BY <3>1, <3>2
  <2> HIDE DEF R
  <2> QED
    BY <1>2, <2>1
<1>4. Position(s) = CHOOSE at : IsPosition(at)
  BY DEF Position
<1> HIDE DEF IsPosition
<1>5. IsPosition(Position(s))
  BY <1>3, <1>4
<1> USE DEF IsPosition
<1> HIDE DEF R
<1>6. /\ Position(s)[0] = s.first
      /\ \A k \in Nat :
            Position(s)[k + 1] =
               IF IsAttribute(s, Position(s)[k])
               THEN Position(s)[k] + s.header[Position(s)[k]].length
               ELSE Position(s)[k]
  BY <1>5
<1>7. \A k \in Nat : Position(s)[k] \in R
  <2> DEFINE In == {k \in Nat : Position(s)[k] \in R}
  <2>1. 0 \in In
    BY <1>1, <1>6
  <2>2. ASSUME NEW k \in In PROVE k + 1 \in In
    BY <1>6, AttributeLeadsOn DEF R
  <2> HIDE DEF In
  <2> QED
    BY <2>1, <2>2, Induction DEF In
<1> QED
  BY <1>5, <1>6, <1>7 DEF R

\* From a header that is no attribute the chain does not lead on.
LEMMA ChainStops ==
    ASSUME NEW s, IsSlot(s), NoWrap(s), s.parse = "entry",
           NEW k \in Nat, ~IsAttribute(s, Position(s)[k]),
           NEW m \in Nat, k <= m
    PROVE  Position(s)[m] = Position(s)[k]
<1> DEFINE Same == {i \in Nat : Position(s)[k + i] = Position(s)[k]}
<1>1. 0 \in Same
  OBVIOUS
<1>2. ASSUME NEW i \in Same PROVE i + 1 \in Same
  <2>1. Position(s)[(k + i) + 1] = Position(s)[k + i]
    BY PositionIs
  <2> QED
    BY <2>1
<1>3. Same = Nat
  <2> HIDE DEF Same
  <2> QED
    BY <1>1, <1>2, Induction DEF Same
<1>4. m - k \in Nat /\ k + (m - k) = m
  OBVIOUS
<1>5. m - k \in Same
  BY <1>3, <1>4
<1> QED
  BY <1>4, <1>5

\* Attributes and then a terminator, within the bound: a sound chain.
LEMMA ChainIsSound ==
    ASSUME NEW s, NEW k \in 0..(MAX_ATTRS - 1), IsTerminator(s, Position(s)[k])
    PROVE  SoundChain(s)
  BY DEF SoundChain, Ends

\* Attributes and then a header that is neither an attribute nor a terminator, or more
\* attributes than the bound admits: not a sound chain.
LEMMA ChainIsBroken ==
    ASSUME NEW s, IsSlot(s), NoWrap(s), s.parse = "entry",
           NEW k \in Nat, \A j \in 0..(k - 1) : IsAttribute(s, Position(s)[j]),
           \/ k = MAX_ATTRS
           \/ ~IsAttribute(s, Position(s)[k]) /\ ~IsTerminator(s, Position(s)[k])
    PROVE  ~SoundChain(s)
<1> SUFFICES ASSUME NEW m \in 0..(MAX_ATTRS - 1) PROVE ~IsTerminator(s, Position(s)[m])
  BY DEF SoundChain, Ends
<1>1. MAX_ATTRS \in Nat
  BY SlotsAssumption
<1>2. CASE m < k
  <2>1. IsAttribute(s, Position(s)[m])
    BY <1>1, <1>2
  <2> QED
    BY <2>1 DEF IsAttribute, IsTerminator
<1>3. CASE k <= m
  <2>1. ~IsAttribute(s, Position(s)[k]) /\ ~IsTerminator(s, Position(s)[k])
    BY <1>1, <1>3
  <2>2. Position(s)[m] = Position(s)[k]
    BY <1>1, <1>3, <2>1, ChainStops
  <2> QED
    BY <2>1, <2>2
<1> QED
  BY <1>1, <1>2, <1>3

-----------------------------------------------------------------------------
(***************************************************************************)
(* The invariant is kept by every step of a decode.                        *)
(***************************************************************************)
\* The header at hand while the gate or the crate's iterator walks.
LEMMA HeaderAt ==
    ASSUME DecodeFits, slot.parse = "entry", NEW k \in Nat, off = Position(slot)[k], RoomForType
    PROVE  /\ off \in DOMAIN slot.header /\ IsHeader(header)
           /\ off + header.length < WORD
           /\ off + header.data_offset + header.data_size < WORD
           /\ slot.size \in Nat
<1>1. IsSlot(slot) /\ NoWrap(slot)
  BY DEF DecodeFits, TypeOK
<1>2. off \in Reachable(slot)
  BY <1>1, PositionIs
<1>3. off \in DOMAIN slot.header
  BY <1>2 DEF Reachable, RoomForType
<1> QED
  BY <1>1, <1>3 DEF IsSlot, NoWrap, header

\* The gate's arithmetic and the true one agree.
LEMMA GateTestsBounds ==
    ASSUME DecodeFits, slot.parse = "entry", NEW k \in Nat, off = Position(slot)[k], AtAttribute
    PROVE  /\ IsAttribute(slot, off) <=> LengthFits /\ ~ResidentFieldsMissing /\ ContentFits
           /\ IsAttribute(slot, off) =>
                 /\ Plus(off, header.length) = off + header.length
                 /\ off + header.length = Position(slot)[k + 1]
<1>1. RoomForType /\ header.type # "end"
  BY DEF AtAttribute
<1>2. /\ off \in Nat /\ IsHeader(header) /\ slot.size \in Nat
      /\ off + header.length < WORD
      /\ off + header.data_offset + header.data_size < WORD
  BY <1>1, HeaderAt DEF DecodeFits, TypeOK
<1>3. /\ header.length \in Nat /\ header.data_offset \in Nat /\ header.data_size \in Nat
      /\ header.resident \in BOOLEAN /\ off + header.data_offset \in Nat
  BY <1>2 DEF IsHeader
<1>4. /\ Plus(off, header.length) = off + header.length
      /\ Plus(off + header.data_offset, header.data_size)
            = off + header.data_offset + header.data_size
  BY <1>2, <1>3, PlusIs
<1>5. IsAttribute(slot, off) <=> InBounds(slot, off)
  BY <1>1 DEF IsAttribute, RoomForType, header
<1>6. InBounds(slot, off) <=> LengthFits /\ ~ResidentFieldsMissing /\ ContentFits
  BY <1>2, <1>3, <1>4
     DEF InBounds, LengthFits, ResidentFieldsMissing, ContentFits, header
<1>7. IsAttribute(slot, off) => off + header.length = Position(slot)[k + 1]
  BY PositionIs DEF DecodeFits, TypeOK, header
<1> QED
  BY <1>4, <1>5, <1>6, <1>7

\* The chain that the gate has passed.
LEMMA PassedIsChain ==
    ASSUME DecodeFits, phase \in {"gate", "attributes", "assemble"}
    PROVE  /\ Len(passed) \in Nat
           /\ \A j \in 0..(Len(passed) - 1) : IsAttribute(slot, Position(slot)[j])
<1>1. \A j \in 0..(Len(passed) - 1) : j + 1 \in 1..Len(passed) /\ (j + 1) - 1 = j
  BY DEF DecodeFits, TypeOK
<1> QED
  BY <1>1 DEF DecodeFits, TypeOK, PassesChain

\* A record of which nothing survives.
LEMMA EmptyViewIs ==
    /\ IsView(EmptyView)
    /\ \A in_use, sequence, diags : Record(in_use, sequence, EmptyView, diags)[1].view = EmptyView
    /\ \A diag : DiagnosticRecord(diag)[1].view = EmptyView
  BY DEF IsView, EmptyView, Record, DiagnosticRecord

\* A slot that is settled without its attributes.
LEMMA ParseFits ==
    ASSUME DecodeFits, NoRecord \/ BadRecord
    PROVE  DecodeFits'
<1>1. /\ phase' = "done" /\ slot.parse # "entry"
      /\ UNCHANGED <<slot, off, passed, diagnostics, view>>
      /\ outcome' # << >> => IsView(outcome'[1].view)
  BY EmptyViewIs DEF NoRecord, BadRecord, Finish
<1> QED
  BY <1>1 DEF DecodeFits, TypeOK, NoWrap

\* The gate begins at the first header.
LEMMA StartFits ==
    ASSUME DecodeFits, StartGate
    PROVE  DecodeFits'
<1>1. /\ phase = "parse" /\ slot.parse = "entry" /\ phase' = "gate" /\ off' = slot.first
      /\ diagnostics' = HeaderDiagnostics /\ passed = << >>
      /\ UNCHANGED <<slot, passed, view, outcome>>
  BY DEF StartGate, DecodeFits
<1>2. HeaderDiagnostics \in Seq(Codes)
  <2>1. \A c \in Codes : << >> \in Seq(Codes) /\ <<c>> \in Seq(Codes)
    OBVIOUS
  <2>2. "baad" \in Codes /\ "fixup-mismatch" \in Codes
    BY DEF Codes
  <2>3. /\ (IF slot.signature = "BAAD" THEN <<"baad">> ELSE << >>) \in Seq(Codes)
        /\ (IF slot.valid_fixup = "no" THEN <<"fixup-mismatch">> ELSE << >>) \in Seq(Codes)
    BY <2>1, <2>2
  <2> QED
    BY <2>3 DEF HeaderDiagnostics
<1>3. off' = Position(slot)[Len(passed)] /\ off' \in Nat
  BY <1>1, PositionIs DEF DecodeFits, TypeOK, IsSlot
<1> QED
  BY <1>1, <1>2, <1>3 DEF DecodeFits, TypeOK, NoWrap, PassesChain

\* The gate opens for a chain that is sound.
LEMMA OpenFits ==
    ASSUME DecodeFits, GateOpens
    PROVE  DecodeFits'
<1>1. /\ phase = "gate" /\ Len(passed) < MAX_ATTRS /\ AtTerminator
      /\ phase' = "attributes" /\ off' = slot.first
      /\ UNCHANGED <<slot, passed, diagnostics, view, outcome>>
  BY DEF GateOpens, TurnLeft
<1>2. /\ slot.parse = "entry" /\ PassesChain /\ view = EmptyView
      /\ off = Position(slot)[Len(passed)]
  BY <1>1 DEF DecodeFits
<1>3. IsTerminator(slot, Position(slot)[Len(passed)])
  BY <1>1, <1>2 DEF AtTerminator, RoomForType, IsTerminator, header
<1>4. Len(view.attributes) = 0 /\ 0 <= Len(passed)
  BY <1>2 DEF EmptyView, DecodeFits, TypeOK
<1>5. off' = Position(slot)[Len(view.attributes)] /\ off' \in Nat
  BY <1>1, <1>2, <1>4, PositionIs DEF DecodeFits, TypeOK, IsSlot
<1> QED
  BY <1>1, <1>2, <1>3, <1>4, <1>5 DEF DecodeFits, TypeOK, NoWrap, PassesChain

\* The gate passes an attribute that lies inside the record.
LEMMA PassFits ==
    ASSUME DecodeFits, GatePasses
    PROVE  DecodeFits'
<1>1. /\ phase = "gate" /\ Len(passed) < MAX_ATTRS /\ AtAttribute
      /\ LengthFits /\ ~ResidentFieldsMissing /\ ContentFits
      /\ passed' = Append(passed, off) /\ off' = Plus(off, header.length)
      /\ UNCHANGED <<slot, phase, diagnostics, view, outcome>>
  BY DEF GatePasses, TurnLeft
<1>2. /\ slot.parse = "entry" /\ PassesChain /\ view = EmptyView
      /\ off = Position(slot)[Len(passed)]
      /\ passed \in Seq(Nat) /\ off \in Nat
  BY <1>1 DEF DecodeFits, TypeOK
<1>3. IsAttribute(slot, off) /\ off' = Position(slot)[Len(passed) + 1]
  BY <1>1, <1>2, GateTestsBounds
<1>4. /\ passed' \in Seq(Nat) /\ Len(passed') = Len(passed) + 1 /\ Len(passed) \in Nat
      /\ \A i \in 1..Len(passed) : passed'[i] = passed[i]
      /\ passed'[Len(passed) + 1] = off
  BY <1>1, <1>2
<1>5. Len(passed') <= MAX_ATTRS
  BY <1>1, <1>4, SlotsAssumption
<1>6. PassesChain'
  <2> SUFFICES ASSUME NEW i \in 1..Len(passed')
               PROVE  passed'[i] = Position(slot)[i - 1] /\ IsAttribute(slot, Position(slot)[i - 1])
    BY <1>1 DEF PassesChain
  <2>1. CASE i \in 1..Len(passed)
    BY <1>2, <1>4, <2>1 DEF PassesChain
  <2>2. CASE i = Len(passed) + 1
    BY <1>2, <1>3, <1>4, <2>2
  <2> QED
    BY <1>4, <2>1, <2>2
<1>7. off' \in Nat
  <2>1. Position(slot) \in [Nat -> Reachable(slot)]
    BY <1>2, PositionIs DEF DecodeFits, TypeOK
  <2>2. Len(passed) + 1 \in Nat
    BY <1>4
  <2> QED
    BY <1>3, <2>1, <2>2 DEF Reachable
<1> QED
  BY <1>1, <1>2, <1>3, <1>4, <1>5, <1>6, <1>7 DEF DecodeFits, TypeOK, NoWrap

\* The gate refuses, or panics over, only a chain that is not sound.
LEMMA Refused ==
    ASSUME DecodeFits, GatePanics \/ GateCloses
    PROVE  /\ ~SoundChain(slot)
           /\ \/ Len(passed) = MAX_ATTRS
              \/ ~IsAttribute(slot, off) /\ ~IsTerminator(slot, off)
<1>1. phase = "gate"
  BY DEF GatePanics, GateCloses, TurnLeft
<1>2. /\ slot.parse = "entry" /\ off = Position(slot)[Len(passed)]
      /\ Len(passed) \in Nat /\ Len(passed) <= MAX_ATTRS
      /\ IsSlot(slot) /\ NoWrap(slot)
  BY <1>1 DEF DecodeFits, TypeOK
<1>3. \/ Len(passed) = MAX_ATTRS
      \/ ~IsAttribute(slot, off) /\ ~IsTerminator(slot, off)
  <2>1. CASE ~TurnLeft
    BY <1>1, <1>2, <2>1, SlotsAssumption DEF TurnLeft
  <2>2. CASE ~RoomForType
    BY <2>2 DEF RoomForType, IsAttribute, IsTerminator
  <2>3. CASE AtAttribute /\ ~(LengthFits /\ ~ResidentFieldsMissing /\ ContentFits)
    <3>1. ~IsAttribute(slot, off)
      BY <1>2, <2>3, GateTestsBounds
    <3>2. ~IsTerminator(slot, off)
      BY <2>3 DEF AtAttribute, IsTerminator, header
    <3> QED
      BY <3>1, <3>2
  <2> QED
    BY <2>1, <2>2, <2>3 DEF GatePanics, GateCloses
<1>4. ~SoundChain(slot)
  <2>1. \A j \in 0..(Len(passed) - 1) : IsAttribute(slot, Position(slot)[j])
    BY <1>1, PassedIsChain
  <2> QED
    BY <1>2, <1>3, <2>1, ChainIsBroken
<1> QED
  BY <1>3, <1>4

\* The gate panics, or refuses the record.
LEMMA RefusalFits ==
    ASSUME DecodeFits, GatePanics \/ GateCloses
    PROVE  DecodeFits'
<1>1. /\ phase = "gate" /\ phase' = "done"
      /\ UNCHANGED <<slot, off, passed, diagnostics, view>>
      /\ IsView(outcome'[1].view)
  BY EmptyViewIs DEF GatePanics, GateCloses, Finish, TurnLeft
<1>2. ~SoundChain(slot)
  BY Refused
<1> QED
  BY <1>1, <1>2 DEF DecodeFits, TypeOK, NoWrap, SoundChain, Ends

\* The iterator of the crate stands at a header of the chain, and ends where it ends.
LEMMA IteratorOnChain ==
    ASSUME DecodeFits, phase = "attributes"
    PROVE  /\ slot.parse = "entry" /\ RoomForType
           /\ Len(view.attributes) \in Nat
           /\ off = Position(slot)[Len(view.attributes)]
           /\ Len(view.attributes) <= Len(passed) /\ Len(passed) < MAX_ATTRS
           /\ Len(view.attributes) < Len(passed) <=> header.type # "end"
           /\ header.type # "end" => IsAttribute(slot, off)
<1>1. /\ slot.parse = "entry"
      /\ Len(view.attributes) \in Nat /\ Len(passed) \in Nat
      /\ off = Position(slot)[Len(view.attributes)]
      /\ Len(view.attributes) <= Len(passed) /\ Len(passed) < MAX_ATTRS
      /\ IsTerminator(slot, Position(slot)[Len(passed)])
  BY DEF DecodeFits, TypeOK, IsView
<1>2. CASE Len(view.attributes) < Len(passed)
  <2>1. Len(view.attributes) \in 0..(Len(passed) - 1)
    BY <1>1, <1>2
  <2>2. IsAttribute(slot, off)
    BY <1>1, <2>1, PassedIsChain
  <2> QED
    BY <1>1, <1>2, <2>2 DEF IsAttribute, RoomForType, header
<1>3. CASE Len(view.attributes) = Len(passed)
  BY <1>1, <1>3 DEF IsTerminator, RoomForType, header
<1> QED
  BY <1>1, <1>2, <1>3

\* What the loop collects.
LEMMA CollectIs ==
    ASSUME IsView(view), off \in Nat, view' = Collect(view, off, header)
    PROVE  /\ IsView(view')
           /\ view'.attributes = Append(view.attributes, off)
<1>1. /\ view.standard_info \in Seq(Nat) /\ view.file_names \in Seq(Nat)
      /\ view.primary \in Seq(Nat) /\ view.ads \in Seq(Nat) /\ view.attributes \in Seq(Nat)
      /\ view = [standard_info |-> view.standard_info, file_names |-> view.file_names,
                 primary |-> view.primary, ads |-> view.ads, attributes |-> view.attributes]
  BY DEF IsView
<1>2. /\ <<off>> \in Seq(Nat) /\ Append(view.file_names, off) \in Seq(Nat)
      /\ Append(view.ads, off) \in Seq(Nat) /\ Append(view.attributes, off) \in Seq(Nat)
  BY <1>1
<1>3. view' = [standard_info |-> IF header.type = "si" /\ header.content = "ok"
                                 THEN <<off>> ELSE view.standard_info,
               file_names |-> IF header.type = "name" /\ header.content = "ok"
                              THEN Append(view.file_names, off) ELSE view.file_names,
               primary |-> IF header.type = "data" /\ ~header.named
                           THEN <<off>> ELSE view.primary,
               ads |-> IF header.type = "data" /\ header.named
                       THEN Append(view.ads, off) ELSE view.ads,
               attributes |-> Append(view.attributes, off)]
  BY <1>1 DEF Collect
<1> QED
  BY <1>1, <1>2, <1>3 DEF IsView

\* The loop takes an attribute of the chain and moves on to the next.
LEMMA DecodedFits ==
    ASSUME DecodeFits, AttributeDecoded
    PROVE  DecodeFits'
<1>1. /\ phase = "attributes" /\ header.type # "end"
      /\ view' = Collect(view, off, header) /\ off' = off + header.length
      /\ UNCHANGED <<slot, phase, passed, diagnostics, outcome>>
  BY DEF AttributeDecoded, AtAttribute, NextAttribute
<1>2. /\ slot.parse = "entry" /\ AtAttribute /\ IsAttribute(slot, off)
      /\ off = Position(slot)[Len(view.attributes)]
      /\ Len(view.attributes) \in Nat /\ Len(view.attributes) < Len(passed)
  BY <1>1, IteratorOnChain DEF AtAttribute
<1>3. off' = Position(slot)[Len(view.attributes) + 1]
  BY <1>1, <1>2, GateTestsBounds
<1>4. off' \in Nat
  <2>1. Position(slot) \in [Nat -> Reachable(slot)]
    BY <1>2, PositionIs DEF DecodeFits, TypeOK
  <2>2. Len(view.attributes) + 1 \in Nat
    BY <1>2
  <2> QED
    BY <1>3, <2>1, <2>2 DEF Reachable
<1>5. IsView(view') /\ view'.attributes = Append(view.attributes, off)
  BY <1>1, CollectIs DEF DecodeFits, TypeOK
<1>6. Len(view'.attributes) = Len(view.attributes) + 1
  BY <1>5 DEF DecodeFits, TypeOK, IsView
<1>7. Len(view'.attributes) <= Len(passed)
  BY <1>2, <1>6 DEF DecodeFits, TypeOK
<1> QED
  BY <1>1, <1>3, <1>4, <1>5, <1>6, <1>7 DEF DecodeFits, TypeOK, NoWrap, PassesChain

\* The loop ends, by an error or at the terminator.
LEMMA LoopEndFits ==
    ASSUME DecodeFits, AttributeFails \/ AttributesEnd
    PROVE  DecodeFits'
<1>1. /\ phase = "attributes" /\ phase' = "assemble"
      /\ UNCHANGED <<slot, off, passed, view, outcome>>
      /\ diagnostics' = diagnostics \/ diagnostics' = Append(diagnostics, "decode-error")
  BY DEF AttributeFails, AttributesEnd
<1>2. diagnostics' \in Seq(Codes)
  <2>1. "decode-error" \in Codes /\ diagnostics \in Seq(Codes)
    BY DEF Codes, DecodeFits, TypeOK
  <2> QED
    BY <1>1, <2>1
<1> QED
  BY <1>1, <1>2 DEF DecodeFits, TypeOK, NoWrap, PassesChain

\* A panic comes from an attribute of the chain.
LEMMA PanicFits ==
    ASSUME DecodeFits, AttributePanics
    PROVE  DecodeFits'
<1>1. /\ phase = "attributes" /\ AtAttribute /\ header.content = "panic" /\ phase' = "done"
      /\ UNCHANGED <<slot, off, passed, diagnostics, view>>
      /\ IsView(outcome'[1].view)
  BY EmptyViewIs DEF AttributePanics, Finish
<1>2. /\ IsAttribute(slot, off) /\ off = Position(slot)[Len(view.attributes)]
      /\ Len(view.attributes) \in 0..(MAX_ATTRS - 1)
  BY <1>1, IteratorOnChain, SlotsAssumption DEF AtAttribute, DecodeFits, TypeOK
<1>3. PanicsInChain(slot)
  BY <1>1, <1>2 DEF PanicsInChain, header
<1> QED
  BY <1>1, <1>3 DEF DecodeFits, TypeOK, NoWrap, PanicsInChain

\* The record is put together: the gate's verdict is not among its diagnostics.
LEMMA AssembleFits ==
    ASSUME DecodeFits, Assemble
    PROVE  DecodeFits'
<1> DEFINE diags == IF SawAttrList THEN Append(diagnostics, "attr-overflow") ELSE diagnostics
<1>1. /\ phase = "assemble" /\ phase' = "done" /\ outcome'[1].diagnostics = diags
      /\ outcome'[1].view = view
      /\ UNCHANGED <<slot, off, passed, diagnostics, view>>
  BY DEF Assemble, Finish, Record
<1>2. NoOverrun(diags)
  <2>1. diagnostics \in Seq(Codes)
    BY DEF DecodeFits, TypeOK
  <2>2. \A c \in Codes \cup {"attr-overflow"} : c # "attr-overrun"
    BY DEF Codes
  <2>3. diags \in Seq(Codes \cup {"attr-overflow"})
    BY <2>1
  <2> HIDE DEF diags
  <2> QED
    BY <2>2, <2>3 DEF NoOverrun
<1> HIDE DEF diags
<1> QED
  BY <1>1, <1>2 DEF DecodeFits, TypeOK, NoWrap, NoOverrun

\* Every step of a decode.
LEMMA StepFits ==
    ASSUME DecodeFits, [Next]_vars
    PROVE  DecodeFits'
<1>1. CASE UNCHANGED vars
  BY <1>1 DEF vars, DecodeFits, TypeOK, NoWrap, PassesChain, SoundChain, Ends, PanicsInChain,
              NoOverrun
<1> QED
  BY <1>1, ParseFits, StartFits, OpenFits, PassFits, RefusalFits, DecodedFits, LoopEndFits,
     PanicFits, AssembleFits DEF Next, Step, Done

\* What the invariant says of the gate.
LEMMA FitsIsExact == DecodeFits => GateIsExact /\ ContentInBounds
<1> SUFFICES ASSUME DecodeFits PROVE GateIsExact /\ ContentInBounds
  OBVIOUS
<1>1. phase \in {"attributes", "assemble"} => SoundChain(slot)
  <2> SUFFICES ASSUME phase \in {"attributes", "assemble"} PROVE SoundChain(slot)
    OBVIOUS
  <2>1. /\ Len(passed) \in 0..(MAX_ATTRS - 1)
        /\ IsTerminator(slot, Position(slot)[Len(passed)])
    BY SlotsAssumption DEF DecodeFits, TypeOK
  <2> QED
    BY <2>1, ChainIsSound
<1>2. ContentInBounds
  BY IteratorOnChain DEF ContentInBounds, RoomForType, IsAttribute
<1> QED
  BY <1>1, <1>2 DEF GateIsExact, DecodeFits, PanicsInChain, NoOverrun

-----------------------------------------------------------------------------
(***************************************************************************)
(* Theorems of one decode.                                                 *)
(***************************************************************************)
\* A decode begins with its slot and nothing else.
LEMMA BeginFits ==
    ASSUME IsSlot(slot), NoWrap(slot), phase = "parse", off = 0, passed = << >>,
           diagnostics = << >>, view = EmptyView, outcome = << >>
    PROVE  DecodeFits
<1>1. IsView(view)
  BY DEF IsView, EmptyView
<1>2. Len(passed) <= MAX_ATTRS
  BY SlotsAssumption
<1> QED
  BY <1>1, <1>2 DEF DecodeFits, TypeOK

\* How far the gate and the crate's iterator are in the chain of headers, at every step.
THEOREM DecodeFitsAlways ==
    ASSUME \A s \in Slots : NoWrap(s)
    PROVE  Spec => []DecodeFits
<1>1. Init => DecodeFits
  BY BeginFits, SlotsAssumption DEF Init
<1>2. DecodeFits /\ [Next]_vars => DecodeFits'
  BY StepFits
<1> QED
  BY <1>1, <1>2, PTL DEF Spec

\* The gate lets the crate have exactly the records whose chain of attributes is sound,
\* and the crate parses nothing that is not inside the record.
THEOREM DecodeGate ==
    ASSUME \A s \in Slots : NoWrap(s)
    PROVE  Spec => [](GateIsExact /\ ContentInBounds)
  BY DecodeFitsAlways, FitsIsExact, PTL

-----------------------------------------------------------------------------
(***************************************************************************)
(* Lemmas on what attributes amount to, one attribute at a time.           *)
(***************************************************************************)
LEMMA ThoseIs ==
    ASSUME NEW S
    PROVE  /\ Those(<< >>, S) = << >>
           /\ \A q \in Seq(Nat) : Those(q, S) \in Seq(Nat)
           /\ \A q \in Seq(Nat), x \in Nat :
                 Those(Append(q, x), S) = IF x \in S THEN Append(Those(q, S), x) ELSE Those(q, S)
<1> DEFINE One(x) == IF x \in S THEN <<x>> ELSE << >>
           Each(q) == [i \in 1..Len(q) |-> One(q[i])]
<1>0. \A q : Those(q, S) = FlattenSeq(Each(q))
  BY DEF Those
<1>1. \A x \in Nat : One(x) \in Seq(Nat)
  OBVIOUS
<1> HIDE DEF One
<1>2. \A q \in Seq(Nat) : Each(q) \in Seq(Seq(Nat))
  <2> SUFFICES ASSUME NEW q \in Seq(Nat) PROVE Each(q) \in Seq(Seq(Nat))
    OBVIOUS
  <2>1. Len(q) \in Nat /\ \A i \in 1..Len(q) : q[i] \in Nat
    OBVIOUS
  <2>2. \A i \in 1..Len(q) : One(q[i]) \in Seq(Nat)
    BY <1>1, <2>1
  <2> QED
    BY <2>1, <2>2
<1>3. ASSUME NEW q \in Seq(Nat), NEW x \in Nat
      PROVE  Each(Append(q, x)) = Append(Each(q), One(x))
  <2>1. /\ Len(Append(q, x)) = Len(q) + 1 /\ Len(q) \in Nat
        /\ \A i \in 1..(Len(q) + 1) : Append(q, x)[i] = IF i = Len(q) + 1 THEN x ELSE q[i]
    OBVIOUS
  <2>2. Each(q) \in Seq(Seq(Nat)) /\ Len(Each(q)) = Len(q) /\ One(x) \in Seq(Nat)
    BY <1>1, <1>2, <2>1
  <2>3. Each(Append(q, x)) = [i \in 1..(Len(q) + 1) |-> One(Append(q, x)[i])]
    BY <2>1
  <2>4. Append(Each(q), One(x))
           = [i \in 1..(Len(q) + 1) |-> IF i = Len(q) + 1 THEN One(x) ELSE Each(q)[i]]
    BY <2>2
  <2>5. \A i \in 1..(Len(q) + 1) :
           One(Append(q, x)[i]) = IF i = Len(q) + 1 THEN One(x) ELSE Each(q)[i]
    BY <2>1
  <2> QED
    BY <2>3, <2>4, <2>5
<1>4. Each(<< >>) = << >> /\ FlattenSeq(<< >>) = << >>
  BY DEF FlattenSeq
<1> HIDE DEF Each
<1>5. \A q \in Seq(Nat) : FlattenSeq(Each(q)) \in Seq(Nat)
  BY <1>2, FlattenTyped
<1>6. ASSUME NEW q \in Seq(Nat), NEW x \in Nat
      PROVE  FlattenSeq(Each(Append(q, x)))
                = IF x \in S THEN Append(FlattenSeq(Each(q)), x) ELSE FlattenSeq(Each(q))
  <2>1. FlattenSeq(Each(Append(q, x))) = FlattenSeq(Each(q)) \o One(x)
    BY <1>1, <1>2, <1>3, FlattenAppend
  <2>2. FlattenSeq(Each(q)) \in Seq(Nat)
    BY <1>5
  <2> QED
    BY <2>1, <2>2 DEF One
<1> QED
  BY <1>0, <1>4, <1>5, <1>6

\* The last of some offsets, one offset at a time.
LEMMA LastOfIs ==
    /\ LastOf(<< >>) = << >>
    /\ \A q \in Seq(Nat) : LastOf(q) \in Seq(Nat)
    /\ \A q \in Seq(Nat), x \in Nat : LastOf(Append(q, x)) = <<x>>
<1>1. ASSUME NEW q \in Seq(Nat) PROVE LastOf(q) \in Seq(Nat)
  <2>1. q # << >> => Len(q) \in 1..Len(q)
    OBVIOUS
  <2>2. q # << >> => Last(q) \in Nat
    BY <2>1 DEF Last
  <2> QED
    BY <2>2 DEF LastOf
<1>2. ASSUME NEW q \in Seq(Nat), NEW x \in Nat PROVE LastOf(Append(q, x)) = <<x>>
  <2>1. Append(q, x) # << >> /\ Append(q, x)[Len(Append(q, x))] = x
    OBVIOUS
  <2> QED
    BY <2>1 DEF LastOf, Last
<1> QED
  BY <1>1, <1>2 DEF LastOf

\* What one attribute adds to each field of the view.
LEMMA CollectFields ==
    ASSUME NEW v, IsView(v), NEW o \in Nat, NEW h, NEW w, w = Collect(v, o, h)
    PROVE  w
              = [standard_info |-> IF h.type = "si" /\ h.content = "ok"
                                   THEN <<o>> ELSE v.standard_info,
                 file_names |-> IF h.type = "name" /\ h.content = "ok"
                                THEN Append(v.file_names, o) ELSE v.file_names,
                 primary |-> IF h.type = "data" /\ ~h.named THEN <<o>> ELSE v.primary,
                 ads |-> IF h.type = "data" /\ h.named THEN Append(v.ads, o) ELSE v.ads,
                 attributes |-> Append(v.attributes, o)]
<1>1. /\ v.standard_info \in Seq(Nat) /\ v.file_names \in Seq(Nat)
      /\ v.primary \in Seq(Nat) /\ v.ads \in Seq(Nat) /\ v.attributes \in Seq(Nat)
      /\ v = [standard_info |-> v.standard_info, file_names |-> v.file_names,
              primary |-> v.primary, ads |-> v.ads, attributes |-> v.attributes]
  BY DEF IsView
<1> QED
  BY <1>1 DEF Collect

\* What an attribute adds to what there is, is what the loop collects.
LEMMA ViewOfIs ==
    ASSUME NEW s
    PROVE  /\ ViewOf(s, << >>) = EmptyView
           /\ \A q \in Seq(Nat), o \in DOMAIN s.header \cap Nat :
                 ViewOf(s, Append(q, o)) = Collect(ViewOf(s, q), o, s.header[o])
<1>1. ViewOf(s, << >>) = EmptyView
  BY ThoseIs, LastOfIs DEF ViewOf, Parsed, Unnamed, Named, EmptyView
<1>2. ASSUME NEW q \in Seq(Nat), NEW o \in DOMAIN s.header \cap Nat
      PROVE  ViewOf(s, Append(q, o)) = Collect(ViewOf(s, q), o, s.header[o])
  <2> DEFINE h == s.header[o]
             more == Append(q, o)
  <2>0. /\ LastOf(Parsed(s, q, "si")) \in Seq(Nat) /\ Parsed(s, q, "name") \in Seq(Nat)
        /\ LastOf(Unnamed(s, q)) \in Seq(Nat) /\ Named(s, q) \in Seq(Nat)
    BY ThoseIs, LastOfIs DEF Parsed, Unnamed, Named
  <2>1. Parsed(s, more, "si") = IF h.type = "si" /\ h.content = "ok"
                                THEN Append(Parsed(s, q, "si"), o) ELSE Parsed(s, q, "si")
    BY ThoseIs DEF Parsed, Typed
  <2>2. Parsed(s, more, "name") = IF h.type = "name" /\ h.content = "ok"
                                  THEN Append(Parsed(s, q, "name"), o) ELSE Parsed(s, q, "name")
    BY ThoseIs DEF Parsed, Typed
  <2>3. Unnamed(s, more) = IF h.type = "data" /\ ~h.named
                           THEN Append(Unnamed(s, q), o) ELSE Unnamed(s, q)
    BY ThoseIs DEF Unnamed, Typed
  <2>4. Named(s, more) = IF h.type = "data" /\ h.named
                         THEN Append(Named(s, q), o) ELSE Named(s, q)
    BY ThoseIs DEF Named, Typed
  <2>5. Parsed(s, q, "si") \in Seq(Nat) /\ Unnamed(s, q) \in Seq(Nat)
    BY ThoseIs DEF Parsed, Unnamed
  <2>6. /\ LastOf(Append(Parsed(s, q, "si"), o)) = <<o>>
        /\ LastOf(Append(Unnamed(s, q), o)) = <<o>>
    BY <2>5, LastOfIs
  <2> HIDE DEF h, more
  <2>7. /\ LastOf(Parsed(s, more, "si")) = IF h.type = "si" /\ h.content = "ok"
                                           THEN <<o>> ELSE LastOf(Parsed(s, q, "si"))
        /\ LastOf(Unnamed(s, more)) = IF h.type = "data" /\ ~h.named
                                      THEN <<o>> ELSE LastOf(Unnamed(s, q))
    BY <2>1, <2>3, <2>6
  <2>8. ViewOf(s, more) =
           [standard_info |-> IF h.type = "si" /\ h.content = "ok"
                              THEN <<o>> ELSE LastOf(Parsed(s, q, "si")),
            file_names |-> IF h.type = "name" /\ h.content = "ok"
                           THEN Append(Parsed(s, q, "name"), o) ELSE Parsed(s, q, "name"),
            primary |-> IF h.type = "data" /\ ~h.named THEN <<o>> ELSE LastOf(Unnamed(s, q)),
            ads |-> IF h.type = "data" /\ h.named THEN Append(Named(s, q), o) ELSE Named(s, q),
            attributes |-> more]
    BY <2>2, <2>4, <2>7 DEF ViewOf
  <2>9. Collect(ViewOf(s, q), o, h) =
           [standard_info |-> IF h.type = "si" /\ h.content = "ok"
                              THEN <<o>> ELSE LastOf(Parsed(s, q, "si")),
            file_names |-> IF h.type = "name" /\ h.content = "ok"
                           THEN Append(Parsed(s, q, "name"), o) ELSE Parsed(s, q, "name"),
            primary |-> IF h.type = "data" /\ ~h.named THEN <<o>> ELSE LastOf(Unnamed(s, q)),
            ads |-> IF h.type = "data" /\ h.named THEN Append(Named(s, q), o) ELSE Named(s, q),
            attributes |-> Append(q, o)]
    <3> DEFINE v == ViewOf(s, q)
    <3>1. /\ IsView(v) /\ v.standard_info = LastOf(Parsed(s, q, "si"))
          /\ v.file_names = Parsed(s, q, "name") /\ v.primary = LastOf(Unnamed(s, q))
          /\ v.ads = Named(s, q) /\ v.attributes = q
      BY <2>0 DEF ViewOf, IsView
    <3> HIDE DEF v
    <3>2. o \in Nat
      OBVIOUS
    <3>3. Collect(v, o, h) =
             [standard_info |-> IF h.type = "si" /\ h.content = "ok"
                                THEN <<o>> ELSE v.standard_info,
              file_names |-> IF h.type = "name" /\ h.content = "ok"
                             THEN Append(v.file_names, o) ELSE v.file_names,
              primary |-> IF h.type = "data" /\ ~h.named THEN <<o>> ELSE v.primary,
              ads |-> IF h.type = "data" /\ h.named THEN Append(v.ads, o) ELSE v.ads,
              attributes |-> Append(v.attributes, o)]
      BY <3>1, <3>2, CollectFields
    <3>4. v = ViewOf(s, q)
      BY DEF v
    <3> QED
      BY <3>1, <3>3, <3>4
  <2> QED
    BY <2>8, <2>9 DEF h, more
<1> QED
  BY <1>1, <1>2

-----------------------------------------------------------------------------
(***************************************************************************)
(* What becomes of a slot, said of the slot alone: the invariant of a      *)
(* decode that ends in it.                                                 *)
(***************************************************************************)
\* What a header says of itself.
Flaws(s) ==
    (IF s.signature = "BAAD" THEN <<"baad">> ELSE << >>)
        \o (IF s.valid_fixup = "no" THEN <<"fixup-mismatch">> ELSE << >>)

HoldsList(s, offsets) == \E i \in 1..Len(offsets) : s.header[offsets[i]].type = "list"

\* The attributes of a sound chain that are read, and what is wrong when they are.
Read(s) == SubSeq(Chain(s), 1, Readable(s))

ReadFlaws(s) ==
    IF Readable(s) < Len(Chain(s)) THEN Append(Flaws(s), "decode-error") ELSE Flaws(s)

OutcomeOf(s) ==
    IF s.parse \in {"absent", "zeroed", "unsigned"} THEN << >>
    ELSE IF s.parse = "error" THEN DiagnosticRecord(s.kind)
    ELSE IF s.parse = "panic" \/ Panics(s) THEN DiagnosticRecord("attr-overrun")
    ELSE IF ~SoundChain(s)
    THEN Record(s.in_use, s.sequence, EmptyView, Append(Flaws(s), "attr-overrun"))
    ELSE Record(s.in_use, s.sequence, ViewOf(s, Read(s)),
                IF HoldsList(s, Read(s)) THEN Append(ReadFlaws(s), "attr-overflow")
                ELSE ReadFlaws(s))

\* How far the loop over the attributes is.
Taken == Len(view.attributes)

DecodeShows ==
    /\ phase # "done" => outcome = << >>
    /\ phase \in {"gate", "attributes"} => diagnostics = Flaws(slot)
    /\ phase \in {"attributes", "assemble"} =>
          /\ Taken <= Len(passed)
          /\ view = ViewOf(slot, SubSeq(passed, 1, Taken))
          /\ \A i \in 1..Taken : slot.header[passed[i]].content \in {"ok", "opaque"}
    /\ phase = "assemble" =>
          \/ Taken = Len(passed) /\ diagnostics = Flaws(slot)
          \/ /\ Taken < Len(passed)
             /\ slot.header[passed[Taken + 1]].content = "error"
             /\ diagnostics = Append(Flaws(slot), "decode-error")
    /\ phase = "done" => outcome = OutcomeOf(slot)

\* Where the chain of a slot ends, if it ends with a terminator.
LEMMA ChainEnds ==
    ASSUME NEW s, IsSlot(s), NoWrap(s), s.parse = "entry", NEW k \in 0..(MAX_ATTRS - 1),
           \A j \in 0..(k - 1) : IsAttribute(s, Position(s)[j]),
           IsTerminator(s, Position(s)[k])
    PROVE  SoundChain(s) /\ Chain(s) = [i \in 1..k |-> Position(s)[i - 1]]
<1>1. k \in Nat /\ k \in Ends(s)
  BY SlotsAssumption DEF Ends
<1>2. ASSUME NEW m \in Ends(s) PROVE m \in Nat /\ k <= m
  <2>1. m \in Nat /\ IsTerminator(s, Position(s)[m])
    BY SlotsAssumption DEF Ends
  <2>2. ASSUME m < k PROVE FALSE
    <3>1. m \in 0..(k - 1)
      BY <1>1, <2>1, <2>2
    <3> QED
      BY <2>1, <3>1 DEF IsAttribute, IsTerminator
  <2> QED
    BY <1>1, <2>1, <2>2
<1>3. Min(Ends(s)) = k
  <2> DEFINE E == Ends(s)
  <2>1. k \in E /\ \A m \in E : k =< m
    BY <1>1, <1>2
  <2>2. \A x \in E : (\A y \in E : x =< y) => x = k
    BY <1>1, <1>2
  <2> HIDE DEF E
  <2>3. Min(E) = k
    BY <2>1, <2>2 DEF Min
  <2> QED
    BY <2>3 DEF E
<1> QED
  BY <1>1, <1>3 DEF SoundChain, Chain

\* Every sound chain ends so.
LEMMA SoundChainEnds ==
    ASSUME NEW s, IsSlot(s), NoWrap(s), s.parse = "entry", SoundChain(s)
    PROVE  \E k \in 0..(MAX_ATTRS - 1) :
              /\ \A j \in 0..(k - 1) : IsAttribute(s, Position(s)[j])
              /\ IsTerminator(s, Position(s)[k])
<1>1. Ends(s) \in SUBSET Nat /\ Ends(s) # {}
  BY SlotsAssumption DEF Ends, SoundChain
<1>2. PICK k \in Ends(s) : \A m \in Ends(s) : k <= m
  BY <1>1, Least
<1>3. k \in Nat /\ k \in 0..(MAX_ATTRS - 1) /\ IsTerminator(s, Position(s)[k])
  BY <1>1 DEF Ends
<1>4. ASSUME NEW j \in 0..(k - 1) PROVE IsAttribute(s, Position(s)[j])
  <2>1. SUFFICES ASSUME ~IsAttribute(s, Position(s)[j]) PROVE FALSE
    OBVIOUS
  <2>2. j \in Nat /\ j <= k /\ j < k /\ j \in 0..(MAX_ATTRS - 1)
    BY <1>3, SlotsAssumption
  <2>3. Position(s)[k] = Position(s)[j]
    BY <1>3, <2>1, <2>2, ChainStops
  <2>4. j \in Ends(s)
    BY <1>3, <2>2, <2>3 DEF Ends
  <2> QED
    BY <1>2, <1>3, <2>2, <2>4
<1> QED
  BY <1>3, <1>4

\* A header over which the gate panics.
PanicAt(s, o) ==
    /\ o + 16 <= s.size /\ s.size < o + 22
    /\ s.header[o].type # "end" /\ s.header[o].resident
    /\ s.header[o].length >= 16 /\ o + s.header[o].length <= s.size

\* The gate panics over a header of a chain only where the chain ends.
LEMMA NoPanicOnChain ==
    ASSUME NEW s, IsSlot(s), NoWrap(s), s.parse = "entry", NEW k \in Nat,
           \A j \in 0..(k - 1) : IsAttribute(s, Position(s)[j]),
           \/ k = MAX_ATTRS
           \/ ~IsAttribute(s, Position(s)[k]) /\ ~PanicAt(s, Position(s)[k]),
           NEW m \in 0..(MAX_ATTRS - 1)
    PROVE  ~PanicAt(s, Position(s)[m])
<1>1. m \in Nat /\ m < MAX_ATTRS /\ MAX_ATTRS \in Nat
  BY SlotsAssumption
<1>2. CASE m < k
  <2> DEFINE o == Position(s)[m]
  <2>1. IsAttribute(s, o) /\ o \in Reachable(s)
    BY <1>1, <1>2, PositionIs
  <2>2. s.header[o].resident => o + 22 <= s.size
    BY <2>1 DEF IsAttribute, InBounds
  <2>3. o \in Nat /\ s.size \in Nat
    BY <2>1 DEF Reachable, IsSlot
  <2> HIDE DEF o
  <2>4. ~PanicAt(s, o)
    BY <2>2, <2>3 DEF PanicAt
  <2> QED
    BY <2>4 DEF o
<1>3. CASE k <= m
  <2>1. ~IsAttribute(s, Position(s)[k]) /\ ~PanicAt(s, Position(s)[k])
    BY <1>1, <1>3
  <2>2. Position(s)[m] = Position(s)[k]
    BY <1>1, <1>3, <2>1, ChainStops
  <2> QED
    BY <2>1, <2>2
<1> QED
  BY <1>1, <1>2, <1>3

\* How far a chain can be read.
LEMMA ReadableIs ==
    ASSUME NEW s, Len(Chain(s)) \in Nat, NEW k \in 0..Len(Chain(s)),
           \A i \in 1..k : s.header[Chain(s)[i]].content \notin {"error", "panic"},
           k < Len(Chain(s)) => s.header[Chain(s)[k + 1]].content \in {"error", "panic"}
    PROVE  Readable(s) = k
<1> DEFINE chain == Chain(s)
           bad == {i \in 1..Len(chain) : s.header[chain[i]].content \in {"error", "panic"}}
<1>1. Readable(s) = IF bad = {} THEN Len(chain) ELSE Min(bad) - 1
  BY DEF Readable
<1>2. Len(chain) \in Nat /\ k \in Nat
  OBVIOUS
<1>3. \A i \in bad : i \in Nat /\ k + 1 <= i
  BY <1>2
<1>4. CASE k = Len(chain)
  <2>1. bad = {}
    BY <1>2, <1>3, <1>4
  <2> QED
    BY <1>1, <1>4, <2>1
<1>5. CASE k # Len(chain)
  <2>1. k + 1 \in bad
    BY <1>2, <1>5
  <2> HIDE DEF bad
  <2>2. \A x \in bad : (\A y \in bad : x =< y) => x = k + 1
    BY <1>2, <1>3, <2>1
  <2>3. Min(bad) = k + 1
    BY <1>3, <2>1, <2>2 DEF Min
  <2> QED
    BY <1>1, <1>2, <2>1, <2>3
<1> QED
  BY <1>4, <1>5

\* What the gate has passed, once it has opened, is the chain of the slot.
LEMMA PassedAll ==
    ASSUME DecodeFits, phase \in {"attributes", "assemble"}
    PROVE  /\ SoundChain(slot) /\ Chain(slot) = passed
           /\ \A m \in 0..(MAX_ATTRS - 1) : ~PanicAt(slot, Position(slot)[m])
<1>1. /\ IsSlot(slot) /\ NoWrap(slot) /\ slot.parse = "entry" /\ passed \in Seq(Nat)
      /\ Len(passed) \in 0..(MAX_ATTRS - 1) /\ Len(passed) \in Nat
      /\ IsTerminator(slot, Position(slot)[Len(passed)])
      /\ PassesChain
  BY SlotsAssumption DEF DecodeFits, TypeOK
<1>2. \A j \in 0..(Len(passed) - 1) : IsAttribute(slot, Position(slot)[j])
  BY PassedIsChain
<1>3. SoundChain(slot) /\ Chain(slot) = [i \in 1..Len(passed) |-> Position(slot)[i - 1]]
  BY <1>1, <1>2, ChainEnds
<1>4. passed = [i \in 1..Len(passed) |-> passed[i]]
  BY <1>1
<1>5. passed = [i \in 1..Len(passed) |-> Position(slot)[i - 1]]
  BY <1>1, <1>4 DEF PassesChain
<1>6. /\ ~IsAttribute(slot, Position(slot)[Len(passed)])
      /\ ~PanicAt(slot, Position(slot)[Len(passed)])
  BY <1>1 DEF IsTerminator, IsAttribute, PanicAt
<1> QED
  BY <1>1, <1>2, <1>3, <1>5, <1>6, NoPanicOnChain

\* Slots without attributes, and the begin of the gate.
LEMMA ParseShows ==
    ASSUME DecodeFits, DecodeShows, NoRecord \/ BadRecord \/ StartGate
    PROVE  DecodeShows'
<1>1. slot' = slot
  BY DEF NoRecord, BadRecord, StartGate
<1>2. CASE NoRecord
  <2>1. phase' = "done" /\ outcome' = << >> /\ OutcomeOf(slot) = << >>
    BY <1>2 DEF NoRecord, Finish, OutcomeOf
  <2> QED
    BY <1>1, <2>1 DEF DecodeShows
<1>3. CASE BadRecord
  <2>1. phase' = "done" /\ outcome' = OutcomeOf(slot)
    BY <1>3 DEF BadRecord, Finish, OutcomeOf
  <2> QED
    BY <1>1, <2>1 DEF DecodeShows
<1>4. CASE StartGate
  <2>1. phase' = "gate" /\ diagnostics' = Flaws(slot) /\ outcome' = outcome /\ phase = "parse"
    BY <1>4 DEF StartGate, HeaderDiagnostics, Flaws
  <2> QED
    BY <1>1, <2>1 DEF DecodeShows
<1> QED
  BY <1>2, <1>3, <1>4

\* The gate passes an attribute, or opens.
LEMMA GateShows ==
    ASSUME DecodeFits, DecodeShows, GatePasses \/ GateOpens
    PROVE  DecodeShows'
<1>1. CASE GatePasses
  BY <1>1 DEF GatePasses, TurnLeft, DecodeShows
<1>2. CASE GateOpens
  <2>1. /\ phase = "gate" /\ phase' = "attributes" /\ view = EmptyView
        /\ UNCHANGED <<slot, passed, diagnostics, view, outcome>>
    BY <1>2 DEF GateOpens, TurnLeft, DecodeFits
  <2>2. Taken = 0 /\ SubSeq(passed, 1, 0) = << >> /\ 0 <= Len(passed)
    BY <2>1 DEF Taken, EmptyView, DecodeFits, TypeOK
  <2>3. view = ViewOf(slot, SubSeq(passed, 1, Taken))
    BY <2>1, <2>2, ViewOfIs
  <2>4. Taken' = Taken /\ \A i \in 1..Taken : FALSE
    BY <2>1, <2>2 DEF Taken
  <2> QED
    BY <2>1, <2>2, <2>3, <2>4 DEF DecodeShows
<1> QED
  BY <1>1, <1>2

\* The gate panics, or closes.
LEMMA RefusalShows ==
    ASSUME DecodeFits, DecodeShows, GatePanics \/ GateCloses
    PROVE  DecodeShows'
<1>1. /\ phase = "gate" /\ phase' = "done" /\ UNCHANGED <<slot, diagnostics>>
      /\ slot.parse = "entry" /\ off = Position(slot)[Len(passed)]
      /\ IsSlot(slot) /\ NoWrap(slot) /\ off \in Nat /\ Len(passed) \in Nat
      /\ Len(passed) <= MAX_ATTRS
      /\ diagnostics = Flaws(slot)
  BY DEF GatePanics, GateCloses, Finish, TurnLeft, DecodeFits, TypeOK, DecodeShows
<1>2. /\ ~SoundChain(slot)
      /\ \/ Len(passed) = MAX_ATTRS
         \/ ~IsAttribute(slot, off) /\ ~IsTerminator(slot, off)
  BY Refused
<1>3. AtAttribute =>
         /\ header.length \in Nat /\ header.resident \in BOOLEAN
         /\ Plus(off, header.length) = off + header.length /\ slot.size \in Nat
  BY <1>1, HeaderAt, PlusIs DEF AtAttribute, IsHeader
<1>4. CASE GatePanics
  <2>1. Len(passed) \in 0..(MAX_ATTRS - 1)
    BY <1>1, <1>4, SlotsAssumption DEF GatePanics, TurnLeft
  <2>2. PanicAt(slot, off)
    BY <1>1, <1>3, <1>4
       DEF GatePanics, AtAttribute, LengthFits, ResidentFieldsMissing, PanicAt, header
  <2>3. Panics(slot)
    BY <1>1, <2>1, <2>2 DEF Panics, PanicAt
  <2>4. outcome' = OutcomeOf(slot)
    BY <1>1, <1>4, <2>3 DEF GatePanics, Finish, OutcomeOf
  <2> QED
    BY <1>1, <2>4 DEF DecodeShows
<1>5. CASE GateCloses
  <2>1. Len(passed) = MAX_ATTRS \/ ~PanicAt(slot, off)
    <3>1. SUFFICES ASSUME Len(passed) # MAX_ATTRS, PanicAt(slot, off) PROVE FALSE
      OBVIOUS
    <3>2. Len(passed) < MAX_ATTRS /\ TurnLeft
      BY <1>1, <3>1, SlotsAssumption DEF TurnLeft
    <3>3. slot.size \in Nat /\ off + 16 <= slot.size
      BY <1>1, <3>1 DEF PanicAt, IsSlot
    <3>4. AtAttribute
      BY <1>1, <3>1, <3>3 DEF PanicAt, AtAttribute, RoomForType, header
    <3>5. LengthFits /\ ResidentFieldsMissing
      BY <1>1, <1>3, <3>1, <3>4 DEF PanicAt, LengthFits, ResidentFieldsMissing, header
    <3> QED
      BY <1>5, <3>2, <3>4, <3>5 DEF GateCloses, AtAttribute
  <2>2. \A j \in 0..(Len(passed) - 1) : IsAttribute(slot, Position(slot)[j])
    BY <1>1, PassedIsChain
  <2>3. \A m \in 0..(MAX_ATTRS - 1) : ~PanicAt(slot, Position(slot)[m])
    BY <1>1, <1>2, <2>1, <2>2, NoPanicOnChain
  <2>4. ~Panics(slot)
    BY <1>2, <2>3 DEF Panics, PanicAt
  <2>5. outcome' = OutcomeOf(slot)
    BY <1>1, <1>2, <1>5, <2>4 DEF GateCloses, Finish, OutcomeOf
  <2> QED
    BY <1>1, <2>5 DEF DecodeShows
<1> QED
  BY <1>4, <1>5

\* Where the loop over the attributes stands.
LEMMA LoopIsAt ==
    ASSUME DecodeFits, phase = "attributes", AtAttribute
    PROVE  /\ Taken \in Nat /\ Taken < Len(passed) /\ passed[Taken + 1] = off
           /\ off \in DOMAIN slot.header /\ off \in Nat
<1>1. /\ slot.parse = "entry" /\ RoomForType /\ Taken \in Nat /\ off = Position(slot)[Taken]
      /\ Taken < Len(passed)
  BY IteratorOnChain DEF Taken, AtAttribute
<1>2. off \in DOMAIN slot.header
  BY <1>1, HeaderAt
<1>3. Taken + 1 \in 1..Len(passed) /\ (Taken + 1) - 1 = Taken /\ off \in Nat
  BY <1>1 DEF DecodeFits, TypeOK
<1>4. passed[Taken + 1] = Position(slot)[Taken]
  BY <1>1, <1>3 DEF DecodeFits, PassesChain
<1> QED
  BY <1>1, <1>2, <1>3, <1>4

\* The loop takes an attribute.
LEMMA DecodedShows ==
    ASSUME DecodeFits, DecodeShows, AttributeDecoded
    PROVE  DecodeShows'
<1>1. /\ phase = "attributes" /\ AtAttribute /\ header.content \in {"ok", "opaque"}
      /\ view' = Collect(view, off, header)
      /\ UNCHANGED <<slot, phase, passed, diagnostics, outcome>>
      /\ passed \in Seq(Nat)
  BY DEF AttributeDecoded, DecodeFits, TypeOK
<1>2. /\ Taken \in Nat /\ Taken < Len(passed) /\ passed[Taken + 1] = off
      /\ off \in DOMAIN slot.header \cap Nat
  BY <1>1, LoopIsAt
<1>3. view'.attributes = Append(view.attributes, off)
  BY <1>1, CollectIs DEF DecodeFits, TypeOK
<1>4. Taken' = Taken + 1
  BY <1>3 DEF Taken, DecodeFits, TypeOK, IsView
<1>5. SubSeq(passed, 1, Taken + 1) = Append(SubSeq(passed, 1, Taken), off)
      /\ SubSeq(passed, 1, Taken) \in Seq(Nat)
  BY <1>1, <1>2
<1>6. view' = ViewOf(slot, SubSeq(passed, 1, Taken + 1))
  BY <1>1, <1>2, <1>5, ViewOfIs DEF DecodeShows, header
<1>7. \A i \in 1..(Taken + 1) : slot.header[passed[i]].content \in {"ok", "opaque"}
  BY <1>1, <1>2 DEF DecodeShows, header
<1>8. Taken + 1 <= Len(passed)
  BY <1>1, <1>2
<1> QED
  BY <1>1, <1>4, <1>6, <1>7, <1>8 DEF DecodeShows

\* The loop ends.
LEMMA LoopEndShows ==
    ASSUME DecodeFits, DecodeShows, AttributeFails \/ AttributesEnd
    PROVE  DecodeShows'
<1>1. /\ phase = "attributes" /\ phase' = "assemble" /\ UNCHANGED <<slot, passed, view, outcome>>
      /\ Taken' = Taken
  BY DEF AttributeFails, AttributesEnd, Taken
<1>2. CASE AttributeFails
  <2>1. AtAttribute /\ header.content = "error" /\ diagnostics' = Append(Flaws(slot), "decode-error")
    BY <1>2 DEF AttributeFails, DecodeShows
  <2>2. Taken < Len(passed) /\ slot.header[passed[Taken + 1]].content = "error"
    BY <1>1, <2>1, LoopIsAt DEF header
  <2> QED
    BY <1>1, <2>1, <2>2 DEF DecodeShows
<1>3. CASE AttributesEnd
  <2>1. AtTerminator /\ diagnostics' = Flaws(slot)
    BY <1>3 DEF AttributesEnd, DecodeShows
  <2>2. Taken = Len(passed)
    BY <1>1, <2>1, IteratorOnChain DEF AtTerminator, Taken, DecodeFits, TypeOK
  <2> QED
    BY <1>1, <2>1, <2>2 DEF DecodeShows
<1> QED
  BY <1>2, <1>3

\* How much of the chain is read is what the loop has taken.
LEMMA ReadIsTaken ==
    ASSUME DecodeFits, DecodeShows, phase \in {"attributes", "assemble"},
           Taken < Len(passed) =>
              slot.header[passed[Taken + 1]].content \in {"error", "panic"}
    PROVE  Readable(slot) = Taken
<1>1. Len(passed) \in Nat /\ Taken \in 0..Len(passed)
  BY DEF DecodeFits, TypeOK, DecodeShows, Taken, IsView
<1>2. \A i \in 1..Taken : slot.header[passed[i]].content \notin {"error", "panic"}
  BY DEF DecodeShows
<1> QED
  BY <1>1, <1>2, PassedAll, ReadableIs

\* The crate panics over an attribute.
LEMMA PanicShows ==
    ASSUME DecodeFits, DecodeShows, AttributePanics
    PROVE  DecodeShows'
<1>1. /\ phase = "attributes" /\ AtAttribute /\ header.content = "panic" /\ phase' = "done"
      /\ outcome' = DiagnosticRecord("attr-overrun") /\ slot' = slot
  BY DEF AttributePanics, Finish
<1>2. Taken < Len(passed) /\ slot.header[passed[Taken + 1]].content = "panic"
  BY <1>1, LoopIsAt DEF header
<1>3. Readable(slot) = Taken /\ SoundChain(slot) /\ Chain(slot) = passed
  BY <1>1, <1>2, ReadIsTaken, PassedAll
<1>4. Panics(slot) /\ slot.parse = "entry"
  BY <1>1, <1>2, <1>3 DEF Panics, DecodeFits
<1>5. outcome' = OutcomeOf(slot)
  BY <1>1, <1>4 DEF OutcomeOf
<1> QED
  BY <1>1, <1>5 DEF DecodeShows

\* The record is put together.
LEMMA AssembleShows ==
    ASSUME DecodeFits, DecodeShows, Assemble
    PROVE  DecodeShows'
<1>1. /\ phase = "assemble" /\ phase' = "done" /\ slot' = slot /\ slot.parse = "entry"
      /\ outcome' = Record(slot.in_use, slot.sequence, view,
                           IF SawAttrList THEN Append(diagnostics, "attr-overflow")
                           ELSE diagnostics)
  BY DEF Assemble, Finish, DecodeFits
<1>2. /\ Readable(slot) = Taken /\ SoundChain(slot) /\ Chain(slot) = passed
      /\ \A m \in 0..(MAX_ATTRS - 1) : ~PanicAt(slot, Position(slot)[m])
  BY <1>1, ReadIsTaken, PassedAll DEF DecodeShows
<1>3. ~Panics(slot)
  <2>1. Taken < Len(passed) => slot.header[passed[Taken + 1]].content # "panic"
    BY <1>1 DEF DecodeShows, Taken, DecodeFits, TypeOK, IsView
  <2> QED
    BY <1>2, <2>1 DEF Panics, PanicAt
<1>4. view = ViewOf(slot, Read(slot))
  BY <1>1, <1>2 DEF DecodeShows, Read
<1>5. view.attributes = Read(slot)
  BY <1>4 DEF ViewOf
<1>6. SawAttrList <=> HoldsList(slot, Read(slot))
  BY <1>5 DEF SawAttrList, HoldsList
<1>7. diagnostics = ReadFlaws(slot)
  BY <1>1, <1>2 DEF DecodeShows, ReadFlaws, Taken, DecodeFits, TypeOK, IsView
<1>8. outcome' = OutcomeOf(slot)
  BY <1>1, <1>2, <1>3, <1>4, <1>6, <1>7 DEF OutcomeOf
<1> QED
  BY <1>1, <1>8 DEF DecodeShows

\* Every step of a decode keeps to the outcome of its slot.
LEMMA StepShows ==
    ASSUME DecodeFits, DecodeShows, [Next]_vars
    PROVE  DecodeShows'
<1>1. CASE UNCHANGED vars
  BY <1>1 DEF vars, DecodeShows, Taken
<1> QED
  BY <1>1, ParseShows, GateShows, RefusalShows, DecodedShows, LoopEndShows, PanicShows,
     AssembleShows DEF Next, Step, Done

\* A sound chain is a sequence of offsets, of which so many can be read.
LEMMA ChainTyped ==
    ASSUME NEW s, IsSlot(s), NoWrap(s), s.parse = "entry", SoundChain(s)
    PROVE  /\ Chain(s) \in Seq(Nat)
           /\ Readable(s) \in 0..Len(Chain(s))
           /\ Read(s) \in Seq(Nat)
<1>1. PICK k \in 0..(MAX_ATTRS - 1) :
         /\ \A j \in 0..(k - 1) : IsAttribute(s, Position(s)[j])
         /\ IsTerminator(s, Position(s)[k])
  BY SoundChainEnds
<1>2. k \in Nat /\ Chain(s) = [i \in 1..k |-> Position(s)[i - 1]]
  BY <1>1, ChainEnds, SlotsAssumption
<1>3. \A i \in 1..k : Position(s)[i - 1] \in Nat
  <2>1. \A i \in 1..k : i - 1 \in Nat
    BY <1>2
  <2> QED
    BY <2>1, PositionIs DEF Reachable
<1> DEFINE chain == Chain(s)
<1>4. chain \in Seq(Nat)
  BY <1>2, <1>3
<1> DEFINE bad == {i \in 1..Len(chain) : s.header[chain[i]].content \in {"error", "panic"}}
<1>5. Readable(s) = IF bad = {} THEN Len(chain) ELSE Min(bad) - 1
  BY DEF Readable
<1> HIDE DEF chain
<1>6. Len(chain) \in Nat
  BY <1>4
<1>7. Readable(s) \in 0..Len(chain)
  <2>1. CASE bad = {}
    BY <1>5, <1>6, <2>1
  <2>2. CASE bad # {}
    <3>1. bad \in SUBSET Nat /\ bad \subseteq 1..Len(chain)
      BY <1>6
    <3> HIDE DEF bad
    <3>2. PICK m \in bad : \A x \in bad : m <= x
      BY <2>2, <3>1, Least
    <3>3. m \in bad /\ \A y \in bad : m =< y
      BY <3>2
    <3>4. Min(bad) \in bad
      BY <3>3 DEF Min
    <3> DEFINE least == Min(bad)
    <3>5. least \in 1..Len(chain) /\ Readable(s) = least - 1
      BY <1>5, <2>2, <3>1, <3>4
    <3> HIDE DEF least
    <3> QED
      BY <1>6, <3>5
  <2> QED
    BY <2>1, <2>2
<1>8. SubSeq(chain, 1, Readable(s)) \in Seq(Nat)
  BY <1>4, <1>6, <1>7
<1> QED
  BY <1>4, <1>7, <1>8 DEF chain, Read

\* Nothing is wrong with a header without flaws.
LEMMA NoFlaws ==
    ASSUME NEW s, s.parse = "entry"
    PROVE  /\ Flaws(s) \in Seq({"baad", "fixup-mismatch"})
           /\ Flaws(s) = << >> <=> WellFormed(s) = "ok"
<1> DEFINE F == {"baad", "fixup-mismatch"}
           a == IF s.signature = "BAAD" THEN <<"baad">> ELSE << >>
           b == IF s.valid_fixup = "no" THEN <<"fixup-mismatch">> ELSE << >>
<1>0. << >> \in Seq(F) /\ \A c \in F : <<c>> \in Seq(F) /\ <<c>> # << >>
  OBVIOUS
<1>1. a \in Seq(F) /\ (a = << >> <=> s.signature # "BAAD")
  <2>1. "baad" \in F
    OBVIOUS
  <2> HIDE DEF F
  <2> QED
    BY <1>0, <2>1
<1>2. b \in Seq(F) /\ (b = << >> <=> s.valid_fixup # "no")
  <2>1. "fixup-mismatch" \in F
    OBVIOUS
  <2> HIDE DEF F
  <2> QED
    BY <1>0, <2>1
<1>3. Flaws(s) = a \o b
  BY DEF Flaws
<1>4. WellFormed(s) = "ok" <=> s.signature # "BAAD" /\ s.valid_fixup # "no"
  BY DEF WellFormed
<1> HIDE DEF a, b
<1>5. a \o b \in Seq(F) /\ (a \o b = << >> <=> a = << >> /\ b = << >>)
  BY <1>1, <1>2
<1> QED
  BY <1>1, <1>2, <1>3, <1>4, <1>5

\* A record without diagnostics comes of a slot nothing is wrong with.
LEMMA CleanOutcome ==
    ASSUME NEW s, IsSlot(s), NoWrap(s), OutcomeOf(s) # << >>, OutcomeOf(s)[1].diagnostics = << >>
    PROVE  /\ s.parse = "entry" /\ WellFormed(s) = "ok" /\ SoundChain(s)
           /\ Readable(s) = Len(Chain(s)) /\ Read(s) = Chain(s) /\ ~HoldsList(s, Chain(s))
           /\ OutcomeOf(s) = Record(s.in_use, s.sequence, ViewOf(s, Chain(s)), << >>)
<1>1. \A q \in Seq({"baad", "fixup-mismatch", "decode-error"}) : \A c : Append(q, c) # << >>
  OBVIOUS
<1>2. \A diag : DiagnosticRecord(diag)[1].diagnostics = <<diag>> /\ <<diag>> # << >>
  BY DEF DiagnosticRecord, Record
<1>3. s.parse = "entry" /\ ~Panics(s)
  BY <1>2 DEF OutcomeOf, IsSlot, ParseResults
<1>4. /\ Flaws(s) \in Seq({"baad", "fixup-mismatch", "decode-error"})
      /\ Flaws(s) = << >> <=> WellFormed(s) = "ok"
  <2>1. \A q \in Seq({"baad", "fixup-mismatch"}) : q \in Seq({"baad", "fixup-mismatch", "decode-error"})
    OBVIOUS
  <2> QED
    BY <1>3, <2>1, NoFlaws
<1>5. SoundChain(s)
  <2>1. SUFFICES ASSUME ~SoundChain(s) PROVE FALSE
    OBVIOUS
  <2>2. OutcomeOf(s)[1].diagnostics = Append(Flaws(s), "attr-overrun")
    BY <1>3, <2>1 DEF OutcomeOf, Record
  <2> QED
    BY <1>1, <1>4, <2>2
<1> DEFINE diags == IF HoldsList(s, Read(s)) THEN Append(ReadFlaws(s), "attr-overflow")
                    ELSE ReadFlaws(s)
<1>6. OutcomeOf(s) = Record(s.in_use, s.sequence, ViewOf(s, Read(s)), diags)
  BY <1>3, <1>5 DEF OutcomeOf
<1>7. diags = << >>
  BY <1>6 DEF Record
<1>8. ReadFlaws(s) \in Seq({"baad", "fixup-mismatch", "decode-error"})
  BY <1>4 DEF ReadFlaws
<1>9. ~HoldsList(s, Read(s)) /\ ReadFlaws(s) = << >>
  BY <1>1, <1>7, <1>8
<1>10. ~(Readable(s) < Len(Chain(s))) /\ Flaws(s) = << >>
  BY <1>1, <1>4, <1>9 DEF ReadFlaws
<1>11. Chain(s) \in Seq(Nat) /\ Readable(s) \in 0..Len(Chain(s))
  BY <1>3, <1>5, ChainTyped
<1>12. Readable(s) = Len(Chain(s))
  BY <1>10, <1>11
<1>13. Read(s) = Chain(s)
  BY <1>11, <1>12 DEF Read
<1> QED
  BY <1>3, <1>4, <1>5, <1>6, <1>7, <1>9, <1>10, <1>12, <1>13

\* A finished decode without diagnostics shows the whole record.
LEMMA ShowsIsWhole ==
    ASSUME DecodeFits, DecodeShows
    PROVE  CleanRecordIsWhole
<1>1. SUFFICES ASSUME phase = "done", outcome # << >>, outcome[1].diagnostics = << >>
               PROVE  /\ WellFormed(slot) = "ok"
                      /\ SoundChain(slot)
                      /\ outcome[1].view = ViewOf(slot, Chain(slot))
  BY DEF CleanRecordIsWhole
<1>2. outcome = OutcomeOf(slot) /\ IsSlot(slot) /\ NoWrap(slot)
  BY <1>1 DEF DecodeShows, DecodeFits, TypeOK
<1> QED
  BY <1>1, <1>2, CleanOutcome DEF Record

\* A record without diagnostics is all there, of a decode by itself.
THEOREM DecodedWhole ==
    ASSUME \A s \in Slots : NoWrap(s)
    PROVE  Spec => []CleanRecordIsWhole
<1>1. Init => DecodeShows
  BY DEF Init, DecodeShows
<1>2. DecodeFits /\ DecodeShows /\ [Next]_vars => DecodeShows'
  BY StepShows
<1>3. DecodeFits /\ DecodeShows => CleanRecordIsWhole
  BY ShowsIsWhole
<1>4. Spec => []DecodeFits
  BY DecodeFitsAlways
<1> QED
  BY <1>1, <1>2, <1>3, <1>4, PTL DEF Spec

-----------------------------------------------------------------------------
(***************************************************************************)
(* A slot and the slot of an image: what a decode shows is what ReadMft    *)
(* takes for granted of the entry.                                         *)
(***************************************************************************)
\* Link, of any slot and record.
LinkOf(s, record) ==
    LET name == PrimaryName(s, record.view.file_names)
    IN  IF name = << >> THEN << >> ELSE <<s.header[name[1]].link>>

\* The attributes of which a record shows something.
SeenOf(s) == IF SoundChain(s) THEN Read(s) ELSE << >>

\* The slot of an image and the outcome of a decode tell the same of a record.
Matches(image_slot, s, out) ==
    /\ image_slot.kind \in {"empty", "bad", "record"}
    /\ image_slot.kind = "empty" <=> out = << >>
    /\ image_slot.kind = "bad" =>
          /\ out[1].in_use = FALSE /\ out[1].sequence = 0
          /\ LinkOf(s, out[1]) = << >> /\ Len(out[1].view.primary \o out[1].view.ads) = 0
    /\ image_slot.kind = "record" =>
          /\ out[1].in_use = image_slot.in_use /\ out[1].sequence = image_slot.sequence
          /\ Len(out[1].view.primary \o out[1].view.ads) = image_slot.streams
          /\ LinkOf(s, out[1]) = << >> => image_slot.name = Img!NoName
          /\ LinkOf(s, out[1]) # << >> =>
                LET link == LinkOf(s, out[1])[1]
                IN  /\ image_slot.name = <<link.name>>
                    /\ image_slot.parent_entry = link.parent_entry
                    /\ image_slot.parent_seq = link.parent_seq

\* Of no names, none is the primary one.
LEMMA NoPrimaryName ==
    ASSUME NEW s
    PROVE  PrimaryName(s, << >>) = << >>
<1>1. Those(<< >>, {o \in DOMAIN s.header : s.header[o].long}) = << >>
  BY ThoseIs
<1>2. SubSeq(<< >>, 1, 0) = << >>
  OBVIOUS
<1> QED
  BY <1>1, <1>2 DEF PrimaryName

\* An image says of a record that is read what the decode shows of it.
LEMMA RecordMatches ==
    ASSUME NEW s, s.in_use \in BOOLEAN, NEW out, NEW diags,
           out = Record(s.in_use, s.sequence, ViewOf(s, SeenOf(s)), diags)
    PROVE  Matches(ImageRecord(s), s, out)
<1> DEFINE seen == SeenOf(s)
           name == PrimaryName(s, Parsed(s, seen, "name"))
           count == Len(Streams(s, seen))
           link == s.header[name[1]].link
<1>1. /\ out[1].in_use = s.in_use /\ out[1].sequence = s.sequence /\ out # << >>
      /\ out[1].view.file_names = Parsed(s, seen, "name")
      /\ out[1].view.primary = LastOf(Unnamed(s, seen))
      /\ out[1].view.ads = Named(s, seen)
  BY DEF Record, ViewOf
<1>2. Len(out[1].view.primary \o out[1].view.ads) = count
  BY <1>1 DEF Streams
<1>3. LinkOf(s, out[1]) = IF name = << >> THEN << >> ELSE <<link>>
  BY <1>1 DEF LinkOf
<1>4. ImageRecord(s) =
         IF name = << >> THEN Img!RecordSlot(s.in_use, s.sequence, Img!NoName, 0, 0, count)
         ELSE Img!RecordSlot(s.in_use, s.sequence, <<link.name>>, link.parent_entry,
                             link.parent_seq, count)
  BY DEF ImageRecord, SeenOf, Read
<1> HIDE DEF seen, name, count, link
<1>5. CASE name = << >>
  BY <1>1, <1>2, <1>3, <1>4, <1>5 DEF Matches, Img!RecordSlot, Img!NoName
<1>6. CASE name # << >>
  BY <1>1, <1>2, <1>3, <1>4, <1>6 DEF Matches, Img!RecordSlot, Img!NoName
<1> QED
  BY <1>5, <1>6

\* The slot of an image says of any slot what its decode shows.
LEMMA SlotMatches ==
    ASSUME NEW s, IsSlot(s)
    PROVE  Matches(ImageSlot(s), s, OutcomeOf(s))
<1>1. CASE s.parse \in {"absent", "zeroed", "unsigned"}
  <2>1. ImageSlot(s).kind = "empty" /\ OutcomeOf(s) = << >>
    BY <1>1 DEF ImageSlot, OutcomeOf, Img!EmptySlot
  <2> QED
    BY <2>1 DEF Matches
<1>2. CASE s.parse \in {"panic", "error"} \/ (s.parse = "entry" /\ Panics(s))
  <2>1. ImageSlot(s).kind = "bad"
    BY <1>2 DEF ImageSlot, Img!BadSlot
  <2>2. PICK diag : OutcomeOf(s) = DiagnosticRecord(diag)
    BY <1>2 DEF OutcomeOf
  <2>3. /\ OutcomeOf(s) # << >> /\ OutcomeOf(s)[1].view = EmptyView
        /\ OutcomeOf(s)[1].in_use = FALSE /\ OutcomeOf(s)[1].sequence = 0
    BY <2>2 DEF DiagnosticRecord, Record
  <2>4. /\ EmptyView.file_names = << >>
        /\ Len(EmptyView.primary \o EmptyView.ads) = 0
    BY DEF EmptyView
  <2>5. LinkOf(s, OutcomeOf(s)[1]) = << >>
    BY <2>3, <2>4, NoPrimaryName DEF LinkOf
  <2> QED
    BY <2>1, <2>3, <2>4, <2>5 DEF Matches
<1>3. CASE s.parse = "entry" /\ ~Panics(s)
  <2>1. ImageSlot(s) = ImageRecord(s)
    BY <1>3 DEF ImageSlot
  <2>2. PICK diags : OutcomeOf(s) = Record(s.in_use, s.sequence, ViewOf(s, SeenOf(s)), diags)
    <3>1. CASE SoundChain(s)
      BY <1>3, <3>1 DEF OutcomeOf, SeenOf
    <3>2. CASE ~SoundChain(s)
      BY <1>3, <3>2, ViewOfIs DEF OutcomeOf, SeenOf
    <3> QED
      BY <3>1, <3>2
  <2>3. s.in_use \in BOOLEAN
    BY <1>3 DEF IsSlot
  <2> QED
    BY <2>1, <2>2, <2>3, RecordMatches
<1> QED
  BY <1>1, <1>2, <1>3 DEF IsSlot, ParseResults

-----------------------------------------------------------------------------
(***************************************************************************)
(* The scan: one decode after the other.                                   *)
(***************************************************************************)
FileNoWrap(f) ==
    /\ \A i \in 1..Len(f.slots) : NoWrap(f.slots[i])
    /\ \A i \in 1..Len(f.pieces) : NoWrap(f.pieces[i])

\* What slice cuts out of a file is a slot.
LEMMA SliceIs ==
    ASSUME NEW f, IsFile(f), FileNoWrap(f), NEW e \in Nat
    PROVE  IsSlot(Slice(f, e)) /\ NoWrap(Slice(f, e))
<1> DEFINE cut == IF RecordStride(f) = f.stride THEN f.slots ELSE f.pieces
<1>1. /\ Len(cut) \in Nat
      /\ \A i \in 1..Len(cut) : IsSlot(cut[i]) /\ NoWrap(cut[i])
  BY DEF IsFile, AreSlots, FileNoWrap
<1>2. CASE e < Len(cut)
  <2>1. Slice(f, e) = cut[e + 1] /\ e + 1 \in 1..Len(cut)
    BY <1>1, <1>2 DEF Slice
  <2> QED
    BY <1>1, <2>1
<1>3. CASE ~(e < Len(cut))
  <2>1. Slice(f, e) = Absent
    BY <1>3 DEF Slice
  <2>2. Absent.parse = "absent"
    BY DEF Absent
  <2> QED
    BY <2>1, <2>2 DEF IsSlot, NoWrap, ParseResults
<1> QED
  BY <1>2, <1>3

\* A file has a number of entries.
LEMMA EntryCountIsNat ==
    ASSUME NEW f, IsFile(f)
    PROVE  EntryCount(f) \in Nat
<1>0. \A stride : Plausible(stride) => stride \in Nat /\ stride > 0
  BY DEF Plausible
<1>1. RecordStride(f) \in Nat /\ RecordStride(f) > 0
  BY <1>0 DEF RecordStride, Img!DEFAULT_STRIDE
<1>2. Len(f.slots) \in Nat /\ f.stride \in Nat /\ f.rest \in Nat
  <2>1. Len(f.slots) \in Nat
    BY DEF IsFile, AreSlots
  <2>2. f.stride \in Nat /\ f.rest \in 0..(f.stride - 1)
    BY <1>0 DEF IsFile
  <2> QED
    BY <2>1, <2>2
<1>3. \A a, b, c, d \in Nat : d > 0 => (a * b + c) \div d \in Nat
  <2>1. \A a, b \in Nat : a * b \in Nat
    OBVIOUS
  <2>2. \A x, d \in Nat : d > 0 => x \div d \in Nat
    OBVIOUS
  <2>3. \A x, c \in Nat : x + c \in Nat
    OBVIOUS
  <2> QED
    BY <2>1, <2>2, <2>3
<1> QED
  BY <1>1, <1>2, <1>3 DEF EntryCount

ScanFits ==
    /\ DecodeFits
    /\ ScanTypeOK
    /\ IsFile(file) /\ FileNoWrap(file) /\ EntryCount(file) > 0
    /\ IsTuple(rows)
    /\ task = "index" => Len(rows) = 0

\* The entry that has been decoded has rows of its number only.
LEMMA EmittedIs ==
    ASSUME DecodeFits
    PROVE  /\ IsTuple(Emitted)
           /\ \A i \in 1..Len(Emitted) : Emitted[i].entry = n
<1> DEFINE shown == StreamsShown(outcome[1].view)
           made == [i \in 1..Len(shown) |-> Row(outcome[1], shown[i])]
<1>1. ASSUME outcome # << >> PROVE Len(shown) \in Nat
  <2> DEFINE v == outcome[1].view
             data == v.primary \o v.ads
  <2>1. v.primary \in Seq(Nat) /\ v.ads \in Seq(Nat)
    BY <1>1 DEF DecodeFits, IsView
  <2>2. data \in Seq(Nat)
    BY <2>1
  <2> HIDE DEF data, v
  <2>3. shown \in {<<v.primary>>, [i \in 1..Len(data) |-> <<data[i]>>]}
    BY DEF StreamsShown, data, v
  <2>4. /\ Len(<<v.primary>>) = 1 /\ Len([i \in 1..Len(data) |-> <<data[i]>>]) = Len(data)
        /\ Len(data) \in Nat
    BY <2>2
  <2> HIDE DEF shown
  <2> QED
    BY <2>3, <2>4
<1>2. Emitted = << >> \/ (outcome # << >> /\ Emitted = made)
  BY DEF Emitted
<1> HIDE DEF shown
<1>3. ASSUME outcome # << >>
      PROVE  IsTuple(made) /\ \A i \in 1..Len(made) : made[i].entry = n
  <2>1. \A i \in 1..Len(shown) : made[i].entry = n
    BY DEF Row
  <2>2. Len(made) = Len(shown)
    BY <1>1, <1>3
  <2> QED
    BY <1>1, <1>3, <2>1, <2>2 DEF IsTuple
<1>4. IsTuple(<< >>) /\ Len(<< >>) = 0
  BY DEF IsTuple
<1> HIDE DEF made
<1> QED
  BY <1>2, <1>3, <1>4

\* The next entry's slot is loaded.
LEMMA LoadFits ==
    ASSUME ScanFits, NEW entry \in 0..(EntryCount(file) - 1), Load(entry), UNCHANGED file
    PROVE  /\ DecodeFits'
           /\ slot' = Slice(file, n') /\ n' = entry
<1>1. IsSlot(Slice(file, entry)) /\ NoWrap(Slice(file, entry))
  BY EntryCountIsNat, SliceIs DEF ScanFits
<1>2. /\ slot' = Slice(file, entry) /\ n' = entry
      /\ phase' = "parse" /\ off' = 0 /\ passed' = << >> /\ diagnostics' = << >>
      /\ view' = EmptyView /\ outcome' = << >>
  BY DEF Load
<1>3. IsSlot(slot') /\ NoWrap(slot')
  BY <1>1, <1>2
<1>4. IsView(view') /\ Len(passed') <= MAX_ATTRS
  BY <1>2, SlotsAssumption, EmptyViewIs
<1> QED
  BY <1>2, <1>3, <1>4 DEF DecodeFits, TypeOK

\* The index with the entry that has been decoded.
LEMMA IndexedIs == DOMAIN Indexed \in {DOMAIN index, DOMAIN index \cup {n}}
  BY DEF Indexed, Put

\* The first decode of a scan begins.
LEMMA ScanInitFits ==
    ASSUME ScanInit, \A read \in Reads : FileNoWrap(read[1])
    PROVE  ScanFits
<1>1. PICK read \in Reads : file = read[1] /\ mode = read[2]
  BY DEF ScanInit
<1>2. IsFile(file) /\ FileNoWrap(file) /\ EntryCount(file) > 0
  BY <1>1, ReadsAssumption
<1>3. IsSlot(slot) /\ NoWrap(slot) /\ slot = Slice(file, n) /\ n = 0
  BY <1>2, SliceIs DEF ScanInit
<1>4. DecodeFits
  BY <1>3, BeginFits DEF ScanInit
<1>5. IsTuple(rows) /\ Len(rows) = 0
  BY DEF ScanInit, IsTuple
<1>6. n \in 0..(EntryCount(file) - 1)
  BY <1>2, <1>3, EntryCountIsNat
<1>7. DOMAIN index = {}
  BY DEF ScanInit, Img!EmptyIndex
<1> QED
  BY <1>2, <1>3, <1>4, <1>5, <1>6, <1>7 DEF ScanFits, ScanTypeOK, DecodeFits, ScanInit

\* A step within a decode.
LEMMA DecodeStepFits ==
    ASSUME ScanFits, DecodeStep
    PROVE  ScanFits'
<1>1. DecodeFits' /\ UNCHANGED scan
  BY StepFits DEF ScanFits, DecodeStep, Next
<1>2. slot' = slot
  BY DEF DecodeStep, Step, NoRecord, BadRecord, StartGate, GateOpens, GatePasses, GatePanics,
         GateCloses, AttributeDecoded, AttributeFails, AttributePanics, AttributesEnd, Assemble
<1> QED
  BY <1>1, <1>2 DEF ScanFits, ScanTypeOK, DecodeFits, scan

\* An entry of the index pass.
LEMMA IndexFits ==
    ASSUME ScanFits, IndexEntry \/ IndexComplete
    PROVE  ScanFits'
<1>1. /\ UNCHANGED <<file, rows, batch>> /\ task = "index" /\ task' \in {"index", "emit"}
      /\ DOMAIN index' \subseteq DOMAIN index \cup {n, Img!ROOT_ENTRY}
  BY IndexedIs DEF IndexEntry, IndexComplete, Decoded, NextEntry, Put
<1>2. PICK entry \in {0, n + 1} : entry \in 0..(EntryCount(file) - 1) /\ Load(entry)
                                  /\ (entry = n + 1 \/ task' = "emit")
  BY EntryCountIsNat DEF IndexEntry, IndexComplete, NextEntry, ScanFits, ScanTypeOK
<1>3. DecodeFits' /\ slot' = Slice(file, n') /\ n' = entry
  BY <1>1, <1>2, LoadFits
<1>4. \A e \in DOMAIN index' : e < EntryCount(file) \/ e = Img!ROOT_ENTRY
  BY <1>1, EntryCountIsNat DEF ScanFits, ScanTypeOK
<1>5. Len(rows') = 0 /\ \A i \in 1..Len(rows') : rows'[i].entry \in 0..n'
  BY <1>1 DEF ScanFits
<1>6. n' \in 0..(EntryCount(file') - 1) /\ batch' = << >>
  BY <1>1, <1>2, <1>3 DEF ScanFits, ScanTypeOK
<1> QED
  BY <1>1, <1>3, <1>4, <1>5, <1>6 DEF ScanFits, ScanTypeOK, DecodeFits

\* An entry of the pass that emits the rows.
LEMMA EmitFits ==
    ASSUME ScanFits, EmitEntry \/ EmitComplete
    PROVE  ScanFits'
<1>1. /\ UNCHANGED <<file, index, batch>> /\ task = "emit" /\ task' \in {"emit", "build"}
      /\ rows' = rows \o Emitted /\ batch = << >>
  BY DEF EmitEntry, EmitComplete, Decoded, NextEntry, ScanFits, ScanTypeOK
<1>2. /\ IsTuple(Emitted) /\ IsTuple(rows)
      /\ \A i \in 1..Len(Emitted) : Emitted[i].entry = n
      /\ \A i \in 1..Len(rows) : rows[i].entry \in 0..n
  BY EmittedIs DEF ScanFits, ScanTypeOK
<1>3. IsTuple(rows') /\ \A i \in 1..Len(rows') : rows'[i].entry \in 0..n
  <2> DEFINE made == Emitted
             before == rows
             after == rows'
  <2>1. n \in Nat /\ n \in 0..n
    BY EntryCountIsNat DEF ScanFits, ScanTypeOK
  <2>2. /\ IsTuple(made) /\ IsTuple(before) /\ after = before \o made
        /\ \A i \in 1..Len(made) : made[i].entry = n
        /\ \A i \in 1..Len(before) : before[i].entry \in 0..n
    BY <1>1, <1>2
  <2> HIDE DEF made, before, after
  <2>3. /\ IsTuple(after) /\ Len(after) = Len(before) + Len(made)
        /\ \A i \in 1..Len(before) : after[i] = before[i]
        /\ \A i \in 1..Len(made) : after[Len(before) + i] = made[i]
    BY <2>2, Joined
  <2>4. ASSUME NEW i \in 1..Len(after) PROVE after[i].entry \in 0..n
    <3>1. CASE i \in 1..Len(before)
      BY <2>2, <2>3, <3>1
    <3>2. CASE i \notin 1..Len(before)
      <4>1. Len(before) \in Nat /\ Len(made) \in Nat
        BY <2>2 DEF IsTuple
      <4>2. i - Len(before) \in 1..Len(made) /\ Len(before) + (i - Len(before)) = i
        BY <2>3, <3>2, <4>1
      <4>3. after[i] = made[i - Len(before)]
        BY <2>3, <4>2
      <4> QED
        BY <2>1, <2>2, <4>2, <4>3
    <3> QED
      BY <3>1, <3>2
  <2>5. IsTuple(after) /\ \A i \in 1..Len(after) : after[i].entry \in 0..n
    BY <2>3, <2>4
  <2> QED
    BY <2>5 DEF after
<1>4. DecodeFits' /\ slot' = Slice(file, n') /\ n' \in {n, n + 1}
      /\ n' \in 0..(EntryCount(file) - 1)
  <2>1. CASE EmitEntry
    <3>1. Load(n + 1) /\ n + 1 \in 0..(EntryCount(file) - 1)
      BY <2>1, EntryCountIsNat DEF EmitEntry, NextEntry, ScanFits, ScanTypeOK
    <3> QED
      BY <1>1, <3>1, LoadFits
  <2>2. CASE EmitComplete
    <3>1. UNCHANGED <<vars, n>>
      BY <2>2 DEF EmitComplete
    <3>2. DecodeFits'
      BY <3>1, StepFits DEF ScanFits
    <3>3. slot' = slot /\ n' = n
      BY <3>1 DEF vars
    <3> QED
      BY <3>2, <3>3, EntryCountIsNat DEF ScanFits, ScanTypeOK
  <2> QED
    BY <2>1, <2>2
<1>5. \A i \in 1..Len(rows') : rows'[i].entry \in 0..n'
  BY <1>3, <1>4 DEF ScanFits, ScanTypeOK
<1> QED
  BY <1>1, <1>3, <1>4, <1>5 DEF ScanFits, ScanTypeOK, DecodeFits

\* The batch is built, and nothing decoded.
LEMMA BuildFits ==
    ASSUME ScanFits, BuildBatch
    PROVE  ScanFits'
<1>1. /\ UNCHANGED <<vars, file, mode, n, index, rows>> /\ task' = "done" /\ batch' # << >>
  BY DEF BuildBatch
<1>2. DecodeFits'
  BY <1>1, StepFits DEF ScanFits
<1> QED
  BY <1>1, <1>2 DEF ScanFits, ScanTypeOK, DecodeFits, vars

\* What is said of a decode holds of every decode of a scan.
THEOREM ScanFitsAlways ==
    ASSUME \A read \in Reads : FileNoWrap(read[1])
    PROVE  ScanSpec => []ScanFits
<1>1. ScanInit => ScanFits
  BY ScanInitFits
<1>2. ScanFits /\ [ScanNext]_scanVars => ScanFits'
  <2>1. ASSUME ScanFits, UNCHANGED scanVars PROVE ScanFits'
    <3>1. DecodeFits'
      BY <2>1, StepFits DEF ScanFits, scanVars
    <3> QED
      BY <2>1, <3>1 DEF ScanFits, ScanTypeOK, DecodeFits, vars, scan, scanVars
  <2> QED
    BY <2>1, DecodeStepFits, IndexFits, EmitFits, BuildFits DEF ScanNext, ScanStep, ScanDone
<1> QED
  BY <1>1, <1>2, PTL DEF ScanSpec

\* Of every slot of every file that is read, whatever its records hold: the gate lets the
\* crate have exactly the records whose chain of attributes is sound, and the crate parses
\* nothing that does not lie inside its record; the index and the rows name entries of the
\* file, and there is a batch when the scan is done and not before.
THEOREM ScanGate ==
    ASSUME \A read \in Reads : FileNoWrap(read[1])
    PROVE  ScanSpec => [](ScanTypeOK /\ GateIsExact /\ ContentInBounds)
<1>1. ScanFits => ScanTypeOK /\ GateIsExact /\ ContentInBounds
  BY FitsIsExact DEF ScanFits
<1> QED
  BY <1>1, ScanFitsAlways, PTL

-----------------------------------------------------------------------------
(***************************************************************************)
(* The scan is a scan of the image: the invariant that says so far.        *)
(***************************************************************************)
Image == ImageOf(file)

\* The entry and path that a row shows.
Shown(row) == <<row.entry, row.is_allocated, row.full_path>>

ShownRows(q) == [i \in 1..Len(q) |-> Shown(q[i])]

\* The index of the entries before m, and the rows of the image's first m entries.
IndexUpTo(m) ==
    [e \in {k \in Img!NamedEntries(Image) : k < m} |-> Img!BuildResolver(Image)[e]]

RowsUpTo(m) == FlattenSeq([i \in 1..m |-> ImageRows(Image, i - 1)])

ScanShows ==
    /\ DecodeShows
    /\ task = "index" => index = IndexUpTo(n)
    /\ task # "index" => index = Img!BuildResolver(Image)
    /\ task = "index" => rows = << >>
    /\ task = "emit" => ShownRows(rows) = RowsUpTo(n)
    /\ task \in {"build", "done"} => ShownRows(rows) = RowsUpTo(EntryCount(file))
    /\ task = "done" => batch = <<Columns>>

\* The slots of the image.
LEMMA ImageIs ==
    ASSUME ScanFits
    PROVE  /\ Img!EntryCount(Image) = EntryCount(file)
           /\ EntryCount(file) \in Nat
           /\ \A e \in 0..(EntryCount(file) - 1) : Img!Slot(Image, e) = ImageSlot(Slice(file, e))
<1>1. EntryCount(file) \in Nat
  BY EntryCountIsNat DEF ScanFits
<1> DEFINE count == EntryCount(file)
<1> HIDE DEF count
<1>2. Image.slots = [i \in 1..count |-> ImageSlot(Slice(file, i - 1))]
  BY DEF Image, ImageOf, count
<1>3. Len(Image.slots) = count
  BY <1>1, <1>2 DEF count
<1>4. ASSUME NEW e \in 0..(count - 1) PROVE Image.slots[e + 1] = ImageSlot(Slice(file, e))
  <2>1. e + 1 \in 1..count /\ (e + 1) - 1 = e
    BY <1>1 DEF count
  <2> QED
    BY <1>2, <2>1
<1> QED
  BY <1>1, <1>3, <1>4 DEF count, Img!EntryCount, Img!Slot

\* What has been decoded is the entry of the image.
LEMMA EntryMatches ==
    ASSUME ScanFits, ScanShows, phase = "done"
    PROVE  /\ n \in 0..(EntryCount(file) - 1)
           /\ Matches(Img!Slot(Image, n), slot, outcome)
           /\ outcome # << >> => Link(outcome[1]) = LinkOf(slot, outcome[1])
<1>1. outcome = OutcomeOf(slot) /\ IsSlot(slot)
  BY DEF ScanShows, DecodeShows, ScanFits, DecodeFits, TypeOK
<1>2. slot = Slice(file, n) /\ n \in 0..(EntryCount(file) - 1)
  BY DEF ScanFits, ScanTypeOK
<1>3. Img!Slot(Image, n) = ImageSlot(slot)
  BY <1>2, ImageIs
<1> QED
  BY <1>1, <1>2, <1>3, SlotMatches DEF Link, LinkOf

\* One entry more in the index.
LEMMA IndexedShows ==
    ASSUME ScanFits, ScanShows, task = "index", phase = "done"
    PROVE  Indexed = IndexUpTo(n + 1)
<1> DEFINE slots == Img!Slot(Image, n)
           Listed == Img!NamedEntries(Image)
           Before(m) == {k \in Listed : k < m}
<1>1. /\ n \in 0..(EntryCount(file) - 1) /\ EntryCount(file) \in Nat
      /\ Matches(slots, slot, outcome)
      /\ outcome # << >> => Link(outcome[1]) = LinkOf(slot, outcome[1])
      /\ index = IndexUpTo(n) /\ Img!EntryCount(Image) = EntryCount(file)
  BY EntryMatches, ImageIs DEF ScanShows
<1>2. n \in Listed <=> outcome # << >> /\ Link(outcome[1]) # << >>
  <2>1. n \in Listed <=> slots.kind # "empty" /\ Img!Decode(Image, n).name # Img!NoName
    BY <1>1 DEF Img!NamedEntries, Img!HasRecord
  <2>2. CASE slots.kind = "empty"
    BY <1>1, <2>1, <2>2 DEF Matches
  <2>3. CASE slots.kind = "bad"
    BY <1>1, <2>1, <2>3 DEF Matches, Img!Decode
  <2>4. CASE slots.kind = "record"
    <3>1. Img!Decode(Image, n).name = slots.name
      BY <2>4 DEF Img!Decode
    <3>2. \A x : <<x>> # Img!NoName
      BY DEF Img!NoName
    <3> QED
      BY <1>1, <2>1, <2>4, <3>1, <3>2 DEF Matches
  <2> QED
    BY <1>1, <2>2, <2>3, <2>4 DEF Matches
<1>3. CASE n \notin Listed
  <2>1. Indexed = index
    BY <1>2, <1>3 DEF Indexed
  <2>2. Before(n + 1) = Before(n)
    <3>1. \A k \in Listed : k \in Nat
      BY <1>1 DEF Img!NamedEntries
    <3>2. \A k \in Listed : k < n + 1 <=> k < n
      BY <1>1, <1>3, <3>1
    <3> QED
      BY <3>2
  <2> QED
    BY <1>1, <2>1, <2>2 DEF IndexUpTo
<1>4. CASE n \in Listed
  <2>1. outcome # << >> /\ Link(outcome[1]) # << >> /\ slots.kind = "record"
    BY <1>1, <1>2, <1>4 DEF Matches
  <2> DEFINE link == Link(outcome[1])[1]
             node == Img!Node(link.name, link.parent_entry, link.parent_seq, outcome[1].sequence)
  <2>2. Img!BuildResolver(Image)[n] = node
    <3>1. Img!Decode(Image, n) =
             [entry |-> n, in_use |-> slots.in_use, sequence |-> slots.sequence,
              name |-> <<link.name>>, parent_entry |-> link.parent_entry,
              parent_seq |-> link.parent_seq, streams |-> slots.streams]
      BY <1>1, <2>1 DEF Matches, Img!Decode
    <3>2. outcome[1].sequence = slots.sequence
      BY <1>1, <2>1 DEF Matches
    <3> DEFINE rec == Img!Decode(Image, n)
    <3>3. Img!BuildResolver(Image)[n]
             = Img!Node(rec.name[1], rec.parent_entry, rec.parent_seq, rec.sequence)
      BY <1>4 DEF Img!BuildResolver
    <3>4. /\ rec.name[1] = link.name /\ rec.parent_entry = link.parent_entry
          /\ rec.parent_seq = link.parent_seq /\ rec.sequence = outcome[1].sequence
      BY <3>1, <3>2
    <3> HIDE DEF rec
    <3> QED
      BY <3>3, <3>4
  <2>3. Indexed = Put(index, n, node)
    BY <2>1 DEF Indexed
  <2>4. Before(n + 1) = Before(n) \cup {n}
    <3>1. \A k \in Listed : k \in Nat
      BY <1>1 DEF Img!NamedEntries
    <3>2. \A k \in Listed : k < n + 1 <=> k < n \/ k = n
      BY <1>1, <3>1
    <3> QED
      BY <1>4, <3>2
  <2>5. DOMAIN index = Before(n) /\ \A k \in Before(n) : index[k] = Img!BuildResolver(Image)[k]
    BY <1>1 DEF IndexUpTo
  <2> HIDE DEF node, Before
  <2>6. n \notin Before(n)
    BY <1>1 DEF Before
  <2>7. IndexUpTo(n + 1) = [e \in Before(n + 1) |-> Img!BuildResolver(Image)[e]]
    BY DEF IndexUpTo, Before
  <2>8. Put(index, n, node) = [k \in Before(n + 1) |-> IF k = n THEN node ELSE index[k]]
    BY <2>4, <2>5 DEF Put
  <2>9. \A k \in Before(n + 1) :
           Img!BuildResolver(Image)[k] = IF k = n THEN node ELSE index[k]
    BY <2>2, <2>4, <2>5
  <2> QED
    BY <2>3, <2>7, <2>8, <2>9
<1> QED
  BY <1>3, <1>4

\* The last entry completes the index, and the root has a node.
LEMMA CompletedShows ==
    ASSUME ScanFits, ScanShows, task = "index", phase = "done", LastEntry
    PROVE  Img!BuildResolver(Image)
              = IF Img!ROOT_ENTRY \in DOMAIN Indexed THEN Indexed
                ELSE Put(Indexed, Img!ROOT_ENTRY, Img!DefaultRootNode)
<1> DEFINE Listed == Img!NamedEntries(Image)
           full == Img!BuildResolver(Image)
           root == Img!ROOT_ENTRY
<1>1. n + 1 = EntryCount(file) /\ n \in Nat /\ Img!EntryCount(Image) = EntryCount(file)
  BY ImageIs DEF LastEntry, ScanFits, ScanTypeOK
<1>2. {k \in Listed : k < n + 1} = Listed
  BY <1>1 DEF Img!NamedEntries
<1>3. Indexed = [e \in Listed |-> full[e]]
  BY <1>2, IndexedShows DEF IndexUpTo
<1>4. full = [e \in Listed \cup {root} |-> full[e]]
  BY DEF Img!BuildResolver
<1>5. root \notin Listed => full[root] = Img!DefaultRootNode
  BY DEF Img!BuildResolver
<1> HIDE DEF Listed, full, root
<1>6. CASE root \in Listed
  <2>1. Listed \cup {root} = Listed
    BY <1>6
  <2> QED
    BY <1>3, <1>4, <1>6, <2>1 DEF root, full
<1>7. CASE root \notin Listed
  <2>1. DOMAIN Indexed = Listed
    BY <1>3
  <2>2. Put(Indexed, root, Img!DefaultRootNode)
           = [k \in Listed \cup {root} |-> IF k = root THEN Img!DefaultRootNode ELSE Indexed[k]]
    BY <2>1 DEF Put
  <2>3. \A k \in Listed \cup {root} :
           full[k] = IF k = root THEN Img!DefaultRootNode ELSE Indexed[k]
    BY <1>3, <1>5, <1>7
  <2> QED
    BY <1>4, <1>7, <2>1, <2>2, <2>3 DEF root, full
<1> QED
  BY <1>6, <1>7

\* What the image says of a record's streams is a number.
LEMMA StreamsAreNat ==
    ASSUME NEW s, IsSlot(s), NoWrap(s), ImageSlot(s).kind = "record"
    PROVE  ImageSlot(s).streams \in Nat
<1>1. s.parse = "entry" /\ ImageSlot(s) = ImageRecord(s)
  BY DEF ImageSlot, Img!EmptySlot, Img!BadSlot, IsSlot, ParseResults
<1>2. SeenOf(s) \in Seq(Nat)
  BY <1>1, ChainTyped DEF SeenOf
<1>3. LastOf(Unnamed(s, SeenOf(s))) \in Seq(Nat) /\ Named(s, SeenOf(s)) \in Seq(Nat)
  BY <1>2, ThoseIs, LastOfIs DEF Unnamed, Named
<1>4. Len(Streams(s, SeenOf(s))) \in Nat
  BY <1>3 DEF Streams
<1>5. ImageRecord(s).streams = Len(Streams(s, SeenOf(s)))
  BY DEF ImageRecord, SeenOf, Read, Img!RecordSlot
<1> QED
  BY <1>1, <1>4, <1>5

\* An entry without streams has one row all the same.
LEMMA MaxWithOne ==
    ASSUME NEW k \in Nat
    PROVE  Max({1, k}) = IF k = 0 THEN 1 ELSE k
<1> DEFINE m == IF k = 0 THEN 1 ELSE k
           S == {1, k}
<1>1. m \in S /\ \A y \in S : m >= y
  OBVIOUS
<1>2. \A x \in S : (\A y \in S : x >= y) => x = m
  OBVIOUS
<1> HIDE DEF m, S
<1>3. Max(S) = m
  BY <1>1, <1>2 DEF Max
<1> QED
  BY <1>3 DEF m, S

\* How many rows an entry of the image has.
RowCount(e) ==
    IF ~Img!HasRecord(Image, e) \/ (mode = "allocated" /\ ~Img!Decode(Image, e).in_use) THEN 0
    ELSE IF mode # "streams" \/ Img!Decode(Image, e).streams = 0 THEN 1
    ELSE Img!Decode(Image, e).streams

ImageRow(e) ==
    <<e, Img!Decode(Image, e).in_use, Img!Resolve(Img!BuildResolver(Image), e, MAX_DEPTH)>>

\* The rows of an entry of the image: so many, and all the same.
LEMMA ImageRowsIs ==
    ASSUME ScanFits, NEW e \in 0..(EntryCount(file) - 1)
    PROVE  /\ RowCount(e) \in Nat
           /\ ImageRows(Image, e) = [i \in 1..RowCount(e) |-> ImageRow(e)]
<1>1. e \in Nat /\ Img!Slot(Image, e) = ImageSlot(Slice(file, e))
  BY ImageIs
<1>2. IsSlot(Slice(file, e)) /\ NoWrap(Slice(file, e))
  BY <1>1, SliceIs DEF ScanFits
<1>3. Img!HasRecord(Image, e) => Img!Decode(Image, e).streams \in Nat
  <2>1. SUFFICES ASSUME Img!Slot(Image, e).kind # "empty"
                 PROVE  Img!Decode(Image, e).streams \in Nat
    BY DEF Img!HasRecord
  <2>2. CASE Img!Slot(Image, e).kind = "bad"
    BY <2>2 DEF Img!Decode
  <2>3. CASE Img!Slot(Image, e).kind # "bad"
    <3>1. Img!Slot(Image, e).kind = "record"
      BY <1>1, <1>2, <2>1, <2>3, SlotMatches DEF Matches
    <3>2. Img!Slot(Image, e).streams \in Nat
      BY <1>1, <1>2, <3>1, StreamsAreNat
    <3> QED
      BY <2>3, <3>2 DEF Img!Decode
  <2> QED
    BY <2>2, <2>3
<1> DEFINE record == Img!Decode(Image, e)
           path == Img!Resolve(Img!BuildResolver(Image), e, MAX_DEPTH)
<1>4. ImageRows(Image, e) =
         IF ~Img!HasRecord(Image, e) \/ (mode = "allocated" /\ ~record.in_use) THEN << >>
         ELSE [i \in 1..(IF mode = "streams" THEN Max({1, record.streams}) ELSE 1)
                 |-> <<e, record.in_use, path>>]
  BY DEF ImageRows
<1>5. ImageRow(e) = <<e, record.in_use, path>>
  BY DEF ImageRow
<1>6. Img!HasRecord(Image, e) =>
         Max({1, record.streams}) = IF record.streams = 0 THEN 1 ELSE record.streams
  BY <1>3, MaxWithOne
<1>7. RowCount(e) = IF ~Img!HasRecord(Image, e) \/ (mode = "allocated" /\ ~record.in_use) THEN 0
                    ELSE IF mode = "streams" THEN Max({1, record.streams}) ELSE 1
  BY <1>6 DEF RowCount
<1>8. RowCount(e) \in Nat
  BY <1>3, <1>6, <1>7
<1>9. << >> = [i \in 1..0 |-> ImageRow(e)]
  OBVIOUS
<1> HIDE DEF record, path
<1> QED
  BY <1>4, <1>5, <1>7, <1>8, <1>9

\* The rows of one entry more come behind the others.
LEMMA RowsUpToIs ==
    ASSUME ScanFits
    PROVE  /\ RowsUpTo(0) = << >>
           /\ \A m \in 0..(EntryCount(file) - 1) :
                 RowsUpTo(m + 1) = RowsUpTo(m) \o ImageRows(Image, m)
<1> DEFINE S == {ImageRow(e) : e \in Nat}
           Each(m) == [i \in 1..m |-> ImageRows(Image, i - 1)]
<1>1. EntryCount(file) \in Nat
  BY ImageIs
<1>2. \A e \in 0..(EntryCount(file) - 1) : ImageRows(Image, e) \in Seq(S)
  BY ImageRowsIs
<1>3. RowsUpTo(0) = << >>
  BY DEF RowsUpTo, FlattenSeq
<1>4. ASSUME NEW m \in 0..(EntryCount(file) - 1)
      PROVE  RowsUpTo(m + 1) = RowsUpTo(m) \o ImageRows(Image, m)
  <2>1. m \in Nat /\ \A i \in 1..(m + 1) : i - 1 \in 0..(EntryCount(file) - 1)
    BY <1>1
  <2>2. Each(m) \in Seq(Seq(S))
    BY <1>2, <2>1
  <2>3. Each(m + 1) = Append(Each(m), ImageRows(Image, m))
    <3> DEFINE R(e) == ImageRows(Image, e)
    <3>1. Len(Each(m)) = m /\ (m + 1) - 1 = m
      BY <2>1
    <3> HIDE DEF R
    <3>2. Append([i \in 1..m |-> R(i - 1)], R(m)) = [i \in 1..(m + 1) |-> R(i - 1)]
      <4> DEFINE q == [i \in 1..m |-> R(i - 1)]
                 Q == {R(e) : e \in Nat}
      <4>1. /\ q \in Seq(Q) /\ Len(q) = m /\ \A i \in 1..m : q[i] = R(i - 1)
            /\ R(m) \in Q
        BY <2>1
      <4> HIDE DEF q, Q
      <4>2. Append(q, R(m)) = [i \in 1..(m + 1) |-> IF i = m + 1 THEN R(m) ELSE q[i]]
        BY <4>1, AppendIs
      <4>3. \A i \in 1..(m + 1) : (IF i = m + 1 THEN R(m) ELSE q[i]) = R(i - 1)
        BY <2>1, <3>1, <4>1
      <4>4. Append(q, R(m)) = [i \in 1..(m + 1) |-> R(i - 1)]
        BY <4>2, <4>3
      <4> QED
        BY <4>4 DEF q
    <3> QED
      BY <3>2 DEF R
  <2>4. ImageRows(Image, m) \in Seq(S)
    BY <1>2
  <2> HIDE DEF S, Each
  <2>5. FlattenSeq(Each(m + 1)) = FlattenSeq(Each(m)) \o ImageRows(Image, m)
    BY <2>2, <2>3, <2>4, FlattenAppend
  <2> QED
    BY <2>5 DEF RowsUpTo, Each
<1> QED
  BY <1>3, <1>4

\* What is emitted of the entry are the rows of the image's.
LEMMA EmittedShows ==
    ASSUME ScanFits, ScanShows, task = "emit", phase = "done"
    PROVE  ShownRows(Emitted) = ImageRows(Image, n)
<1> DEFINE slots == Img!Slot(Image, n)
           record == Img!Decode(Image, n)
           shown == StreamsShown(outcome[1].view)
           data == outcome[1].view.primary \o outcome[1].view.ads
           none == outcome = << >> \/ (mode = "allocated" /\ ~outcome[1].in_use)
<1>1. /\ n \in 0..(EntryCount(file) - 1) /\ Matches(slots, slot, outcome)
      /\ index = Img!BuildResolver(Image)
  BY EntryMatches DEF ScanShows
<1>2. /\ Img!HasRecord(Image, n) <=> outcome # << >>
      /\ outcome # << >> => record.in_use = outcome[1].in_use /\ record.streams = Len(data)
  BY <1>1 DEF Matches, Img!HasRecord, Img!Decode
<1>3. /\ RowCount(n) \in Nat /\ ImageRows(Image, n) = [i \in 1..RowCount(n) |-> ImageRow(n)]
  BY <1>1, ImageRowsIs
<1>4. outcome # << >> => data \in Seq(Nat)
  BY DEF ScanFits, DecodeFits, IsView
<1>5. CASE none
  <2>1. Emitted = << >> /\ RowCount(n) = 0
    BY <1>2, <1>5 DEF Emitted, RowCount
  <2>2. Len(<< >>) = 0
    OBVIOUS
  <2> QED
    BY <1>3, <2>1, <2>2 DEF ShownRows
<1>6. CASE ~none
  <2>1. RowCount(n) = IF mode # "streams" \/ Len(data) = 0 THEN 1 ELSE Len(data)
    BY <1>2, <1>6 DEF RowCount
  <2>2. Len(shown) = RowCount(n)
    <3>1. CASE mode # "streams" \/ data = << >>
      <4>1. shown = <<outcome[1].view.primary>> /\ Len(shown) = 1
        BY <3>1 DEF StreamsShown
      <4> QED
        BY <1>4, <1>6, <2>1, <3>1, <4>1
    <3>2. CASE ~(mode # "streams" \/ data = << >>)
      <4>1. shown = [i \in 1..Len(data) |-> <<data[i]>>]
        BY <3>2 DEF StreamsShown
      <4>2. Len(data) \in Nat /\ Len(data) # 0
        <5>1. data \in Seq(Nat) /\ data # << >>
          BY <1>4, <1>6, <3>2
        <5> HIDE DEF data
        <5> QED
          BY <5>1
      <4> HIDE DEF data, shown
      <4>3. Len(shown) = Len(data)
        BY <4>1, <4>2
      <4> QED
        BY <2>1, <3>2, <4>2, <4>3
    <3> QED
      BY <3>1, <3>2
  <2>3. Emitted = [i \in 1..Len(shown) |-> Row(outcome[1], shown[i])]
    BY <1>6 DEF Emitted
  <2>4. \A stream : Shown(Row(outcome[1], stream)) = ImageRow(n)
    BY <1>1, <1>2, <1>6 DEF Shown, Row, ImageRow
  <2> HIDE DEF shown
  <2>5. /\ Len(Emitted) = RowCount(n)
        /\ \A i \in 1..RowCount(n) : Emitted[i] = Row(outcome[1], shown[i])
    BY <1>3, <2>2, <2>3
  <2>6. \A i \in 1..RowCount(n) : Shown(Emitted[i]) = ImageRow(n)
    BY <2>4, <2>5
  <2> QED
    BY <1>3, <2>5, <2>6 DEF ShownRows
<1> QED
  BY <1>5, <1>6

\* What joined rows show.
LEMMA ShownJoined ==
    ASSUME NEW p, NEW q, IsTuple(p), IsTuple(q)
    PROVE  ShownRows(p \o q) = ShownRows(p) \o ShownRows(q)
<1> DEFINE both == p \o q
           a == ShownRows(p)
           b == ShownRows(q)
<1>1. /\ IsTuple(both) /\ Len(both) = Len(p) + Len(q) /\ Len(p) \in Nat /\ Len(q) \in Nat
      /\ \A i \in 1..Len(p) : both[i] = p[i]
      /\ \A i \in 1..Len(q) : both[Len(p) + i] = q[i]
  BY Joined DEF IsTuple
<1>2. IsTuple(a) /\ IsTuple(b) /\ Len(a) = Len(p) /\ Len(b) = Len(q)
  BY <1>1 DEF ShownRows, IsTuple
<1>3. /\ IsTuple(a \o b) /\ Len(a \o b) = Len(p) + Len(q)
      /\ \A i \in 1..Len(p) : (a \o b)[i] = Shown(p[i])
      /\ \A i \in 1..Len(q) : (a \o b)[Len(p) + i] = Shown(q[i])
  <2>1. /\ \A i \in 1..Len(p) : a[i] = Shown(p[i])
        /\ \A i \in 1..Len(q) : b[i] = Shown(q[i])
    BY DEF ShownRows
  <2> HIDE DEF a, b
  <2> QED
    BY <1>2, <2>1, Joined
<1> DEFINE joined == a \o b
<1>4. ASSUME NEW i \in 1..(Len(p) + Len(q)) PROVE Shown(both[i]) = joined[i]
  <2>1. CASE i \in 1..Len(p)
    BY <1>1, <1>3, <2>1
  <2>2. CASE i \notin 1..Len(p)
    <3>1. i - Len(p) \in 1..Len(q) /\ Len(p) + (i - Len(p)) = i
      BY <1>1, <2>2
    <3>2. /\ both[Len(p) + (i - Len(p))] = q[i - Len(p)]
          /\ joined[Len(p) + (i - Len(p))] = Shown(q[i - Len(p)])
      BY <1>1, <1>3, <3>1
    <3> QED
      BY <3>1, <3>2
  <2> QED
    BY <2>1, <2>2
<1>5. IsTuple(joined) /\ Len(joined) = Len(p) + Len(q)
  BY <1>3
<1> HIDE DEF joined, both
<1>6. ShownRows(both) = joined
  BY <1>1, <1>4, <1>5 DEF ShownRows, IsTuple
<1> QED
  BY <1>6 DEF both, joined

\* Before the first entry there is nothing in the index, and no row.
LEMMA NothingUpToZero ==
    ASSUME ScanFits
    PROVE  << >> = IndexUpTo(0) /\ ShownRows(<< >>) = RowsUpTo(0)
<1>1. \A k \in Img!NamedEntries(Image) : k \in Nat
  BY ImageIs DEF Img!NamedEntries
<1>2. {k \in Img!NamedEntries(Image) : k < 0} = {}
  BY <1>1
<1>3. IndexUpTo(0) = [e \in {} |-> Img!BuildResolver(Image)[e]]
  BY <1>2 DEF IndexUpTo
<1>4. ShownRows(<< >>) = << >>
  BY DEF ShownRows
<1> QED
  BY <1>3, <1>4, RowsUpToIs

\* At the beginning nothing is shown.
LEMMA ScanInitShows ==
    ASSUME ScanInit, ScanFits
    PROVE  ScanShows
<1>1. /\ task = "index" /\ n = 0 /\ index = << >> /\ rows = << >> /\ phase = "parse"
      /\ outcome = << >>
  BY DEF ScanInit, Img!EmptyIndex
<1>2. DecodeShows
  BY <1>1 DEF DecodeShows
<1> QED
  BY <1>1, <1>2, NothingUpToZero DEF ScanShows

\* The next decode begins.
LEMMA LoadShows ==
    ASSUME NEW entry, Load(entry)
    PROVE  DecodeShows' /\ n' = entry
  BY DEF Load, DecodeShows

\* A step of a decode changes neither the index nor the rows.
LEMMA DecodeStepShows ==
    ASSUME ScanFits, ScanShows, DecodeStep
    PROVE  ScanShows'
<1>1. DecodeShows' /\ UNCHANGED scan
  BY StepShows DEF ScanFits, ScanShows, DecodeStep, Next
<1>2. /\ Image' = Image /\ EntryCount(file)' = EntryCount(file) /\ n' = n
      /\ IndexUpTo(n)' = IndexUpTo(n) /\ RowsUpTo(n)' = RowsUpTo(n)
      /\ RowsUpTo(EntryCount(file))' = RowsUpTo(EntryCount(file))
  BY <1>1 DEF scan, Image, IndexUpTo, RowsUpTo, ImageRows
<1>3. Columns' = Columns /\ ShownRows(rows)' = ShownRows(rows)
  BY <1>1 DEF scan, Columns, Column, ShownRows, Shown
<1> QED
  BY <1>1, <1>2, <1>3 DEF ScanShows, scan

\* An entry of the index pass.
LEMMA IndexShows ==
    ASSUME ScanFits, ScanShows, IndexEntry \/ IndexComplete
    PROVE  ScanShows'
<1>1. /\ UNCHANGED <<file, mode, rows, batch>> /\ task = "index" /\ phase = "done"
      /\ rows = << >>
  BY DEF IndexEntry, IndexComplete, Decoded, ScanShows
<1>2. CASE IndexEntry
  <2>1. index' = Indexed /\ Load(n + 1) /\ task' = "index"
    BY <1>1, <1>2 DEF IndexEntry, NextEntry
  <2>2. DecodeShows' /\ n' = n + 1
    BY <2>1, LoadShows
  <2>3. index' = IndexUpTo(n + 1)
    BY <1>1, <2>1, IndexedShows
  <2>4. IndexUpTo(n)' = IndexUpTo(n + 1)
    BY <1>1, <2>2 DEF IndexUpTo, Image
  <2> QED
    BY <1>1, <2>1, <2>2, <2>3, <2>4 DEF ScanShows
<1>3. CASE IndexComplete
  <2>1. Load(0) /\ task' = "emit" /\ LastEntry
    BY <1>3 DEF IndexComplete
  <2>2. DecodeShows' /\ n' = 0
    BY <2>1, LoadShows
  <2>3. index' = Img!BuildResolver(Image)
    BY <1>1, <1>3, <2>1, CompletedShows DEF IndexComplete
  <2>4. Image' = Image
    BY <1>1 DEF Image
  <2>5. ShownRows(rows)' = RowsUpTo(0)
    BY <1>1, NothingUpToZero DEF ShownRows, Shown
  <2>6. RowsUpTo(n)' = RowsUpTo(0)
    BY <1>1, <2>2 DEF RowsUpTo, ImageRows, Image
  <2> QED
    BY <1>1, <2>1, <2>2, <2>3, <2>4, <2>5, <2>6 DEF ScanShows
<1> QED
  BY <1>2, <1>3

\* An entry of the pass that emits the rows.
LEMMA EmitShows ==
    ASSUME ScanFits, ScanShows, EmitEntry \/ EmitComplete
    PROVE  ScanShows'
<1>1. /\ UNCHANGED <<file, mode, index, batch>> /\ task = "emit" /\ phase = "done"
      /\ rows' = rows \o Emitted /\ index = Img!BuildResolver(Image)
      /\ ShownRows(rows) = RowsUpTo(n) /\ n \in 0..(EntryCount(file) - 1)
  BY DEF EmitEntry, EmitComplete, Decoded, ScanShows, ScanFits, ScanTypeOK
<1>2. ShownRows(rows)' = RowsUpTo(n + 1)
  <2>1. IsTuple(rows) /\ IsTuple(Emitted)
    BY EmittedIs DEF ScanFits
  <2>2. ShownRows(rows \o Emitted) = ShownRows(rows) \o ShownRows(Emitted)
    BY <2>1, ShownJoined
  <2>3. ShownRows(Emitted) = ImageRows(Image, n)
    BY <1>1, EmittedShows
  <2>4. RowsUpTo(n + 1) = RowsUpTo(n) \o ImageRows(Image, n)
    BY <1>1, RowsUpToIs
  <2>5. ShownRows(rows)' = ShownRows(rows \o Emitted)
    BY <1>1 DEF ShownRows, Shown
  <2> QED
    BY <1>1, <2>2, <2>3, <2>4, <2>5
<1>3. Image' = Image /\ index' = Img!BuildResolver(Image')
  BY <1>1 DEF Image
<1>4. CASE EmitEntry
  <2>1. Load(n + 1) /\ task' = "emit"
    BY <1>1, <1>4 DEF EmitEntry, NextEntry
  <2>2. DecodeShows' /\ n' = n + 1
    BY <2>1, LoadShows
  <2>3. RowsUpTo(n)' = RowsUpTo(n + 1)
    BY <1>1, <2>2 DEF RowsUpTo, ImageRows, Image
  <2> QED
    BY <1>2, <1>3, <2>1, <2>2, <2>3 DEF ScanShows
<1>5. CASE EmitComplete
  <2>1. UNCHANGED vars /\ task' = "build" /\ n + 1 = EntryCount(file)
    BY <1>5 DEF EmitComplete, LastEntry
  <2>2. DecodeShows'
    BY <2>1, StepShows DEF ScanFits, ScanShows
  <2>3. RowsUpTo(EntryCount(file))' = RowsUpTo(n + 1)
    BY <1>1, <2>1 DEF RowsUpTo, ImageRows, Image
  <2> QED
    BY <1>2, <1>3, <2>1, <2>2, <2>3 DEF ScanShows
<1> QED
  BY <1>4, <1>5

\* The columns are those of the rows.
LEMMA BuildShows ==
    ASSUME ScanFits, ScanShows, BuildBatch
    PROVE  ScanShows'
<1>1. /\ UNCHANGED <<vars, file, mode, n, index, rows>> /\ task = "build" /\ task' = "done"
      /\ batch' = <<Columns>>
  BY DEF BuildBatch
<1>2. DecodeShows'
  BY <1>1, StepShows DEF ScanFits, ScanShows
<1>3. /\ Image' = Image /\ Columns' = Columns /\ ShownRows(rows)' = ShownRows(rows)
      /\ RowsUpTo(EntryCount(file))' = RowsUpTo(EntryCount(file))
  BY <1>1 DEF Image, Columns, Column, ShownRows, Shown, RowsUpTo, ImageRows
<1> QED
  BY <1>1, <1>2, <1>3 DEF ScanShows

\* The index and the rows so far are those of the image's entries behind the scan.
THEOREM ScanShowsAlways ==
    ASSUME \A read \in Reads : FileNoWrap(read[1])
    PROVE  ScanSpec => [](ScanFits /\ ScanShows)
<1>1. ScanInit => ScanFits /\ ScanShows
  BY ScanInitFits, ScanInitShows
<1>2. ScanFits /\ ScanShows /\ [ScanNext]_scanVars => ScanShows'
  <2>1. ASSUME ScanFits, ScanShows, UNCHANGED scanVars PROVE ScanShows'
    <3>1. DecodeShows' /\ UNCHANGED scan
      BY <2>1, StepShows DEF ScanFits, ScanShows, scanVars
    <3>2. /\ Image' = Image /\ EntryCount(file)' = EntryCount(file) /\ n' = n
          /\ IndexUpTo(n)' = IndexUpTo(n) /\ RowsUpTo(n)' = RowsUpTo(n)
          /\ RowsUpTo(EntryCount(file))' = RowsUpTo(EntryCount(file))
      BY <3>1 DEF scan, Image, IndexUpTo, RowsUpTo, ImageRows
    <3>3. Columns' = Columns /\ ShownRows(rows)' = ShownRows(rows)
      BY <3>1 DEF scan, Columns, Column, ShownRows, Shown
    <3> QED
      BY <2>1, <3>1, <3>2, <3>3 DEF ScanShows, scan
  <2> QED
    BY <2>1, DecodeStepShows, IndexShows, EmitShows, BuildShows DEF ScanNext, ScanStep, ScanDone
<1> QED
  BY <1>1, <1>2, ScanFitsAlways, PTL DEF ScanSpec

\* The finished batch shows the rows of the image.
LEMMA ShowsLikeImage ==
    ASSUME ScanFits, ScanShows
    PROVE  ScansLikeImage
<1>1. SUFFICES ASSUME task = "done"
               PROVE  /\ index = Img!BuildResolver(Image)
                      /\ [i \in 1..Len(batch[1].entry) |->
                            <<batch[1].entry[i], batch[1].is_allocated[i], batch[1].full_path[i]>>]
                           = RowsUpTo(EntryCount(file))
  BY DEF ScansLikeImage, Image, RowsUpTo
<1>2. /\ batch = <<Columns>> /\ ShownRows(rows) = RowsUpTo(EntryCount(file))
      /\ index = Img!BuildResolver(Image) /\ Len(rows) \in Nat
  BY <1>1 DEF ScanShows, ScanFits, IsTuple
<1>3. /\ Len(batch[1].entry) = Len(rows)
      /\ \A i \in 1..Len(rows) :
            /\ batch[1].entry[i] = rows[i].entry
            /\ batch[1].is_allocated[i] = rows[i].is_allocated
            /\ batch[1].full_path[i] = rows[i].full_path
  BY <1>2 DEF Columns, Column
<1> QED
  BY <1>2, <1>3 DEF ShownRows, Shown

\* The two passes over a file, decode by decode, make the index and the rows that ReadMft
\* takes for granted of an image of it: every slot is decoded once for each pass, in order,
\* and what a decode leaves behind is settled by the slot alone.
THEOREM ScanIsImage ==
    ASSUME \A read \in Reads : FileNoWrap(read[1])
    PROVE  ScanSpec => []ScansLikeImage
  BY ScanShowsAlways, ShowsLikeImage, PTL

\* A record of a scan that has no diagnostics is all there.
THEOREM ScanRecordsWhole ==
    ASSUME \A read \in Reads : FileNoWrap(read[1])
    PROVE  ScanSpec => []CleanRecordIsWhole
<1>1. ScanFits /\ ScanShows => CleanRecordIsWhole
  BY ShowsIsWhole DEF ScanFits, ScanShows
<1> QED
  BY <1>1, ScanShowsAlways, PTL

-----------------------------------------------------------------------------
(***************************************************************************)
(* The rows, entry by entry: what the scan shows of an entry is settled by *)
(* its slot and the index.                                                 *)
(***************************************************************************)
Found(e) == OutcomeOf(Slice(file, e))

PathOf(e) == Img!Resolve(Img!BuildResolver(Image), e, MAX_DEPTH)

\* Row, of any entry.
RowOf(e, stream) ==
    LET record == Found(e)[1]
        link == LinkOf(Slice(file, e), record)
    IN  [entry        |-> e,
         sequence     |-> record.sequence,
         full_path    |-> PathOf(e),
         file_name    |-> [i \in 1..Len(link) |-> link[i].name],
         is_allocated |-> record.in_use,
         stream       |-> stream,
         diagnostics  |-> Merged(record, PathOf(e))]

Hidden(e) == Found(e) = << >> \/ (mode = "allocated" /\ ~Found(e)[1].in_use)

RowsFor(e) ==
    IF Hidden(e) THEN << >>
    ELSE LET shown == StreamsShown(Found(e)[1].view)
         IN  [i \in 1..Len(shown) |-> RowOf(e, shown[i])]

\* The streams that rows show of an entry, in order.
StreamsIn(q, e) ==
    FlattenSeq([i \in 1..Len(q) |-> IF q[i].entry = e THEN <<q[i].stream>> ELSE << >>])

\* How many entries have their rows.
Gone == IF task = "index" THEN 0 ELSE IF task = "emit" THEN n ELSE EntryCount(file)

RowsShow ==
    /\ \A i \in 1..Len(rows) :
          \E e \in 0..(Gone - 1) : \E k \in 1..Len(RowsFor(e)) : rows[i] = RowsFor(e)[k]
    /\ \A e \in 0..(EntryCount(file) - 1) :
          StreamsIn(rows, e) = IF e < Gone THEN StreamsIn(RowsFor(e), e) ELSE << >>

\* The attributes that a decode shows are offsets.
LEMMA OutcomeTyped ==
    ASSUME NEW s, IsSlot(s), NoWrap(s), OutcomeOf(s) # << >>
    PROVE  /\ OutcomeOf(s)[1].view.primary \in Seq(Nat)
           /\ OutcomeOf(s)[1].view.ads \in Seq(Nat)
<1>1. EmptyView.primary \in Seq(Nat) /\ EmptyView.ads \in Seq(Nat)
  BY DEF EmptyView
<1>2. CASE SoundChain(s) /\ s.parse = "entry"
  <2>1. Read(s) \in Seq(Nat)
    BY <1>2, ChainTyped
  <2>2. ViewOf(s, Read(s)).primary \in Seq(Nat) /\ ViewOf(s, Read(s)).ads \in Seq(Nat)
    BY <2>1, ThoseIs, LastOfIs DEF ViewOf, Unnamed, Named
  <2>3. OutcomeOf(s)[1].view \in {EmptyView, ViewOf(s, Read(s))}
    BY <1>2 DEF OutcomeOf, DiagnosticRecord, Record
  <2> QED
    BY <1>1, <2>2, <2>3
<1>3. CASE ~(SoundChain(s) /\ s.parse = "entry")
  <2>1. OutcomeOf(s)[1].view = EmptyView
    BY <1>3 DEF OutcomeOf, DiagnosticRecord, Record, IsSlot, ParseResults
  <2> QED
    BY <1>1, <2>1
<1> QED
  BY <1>2, <1>3

\* The rows of an entry: none if it is hidden, else one at least, all of its number.
LEMMA RowsForIs ==
    ASSUME ScanFits, NEW e \in 0..(EntryCount(file) - 1)
    PROVE  /\ IsTuple(RowsFor(e))
           /\ \A k \in 1..Len(RowsFor(e)) : RowsFor(e)[k].entry = e
           /\ Hidden(e) => Len(RowsFor(e)) = 0
           /\ ~Hidden(e) =>
                 LET shown == StreamsShown(Found(e)[1].view)
                 IN  /\ Len(shown) \in Nat /\ Len(shown) >= 1
                     /\ Len(RowsFor(e)) = Len(shown)
                     /\ \A k \in 1..Len(shown) : RowsFor(e)[k] = RowOf(e, shown[k])
<1>1. IsSlot(Slice(file, e)) /\ NoWrap(Slice(file, e))
  <2>1. e \in Nat
    BY ImageIs
  <2> QED
    BY <2>1, SliceIs DEF ScanFits
<1>2. CASE Hidden(e)
  <2>1. RowsFor(e) = << >>
    BY <1>2 DEF RowsFor
  <2> QED
    BY <1>2, <2>1 DEF IsTuple
<1>3. CASE ~Hidden(e)
  <2> DEFINE v == Found(e)[1].view
             data == v.primary \o v.ads
             shown == StreamsShown(v)
  <2>1. v.primary \in Seq(Nat) /\ v.ads \in Seq(Nat)
    BY <1>1, <1>3, OutcomeTyped DEF Hidden, Found
  <2>2. data \in Seq(Nat)
    BY <2>1
  <2>3. shown = <<v.primary>> \/ (data # << >> /\ shown = [i \in 1..Len(data) |-> <<data[i]>>])
    BY DEF StreamsShown
  <2>4. RowsFor(e) = [i \in 1..Len(shown) |-> RowOf(e, shown[i])]
    BY <1>3 DEF RowsFor
  <2> HIDE DEF v, data
  <2>5. Len(<<v.primary>>) = 1
    OBVIOUS
  <2>6. data # << >> => Len(data) \in Nat /\ Len(data) >= 1
                        /\ Len([i \in 1..Len(data) |-> <<data[i]>>]) = Len(data)
    BY <2>2
  <2> HIDE DEF shown
  <2>7. Len(shown) \in Nat /\ Len(shown) >= 1
    <3>1. CASE shown = <<v.primary>>
      BY <2>5, <3>1
    <3>2. CASE data # << >> /\ shown = [i \in 1..Len(data) |-> <<data[i]>>]
      BY <2>6, <3>2
    <3> QED
      BY <2>3, <3>1, <3>2
  <2>8. /\ Len(RowsFor(e)) = Len(shown)
        /\ \A k \in 1..Len(shown) : RowsFor(e)[k] = RowOf(e, shown[k])
    BY <2>4, <2>7
  <2>9. \A stream : RowOf(e, stream).entry = e
    BY DEF RowOf
  <2>10. IsTuple(RowsFor(e))
    BY <2>4, <2>7, <2>8 DEF IsTuple
  <2>11. \A k \in 1..Len(RowsFor(e)) : RowsFor(e)[k].entry = e
    BY <2>8, <2>9
  <2> QED
    BY <1>3, <2>7, <2>8, <2>10, <2>11 DEF shown, v
<1> QED
  BY <1>2, <1>3

\* What is emitted of the entry that has been decoded.
LEMMA EmittedIsRowsFor ==
    ASSUME ScanFits, ScanShows, task = "emit", phase = "done"
    PROVE  Emitted = RowsFor(n)
<1>1. /\ outcome = Found(n) /\ slot = Slice(file, n) /\ index = Img!BuildResolver(Image)
  BY DEF ScanShows, DecodeShows, ScanFits, ScanTypeOK, Found
<1>2. CASE Hidden(n)
  BY <1>1, <1>2 DEF Emitted, RowsFor, Hidden
<1>3. CASE ~Hidden(n)
  <2> DEFINE shown == StreamsShown(outcome[1].view)
  <2>1. Emitted = [i \in 1..Len(shown) |-> Row(outcome[1], shown[i])]
    BY <1>1, <1>3 DEF Emitted, Hidden
  <2>2. RowsFor(n) = [i \in 1..Len(shown) |-> RowOf(n, shown[i])]
    BY <1>1, <1>3 DEF RowsFor
  <2>3. \A stream : Row(outcome[1], stream) = RowOf(n, stream)
    BY <1>1 DEF Row, RowOf, PathOf, Link, LinkOf
  <2> QED
    BY <2>1, <2>2, <2>3
<1> QED
  BY <1>2, <1>3

\* Streams of rows, and of more rows behind them.
LEMMA StreamsJoined ==
    ASSUME NEW p, NEW q, IsTuple(p), IsTuple(q), NEW e
    PROVE  StreamsIn(p \o q, e) = StreamsIn(p, e) \o StreamsIn(q, e)
<1> DEFINE S == {p[i].stream : i \in 1..Len(p)} \cup {q[i].stream : i \in 1..Len(q)}
           One(r) == IF r.entry = e THEN <<r.stream>> ELSE << >>
           a == [i \in 1..Len(p) |-> One(p[i])]
           b == [i \in 1..Len(q) |-> One(q[i])]
           both == p \o q
           c == [i \in 1..Len(both) |-> One(both[i])]
<1>1. /\ Len(p) \in Nat /\ Len(q) \in Nat /\ Len(both) = Len(p) + Len(q)
      /\ \A i \in 1..Len(p) : both[i] = p[i]
      /\ \A i \in 1..Len(q) : both[Len(p) + i] = q[i]
  BY Joined DEF IsTuple
<1>2. /\ \A i \in 1..Len(p) : One(p[i]) \in Seq(S)
      /\ \A i \in 1..Len(q) : One(q[i]) \in Seq(S)
  <2>1. /\ \A i \in 1..Len(p) : p[i].stream \in S
        /\ \A i \in 1..Len(q) : q[i].stream \in S
    OBVIOUS
  <2>2. << >> \in Seq(S) /\ \A x \in S : <<x>> \in Seq(S)
    OBVIOUS
  <2> HIDE DEF S
  <2> QED
    BY <2>1, <2>2
<1> HIDE DEF One, S, both
<1>3. a \in Seq(Seq(S)) /\ b \in Seq(Seq(S)) /\ Len(a) = Len(p) /\ Len(b) = Len(q)
  BY <1>1, <1>2
<1>4. c = a \o b
  <2> DEFINE joined == a \o b
  <2>1. /\ IsTuple(joined) /\ Len(joined) = Len(p) + Len(q)
        /\ \A i \in 1..Len(p) : joined[i] = a[i]
        /\ \A i \in 1..Len(q) : joined[Len(p) + i] = b[i]
    <3>1. IsTuple(a) /\ IsTuple(b)
      BY <1>1 DEF IsTuple
    <3>2. Len(a) = Len(p) /\ Len(b) = Len(q)
      BY <1>3
    <3> HIDE DEF a, b
    <3>3. /\ IsTuple(a \o b) /\ Len(a \o b) = Len(a) + Len(b)
          /\ \A i \in 1..Len(a) : (a \o b)[i] = a[i]
          /\ \A i \in 1..Len(b) : (a \o b)[Len(a) + i] = b[i]
      BY <3>1, Joined
    <3> QED
      BY <3>2, <3>3
  <2>2. ASSUME NEW i \in 1..(Len(p) + Len(q)) PROVE One(both[i]) = joined[i]
    <3>1. CASE i \in 1..Len(p)
      BY <1>1, <2>1, <3>1
    <3>2. CASE i \notin 1..Len(p)
      <4>1. i - Len(p) \in 1..Len(q) /\ Len(p) + (i - Len(p)) = i
        BY <1>1, <3>2
      <4>2. both[i] = q[i - Len(p)] /\ joined[i] = b[i - Len(p)]
        BY <1>1, <2>1, <4>1
      <4> QED
        BY <4>1, <4>2
    <3> QED
      BY <3>1, <3>2
  <2> HIDE DEF joined
  <2>3. joined = [i \in 1..(Len(p) + Len(q)) |-> joined[i]]
    BY <2>1 DEF IsTuple
  <2>4. c = joined
    BY <1>1, <2>2, <2>3
  <2> QED
    BY <2>4 DEF joined
<1>5. FlattenSeq(c) = FlattenSeq(a) \o FlattenSeq(b)
  <2> HIDE DEF a, b, c
  <2> QED
    BY <1>3, <1>4, FlattenJoined
<1> QED
  BY <1>5 DEF StreamsIn, One, both

\* Rows of other entries show none of its streams, rows of its own show them all.
LEMMA StreamsOfOne ==
    ASSUME NEW q, IsTuple(q), NEW e
    PROVE  /\ (\A i \in 1..Len(q) : q[i].entry # e) => StreamsIn(q, e) = << >>
           /\ (\A i \in 1..Len(q) : q[i].entry = e) =>
                 StreamsIn(q, e) = [i \in 1..Len(q) |-> q[i].stream]
<1> DEFINE S == {q[i].stream : i \in 1..Len(q)}
           r == [i \in 1..Len(q) |-> q[i].stream]
<1>1. Len(q) \in Nat
  BY DEF IsTuple
<1>2. r \in Seq(S) /\ Len(r) = Len(q) /\ \A i \in 1..Len(q) : r[i] = q[i].stream
  BY <1>1
<1> HIDE DEF r, S
<1>3. /\ FlattenSeq([i \in 1..Len(r) |-> <<r[i]>>]) = r
      /\ FlattenSeq([i \in 1..Len(r) |-> << >>]) = << >>
  BY <1>2, FlattenPieces
<1>4. ASSUME \A i \in 1..Len(q) : q[i].entry # e PROVE StreamsIn(q, e) = << >>
  <2>1. [i \in 1..Len(q) |-> IF q[i].entry = e THEN <<q[i].stream>> ELSE << >>]
           = [i \in 1..Len(r) |-> << >>]
    BY <1>2, <1>4
  <2> QED
    BY <1>3, <2>1 DEF StreamsIn
<1>5. ASSUME \A i \in 1..Len(q) : q[i].entry = e PROVE StreamsIn(q, e) = r
  <2>1. [i \in 1..Len(q) |-> IF q[i].entry = e THEN <<q[i].stream>> ELSE << >>]
           = [i \in 1..Len(r) |-> <<r[i]>>]
    BY <1>2, <1>5
  <2> QED
    BY <1>3, <2>1 DEF StreamsIn
<1> QED
  BY <1>4, <1>5 DEF r

\* Steps that show no rows.
LEMMA NoRowsShow ==
    ASSUME ScanFits, RowsShow, UNCHANGED <<file, mode, rows>>, Gone' = Gone
    PROVE  RowsShow'
<1>1. /\ EntryCount(file)' = EntryCount(file)
      /\ \A e \in Nat : RowsFor(e)' = RowsFor(e)
  <2>1. Image' = Image
    BY DEF Image
  <2> QED
    BY <2>1 DEF RowsFor, Hidden, Found, RowOf, PathOf, StreamsShown
<1>2. \A e : StreamsIn(rows, e)' = StreamsIn(rows, e)
  BY DEF StreamsIn
<1>3. EntryCount(file) \in Nat /\ \A e \in 0..(EntryCount(file) - 1) : e \in Nat
  BY ImageIs
<1>4. \A e \in Nat : StreamsIn(RowsFor(e), e)' = StreamsIn(RowsFor(e), e)
  BY <1>1 DEF StreamsIn
<1>5. Gone \in Nat
  BY <1>3 DEF Gone, ScanFits, ScanTypeOK
<1>6. \A e \in 0..(Gone - 1) : e \in Nat
  BY <1>5
<1>7. (\A i \in 1..Len(rows) :
          \E e \in 0..(Gone - 1) : \E k \in 1..Len(RowsFor(e)) : rows[i] = RowsFor(e)[k])'
  BY <1>1, <1>6 DEF RowsShow
<1>8. (\A e \in 0..(EntryCount(file) - 1) :
          StreamsIn(rows, e) = IF e < Gone THEN StreamsIn(RowsFor(e), e) ELSE << >>)'
  BY <1>1, <1>2, <1>3, <1>4 DEF RowsShow
<1> QED
  BY <1>7, <1>8 DEF RowsShow

\* The rows of one entry more.
LEMMA EmitRowsShow ==
    ASSUME ScanFits, ScanShows, RowsShow, EmitEntry \/ EmitComplete
    PROVE  RowsShow'
<1>1. /\ UNCHANGED <<file, mode, index, batch>> /\ task = "emit" /\ phase = "done"
      /\ rows' = rows \o Emitted /\ n \in 0..(EntryCount(file) - 1)
  BY DEF EmitEntry, EmitComplete, Decoded, ScanFits, ScanTypeOK
<1>2. EntryCount(file) \in Nat /\ n \in Nat /\ Gone = n
  BY <1>1, ImageIs DEF Gone
<1>3. Gone' = n + 1
  <2>1. CASE EmitEntry
    BY <1>1, <2>1 DEF EmitEntry, NextEntry, Load, Gone
  <2>2. CASE EmitComplete
    BY <1>1, <2>2 DEF EmitComplete, LastEntry, Gone
  <2> QED
    BY <2>1, <2>2
<1>4. /\ EntryCount(file)' = EntryCount(file)
      /\ \A e \in Nat : RowsFor(e)' = RowsFor(e)
  <2>1. Image' = Image
    BY <1>1 DEF Image
  <2> QED
    BY <1>1, <2>1 DEF RowsFor, Hidden, Found, RowOf, PathOf, StreamsShown
<1> DEFINE made == RowsFor(n)
           after == rows \o made
<1>5. /\ IsTuple(rows) /\ IsTuple(made) /\ rows' = after
      /\ \A k \in 1..Len(made) : made[k].entry = n
  BY <1>1, EmittedIsRowsFor, RowsForIs DEF ScanFits
<1>6. /\ Len(rows) \in Nat /\ Len(made) \in Nat /\ Len(after) = Len(rows) + Len(made)
      /\ \A i \in 1..Len(rows) : after[i] = rows[i]
      /\ \A k \in 1..Len(made) : after[Len(rows) + k] = made[k]
  <2> HIDE DEF made
  <2> QED
    BY <1>5, Joined DEF IsTuple
<1>7. ASSUME NEW i \in 1..Len(after)
      PROVE  \E e \in 0..n : \E k \in 1..Len(RowsFor(e)) : after[i] = RowsFor(e)[k]
  <2>1. CASE i \in 1..Len(rows)
    <3>1. PICK e \in 0..(n - 1) : \E k \in 1..Len(RowsFor(e)) : rows[i] = RowsFor(e)[k]
      BY <1>2, <2>1 DEF RowsShow
    <3>2. after[i] = rows[i] /\ e \in 0..n
      BY <1>2, <1>6, <2>1
    <3> QED
      BY <3>1, <3>2
  <2>2. CASE i \notin 1..Len(rows)
    <3>1. i - Len(rows) \in 1..Len(made) /\ Len(rows) + (i - Len(rows)) = i
      BY <1>6, <2>2
    <3>2. after[i] = RowsFor(n)[i - Len(rows)] /\ n \in 0..n
      BY <1>2, <1>6, <3>1
    <3> QED
      BY <3>1, <3>2
  <2> QED
    BY <2>1, <2>2
<1>8. ASSUME NEW e \in 0..(EntryCount(file) - 1)
      PROVE  StreamsIn(after, e) = IF e < n + 1 THEN StreamsIn(RowsFor(e), e) ELSE << >>
  <2>0. e \in Nat
    BY <1>2
  <2>1. StreamsIn(after, e) = StreamsIn(rows, e) \o StreamsIn(made, e)
    BY <1>5, StreamsJoined
  <2>2. StreamsIn(rows, e) = IF e < n THEN StreamsIn(RowsFor(e), e) ELSE << >>
    BY <1>2 DEF RowsShow
  <2>3. /\ e # n => StreamsIn(made, e) = << >>
        /\ e < n => \E S : StreamsIn(RowsFor(e), e) \in Seq(S)
        /\ e = n => \E S : StreamsIn(made, e) \in Seq(S)
    <3>1. ASSUME e # n PROVE StreamsIn(made, e) = << >>
      <4>1. \A k \in 1..Len(made) : made[k].entry # e
        BY <1>5, <3>1
      <4> HIDE DEF made
      <4> QED
        BY <1>5, <4>1, StreamsOfOne
    <3>2. \E S : StreamsIn(RowsFor(e), e) \in Seq(S)
      <4> DEFINE own == RowsFor(e)
      <4>1. IsTuple(own) /\ \A k \in 1..Len(own) : own[k].entry = e
        BY RowsForIs
      <4> HIDE DEF own
      <4>2. StreamsIn(own, e) = [k \in 1..Len(own) |-> own[k].stream]
        BY <4>1, StreamsOfOne
      <4>3. Len(own) \in Nat
        BY <4>1 DEF IsTuple
      <4>4. [k \in 1..Len(own) |-> own[k].stream] \in Seq({own[k].stream : k \in 1..Len(own)})
        BY <4>3
      <4> QED
        BY <4>2, <4>4 DEF own
    <3> QED
      BY <3>1, <3>2
  <2> DEFINE earlier == StreamsIn(rows, e)
             own == StreamsIn(RowsFor(e), e)
             now == StreamsIn(made, e)
  <2>4. e = n => now = own
    OBVIOUS
  <2> HIDE DEF earlier, own, now
  <2>5. \A S : \A r \in Seq(S) : r \o << >> = r /\ << >> \o r = r
    OBVIOUS
  <2>6. << >> \o << >> = << >>
    OBVIOUS
  <2>7. earlier \o now = IF e < n + 1 THEN own ELSE << >>
    <3>1. CASE e < n
      <4>1. earlier = own /\ now = << >> /\ e < n + 1 /\ \E S : own \in Seq(S)
        BY <1>2, <2>0, <2>2, <2>3, <3>1 DEF earlier, own, now
      <4> QED
        BY <2>5, <4>1
    <3>2. CASE e = n
      <4>1. earlier = << >> /\ now = own /\ e < n + 1 /\ \E S : now \in Seq(S)
        BY <1>2, <2>0, <2>2, <2>3, <2>4, <3>2 DEF earlier, own, now
      <4> QED
        BY <2>5, <4>1
    <3>3. CASE n < e
      <4>1. earlier = << >> /\ now = << >> /\ ~(e < n + 1)
        BY <1>2, <2>0, <2>2, <2>3, <3>3 DEF earlier, now
      <4> QED
        BY <2>6, <4>1
    <3> QED
      BY <1>2, <2>0, <3>1, <3>2, <3>3
  <2> QED
    BY <2>1, <2>7 DEF earlier, own, now
<1> HIDE DEF made
<1>9. (\A i \in 1..Len(rows) :
          \E e \in 0..(Gone - 1) : \E k \in 1..Len(RowsFor(e)) : rows[i] = RowsFor(e)[k])'
  <2>1. rows' = after /\ 0..(Gone' - 1) = 0..n /\ \A e \in 0..n : e \in Nat
    BY <1>2, <1>3, <1>5
  <2> HIDE DEF after
  <2>2. \A i \in 1..Len(rows') :
           \E e \in 0..n : \E k \in 1..Len(RowsFor(e)) : rows'[i] = RowsFor(e)[k]
    BY <1>7, <2>1
  <2>3. \A e \in 0..n : RowsFor(e)' = RowsFor(e)
    BY <1>4, <2>1
  <2>4. \A i \in 1..Len(rows') :
           \E e \in 0..n : \E k \in 1..Len(RowsFor(e)') : rows'[i] = RowsFor(e)'[k]
    <3> SUFFICES ASSUME NEW i \in 1..Len(rows')
                 PROVE  \E e \in 0..n : \E k \in 1..Len(RowsFor(e)') : rows'[i] = RowsFor(e)'[k]
      OBVIOUS
    <3>1. PICK e \in 0..n : \E k \in 1..Len(RowsFor(e)) : rows'[i] = RowsFor(e)[k]
      BY <2>2
    <3>2. RowsFor(e)' = RowsFor(e)
      BY <2>3
    <3> QED
      BY <3>1, <3>2
  <2> QED
    BY <2>1, <2>4
<1>10. (\A e \in 0..(EntryCount(file) - 1) :
           StreamsIn(rows, e) = IF e < Gone THEN StreamsIn(RowsFor(e), e) ELSE << >>)'
  <2>1. rows' = after /\ \A e \in 0..(EntryCount(file) - 1) : e \in Nat
    BY <1>2, <1>5
  <2>2. /\ \A e : StreamsIn(rows, e)' = StreamsIn(after, e)
        /\ \A e \in Nat : StreamsIn(RowsFor(e), e)' = StreamsIn(RowsFor(e), e)
    BY <1>4, <2>1 DEF StreamsIn
  <2> HIDE DEF after
  <2> QED
    BY <1>3, <1>4, <1>8, <2>1, <2>2
<1> QED
  BY <1>9, <1>10 DEF RowsShow

\* The rows so far are those of the entries behind the scan, each entry's in its place: with
\* ScanShows the inductive invariant from which the finished batch is read off.
THEOREM RowsShowAlways ==
    ASSUME \A read \in Reads : FileNoWrap(read[1])
    PROVE  ScanSpec => [](ScanFits /\ ScanShows /\ RowsShow)
<1>1. ScanInit /\ ScanFits => RowsShow
  <2> SUFFICES ASSUME ScanInit, ScanFits PROVE RowsShow
    OBVIOUS
  <2>1. rows = << >> /\ Gone = 0 /\ EntryCount(file) \in Nat
    BY ImageIs DEF ScanInit, Gone
  <2>2. \A e : StreamsIn(<< >>, e) = << >>
    <3> SUFFICES ASSUME NEW e PROVE StreamsIn(<< >>, e) = << >>
      OBVIOUS
    <3>1. IsTuple(<< >>) /\ Len(<< >>) = 0
      BY DEF IsTuple
    <3>2. \A i \in 1..Len(<< >>) : << >>[i].entry # e
      OBVIOUS
    <3> QED
      BY <3>1, <3>2, StreamsOfOne
  <2> QED
    BY <2>1, <2>2 DEF RowsShow
<1>2. ScanFits /\ ScanShows /\ RowsShow /\ [ScanNext]_scanVars => RowsShow'
  <2> SUFFICES ASSUME ScanFits, ScanShows, RowsShow, [ScanNext]_scanVars PROVE RowsShow'
    OBVIOUS
  <2>1. CASE EmitEntry \/ EmitComplete
    BY <2>1, EmitRowsShow
  <2>2. CASE DecodeStep \/ ScanDone \/ UNCHANGED scanVars
    <3>1. UNCHANGED scan
      BY <2>2 DEF DecodeStep, ScanDone, scanVars
    <3>2. Gone' = Gone /\ UNCHANGED <<file, mode, rows>>
      BY <3>1 DEF scan, Gone
    <3> QED
      BY <3>2, NoRowsShow
  <2>3. CASE IndexEntry
    <3>1. Gone' = Gone /\ UNCHANGED <<file, mode, rows>>
      BY <2>3 DEF IndexEntry, Decoded, NextEntry, Gone
    <3> QED
      BY <3>1, NoRowsShow
  <2>4. CASE IndexComplete
    <3>1. Gone' = Gone /\ UNCHANGED <<file, mode, rows>>
      BY <2>4 DEF IndexComplete, Decoded, Load, Gone
    <3> QED
      BY <3>1, NoRowsShow
  <2>5. CASE BuildBatch
    <3>1. Gone' = Gone /\ UNCHANGED <<file, mode, rows>>
      BY <2>5 DEF BuildBatch, Gone
    <3> QED
      BY <3>1, NoRowsShow
  <2> QED
    BY <2>1, <2>2, <2>3, <2>4, <2>5 DEF ScanNext, ScanStep
<1> QED
  BY <1>1, <1>2, ScanShowsAlways, PTL DEF ScanSpec

-----------------------------------------------------------------------------
(***************************************************************************)
(* The finished batch, of a file whose stride is the one it is cut in.     *)
(* Without that, no record need be found: the run StrideLost.              *)
(***************************************************************************)
StrideKept(f) == RecordStride(f) = f.stride

\* The file is cut into its records, and nothing is left of it for another.
LEMMA CutAtRecords ==
    ASSUME NEW f, IsFile(f), StrideKept(f)
    PROVE  /\ EntryCount(f) = Len(f.slots)
           /\ \A e \in 0..(Len(f.slots) - 1) : Slice(f, e) = f.slots[e + 1]
<1>0. \A stride : Plausible(stride) => stride \in Nat /\ stride > 0
  BY DEF Plausible
<1>1. Len(f.slots) \in Nat /\ f.stride \in Nat /\ f.stride > 0 /\ f.rest \in Nat
      /\ f.rest < f.stride
  <2>1. Len(f.slots) \in Nat
    BY DEF IsFile, AreSlots
  <2>2. f.stride \in Nat /\ f.stride > 0 /\ f.rest \in 0..(f.stride - 1)
    BY <1>0 DEF IsFile
  <2> QED
    BY <2>1, <2>2
<1>2. \A a \in Nat, b \in Nat, c \in Nat : b > 0 /\ c < b => (a * b + c) \div b = a
  OBVIOUS
<1>3. EntryCount(f) = Len(f.slots)
  <2>1. EntryCount(f) = (Len(f.slots) * f.stride + f.rest) \div f.stride
    BY DEF EntryCount, StrideKept
  <2> QED
    BY <1>1, <1>2, <2>1
<1> QED
  BY <1>1, <1>3 DEF Slice, StrideKept

\* Of some offsets, those in S: the first of them, if there is one, and none else.
LEMMA ThoseHold ==
    ASSUME NEW S, NEW q \in Seq(Nat)
    PROVE  LET those == Those(q, S)
           IN  /\ \A i \in 1..Len(those) : those[i] \in S /\ \E j \in 1..Len(q) : q[j] = those[i]
               /\ \A j \in 1..Len(q) : q[j] \in S => \E i \in 1..Len(those) : those[i] = q[j]
<1> DEFINE First(m) == SubSeq(q, 1, m)
           Right(m) ==
              LET those == Those(First(m), S)
              IN  /\ \A i \in 1..Len(those) : those[i] \in S /\ \E j \in 1..m : q[j] = those[i]
                  /\ \A j \in 1..m : q[j] \in S => \E i \in 1..Len(those) : those[i] = q[j]
           T == {m \in Nat : m <= Len(q) => Right(m)}
<1>1. 0 \in T
  <2>1. First(0) = << >>
    OBVIOUS
  <2>2. Those(First(0), S) = << >>
    BY <2>1, ThoseIs
  <2>3. Right(0)
    BY <2>2
  <2> QED
    BY <2>3
<1>2. ASSUME NEW m \in T PROVE m + 1 \in T
  <2> HIDE DEF Right
  <2>1. m \in Nat /\ (m <= Len(q) => Right(m))
    OBVIOUS
  <2>2. SUFFICES ASSUME m + 1 <= Len(q) PROVE Right(m + 1)
    BY <2>1
  <2>3. m <= Len(q) /\ Len(q) \in Nat
    BY <2>1, <2>2
  <2>4. Right(m)
    BY <2>1, <2>3
  <2> DEFINE p == First(m)
             x == q[m + 1]
             before == Those(p, S)
             after == Those(First(m + 1), S)
  <2>5. p \in Seq(Nat) /\ x \in Nat /\ First(m + 1) = Append(p, x)
    BY <2>1, <2>2, <2>3
  <2>6. before \in Seq(Nat) /\ after = IF x \in S THEN Append(before, x) ELSE before
    <3>1. after = Those(Append(p, x), S)
      BY <2>5
    <3> HIDE DEF p, x
    <3>2. /\ Those(p, S) \in Seq(Nat)
          /\ Those(Append(p, x), S) = IF x \in S THEN Append(Those(p, S), x) ELSE Those(p, S)
      BY <2>5, ThoseIs
    <3> QED
      BY <3>1, <3>2
  <2>7. /\ \A i \in 1..Len(before) : before[i] \in S /\ \E j \in 1..m : q[j] = before[i]
        /\ \A j \in 1..m : q[j] \in S => \E i \in 1..Len(before) : before[i] = q[j]
    BY <2>4 DEF Right
  <2> HIDE DEF p, before, after, First
  <2>8. CASE x \notin S
    <3>1. after = before
      BY <2>6, <2>8
    <3>2. /\ \A i \in 1..Len(after) : after[i] \in S /\ \E j \in 1..(m + 1) : q[j] = after[i]
          /\ \A j \in 1..(m + 1) : q[j] \in S => \E i \in 1..Len(after) : after[i] = q[j]
      BY <2>1, <2>7, <2>8, <3>1
    <3> QED
      BY <3>2 DEF Right, after
  <2>9. CASE x \in S
    <3>1. /\ Len(before) \in Nat /\ Len(after) = Len(before) + 1
          /\ \A i \in 1..Len(before) : after[i] = before[i]
          /\ after[Len(before) + 1] = x
      BY <2>6, <2>9
    <3>2. ASSUME NEW i \in 1..Len(after)
          PROVE  after[i] \in S /\ \E j \in 1..(m + 1) : q[j] = after[i]
      <4>1. CASE i = Len(before) + 1
        <5>1. m + 1 \in 1..(m + 1)
          BY <2>1
        <5> QED
          BY <2>9, <3>1, <4>1, <5>1
      <4>2. CASE i # Len(before) + 1
        <5>1. i \in 1..Len(before) /\ \A j \in 1..m : j \in 1..(m + 1)
          BY <2>1, <3>1, <4>2
        <5> QED
          BY <2>7, <3>1, <5>1
      <4> QED
        BY <4>1, <4>2
    <3>3. ASSUME NEW j \in 1..(m + 1), q[j] \in S
          PROVE  \E i \in 1..Len(after) : after[i] = q[j]
      <4>1. CASE j = m + 1
        <5>1. Len(before) + 1 \in 1..Len(after)
          BY <3>1
        <5> QED
          BY <3>1, <4>1, <5>1
      <4>2. CASE j # m + 1
        <5>1. j \in 1..m /\ \A i \in 1..Len(before) : i \in 1..Len(after)
          BY <2>1, <3>1, <4>2
        <5> QED
          BY <2>7, <3>1, <3>3, <5>1
      <4> QED
        BY <4>1, <4>2
    <3> QED
      BY <3>2, <3>3 DEF Right, after
  <2> QED
    BY <2>8, <2>9
<1>3. T = Nat
  <2> HIDE DEF T
  <2>1. T \in SUBSET Nat
    BY DEF T
  <2> QED
    BY <1>1, <1>2, <2>1, Induction
<1>4. Len(q) \in Nat /\ First(Len(q)) = q
  OBVIOUS
<1>5. Right(Len(q))
  <2> HIDE DEF Right
  <2>1. Len(q) \in T
    BY <1>3, <1>4
  <2> QED
    BY <1>4, <2>1
<1> HIDE DEF First
<1> QED
  BY <1>4, <1>5

\* The headers of a sound chain are there.
LEMMA ChainWithin ==
    ASSUME NEW s, IsSlot(s), NoWrap(s), s.parse = "entry", SoundChain(s)
    PROVE  \A i \in 1..Len(Chain(s)) : Chain(s)[i] \in DOMAIN s.header
<1>1. PICK k \in 0..(MAX_ATTRS - 1) :
         /\ \A j \in 0..(k - 1) : IsAttribute(s, Position(s)[j])
         /\ IsTerminator(s, Position(s)[k])
  BY SoundChainEnds
<1>2. k \in Nat /\ Chain(s) = [i \in 1..k |-> Position(s)[i - 1]]
  BY <1>1, ChainEnds, SlotsAssumption
<1>3. Len(Chain(s)) = k
  BY <1>2
<1>4. ASSUME NEW i \in 1..k PROVE Position(s)[i - 1] \in DOMAIN s.header
  <2>1. i - 1 \in Nat /\ i - 1 \in 0..(k - 1)
    BY <1>2
  <2>2. IsAttribute(s, Position(s)[i - 1]) /\ Position(s)[i - 1] \in Reachable(s)
    BY <1>1, <2>1, PositionIs
  <2> QED
    BY <2>2 DEF IsAttribute, Reachable
<1> QED
  BY <1>2, <1>3, <1>4

\* A sound chain has no attribute list exactly if none of its headers is one.
LEMMA NoListOnChain ==
    ASSUME NEW s, IsSlot(s), NoWrap(s), s.parse = "entry", SoundChain(s)
    PROVE  Those(Chain(s), Typed(s, "list")) = << >> <=> ~HoldsList(s, Chain(s))
<1> DEFINE chain == Chain(s)
           S == Typed(s, "list")
           those == Those(chain, S)
<1>1. chain \in Seq(Nat) /\ \A i \in 1..Len(chain) : chain[i] \in DOMAIN s.header
  BY ChainTyped, ChainWithin
<1>2. /\ those \in Seq(Nat)
      /\ \A i \in 1..Len(those) : those[i] \in S /\ \E j \in 1..Len(chain) : chain[j] = those[i]
      /\ \A j \in 1..Len(chain) : chain[j] \in S => \E i \in 1..Len(those) : those[i] = chain[j]
  BY <1>1, ThoseIs, ThoseHold
<1>3. HoldsList(s, chain) <=> \E j \in 1..Len(chain) : chain[j] \in S
  BY <1>1 DEF HoldsList, Typed
<1> HIDE DEF chain, S, those
<1>4. those = << >> <=> Len(those) = 0
  BY <1>2
<1>5. Len(those) \in Nat
  BY <1>2
<1>6. Len(those) # 0 => 1 \in 1..Len(those)
  BY <1>5
<1>7. Len(those) = 0 <=> ~\E j \in 1..Len(chain) : chain[j] \in S
  BY <1>2, <1>5, <1>6
<1> QED
  BY <1>3, <1>4, <1>7 DEF chain, S, those

\* What is shown of a record nothing is wrong with.
LEMMA IntactOutcome ==
    ASSUME NEW s, IsSlot(s), NoWrap(s), Intact(s)
    PROVE  /\ OutcomeOf(s) = Record(s.in_use, s.sequence, ViewOf(s, Chain(s)), << >>)
           /\ ImageSlot(s) = ImageRecord(s)
<1>1. /\ s.parse = "entry" /\ WellFormed(s) = "ok" /\ SoundChain(s)
      /\ Readable(s) = Len(Chain(s)) /\ ~HoldsList(s, Chain(s))
  BY NoListOnChain DEF Intact
<1>2. Chain(s) \in Seq(Nat)
  BY <1>1, ChainTyped
<1>3. Read(s) = Chain(s) /\ ~(Readable(s) < Len(Chain(s)))
  BY <1>1, <1>2 DEF Read
<1>4. ~Panics(s)
  <2>1. PICK k \in 0..(MAX_ATTRS - 1) :
           /\ \A j \in 0..(k - 1) : IsAttribute(s, Position(s)[j])
           /\ IsTerminator(s, Position(s)[k])
    BY <1>1, SoundChainEnds
  <2>2. k \in Nat /\ ~IsAttribute(s, Position(s)[k]) /\ ~PanicAt(s, Position(s)[k])
    BY <2>1, SlotsAssumption DEF IsTerminator, IsAttribute, PanicAt
  <2>3. \A m \in 0..(MAX_ATTRS - 1) : ~PanicAt(s, Position(s)[m])
    BY <1>1, <2>1, <2>2, NoPanicOnChain
  <2> QED
    BY <1>3, <2>3 DEF Panics, PanicAt
<1>5. Flaws(s) = << >>
  BY <1>1, NoFlaws
<1> QED
  BY <1>1, <1>3, <1>4, <1>5 DEF OutcomeOf, ReadFlaws, ImageSlot

\* And only of such a one it is shown without diagnostics.
LEMMA CleanIsIntact ==
    ASSUME NEW s, IsSlot(s), NoWrap(s), OutcomeOf(s) # << >>, OutcomeOf(s)[1].diagnostics = << >>
    PROVE  Intact(s)
  BY CleanOutcome, NoListOnChain DEF Intact

\* The first thing a header says against itself is what well_formed says of it.
LEMMA FirstFlaw ==
    ASSUME NEW s, s.parse = "entry", WellFormed(s) # "ok"
    PROVE  /\ Flaws(s) \in Seq({"baad", "fixup-mismatch"})
           /\ Flaws(s) # << >>
           /\ Flaws(s)[1] = WellFormed(s)
<1>1. Flaws(s) \in Seq({"baad", "fixup-mismatch"}) /\ Flaws(s) # << >>
  BY NoFlaws
<1>2. CASE s.signature = "BAAD"
  <2>1. WellFormed(s) = "baad"
    BY <1>2 DEF WellFormed
  <2>2. Flaws(s) \in {<<"baad">> \o << >>, <<"baad">> \o <<"fixup-mismatch">>}
    BY <1>2 DEF Flaws
  <2>3. (<<"baad">> \o << >>)[1] = "baad" /\ (<<"baad">> \o <<"fixup-mismatch">>)[1] = "baad"
    OBVIOUS
  <2> QED
    BY <1>1, <2>1, <2>2, <2>3
<1>3. CASE s.signature # "BAAD"
  <2>1. s.valid_fixup = "no" /\ WellFormed(s) = "fixup-mismatch"
    BY <1>3 DEF WellFormed
  <2>2. Flaws(s) = << >> \o <<"fixup-mismatch">>
    BY <1>3, <2>1 DEF Flaws
  <2>3. (<< >> \o <<"fixup-mismatch">>)[1] = "fixup-mismatch"
    OBVIOUS
  <2> QED
    BY <1>1, <2>1, <2>2, <2>3
<1> QED
  BY <1>2, <1>3

\* A slot whose header is not clean decodes to a record whose first diagnostic says so, if
\* it does not panic.
LEMMA IllFormedOutcome ==
    ASSUME NEW s, IsSlot(s), OutcomeOf(s) # << >>, WellFormed(s) # "ok"
    PROVE  LET found == OutcomeOf(s)[1].diagnostics
           IN  \/ found # << >> /\ found[1] = WellFormed(s)
               \/ s.parse = "entry" /\ Panics(s) /\ found = <<"attr-overrun">>
<1>1. \A diag : DiagnosticRecord(diag)[1].diagnostics = <<diag>>
  BY DEF DiagnosticRecord, Record
<1>2. CASE s.parse = "error"
  <2>1. OutcomeOf(s) = DiagnosticRecord(s.kind) /\ WellFormed(s) = s.kind
    BY <1>2 DEF OutcomeOf, WellFormed
  <2> QED
    BY <1>1, <2>1
<1>3. CASE s.parse = "panic"
  <2>1. OutcomeOf(s) = DiagnosticRecord("attr-overrun") /\ WellFormed(s) = "attr-overrun"
    BY <1>3 DEF OutcomeOf, WellFormed
  <2> QED
    BY <1>1, <2>1
<1>4. CASE s.parse = "entry" /\ Panics(s)
  <2>1. OutcomeOf(s) = DiagnosticRecord("attr-overrun")
    BY <1>4 DEF OutcomeOf
  <2> QED
    BY <1>1, <1>4, <2>1
<1>5. CASE s.parse = "entry" /\ ~Panics(s)
  <2> DEFINE C == {"baad", "fixup-mismatch"}
             verdict == WellFormed(s)
             found == OutcomeOf(s)[1].diagnostics
             StartsSo(q) == q # << >> /\ q[1] = verdict
             F == C \cup {"decode-error"}
  <2>1. Flaws(s) \in Seq(C) /\ StartsSo(Flaws(s))
    BY <1>5, FirstFlaw
  <2>2. \A q \in Seq(F) : \A c : StartsSo(q) => StartsSo(Append(q, c))
    <3> HIDE DEF F, verdict
    <3> QED
      OBVIOUS
  <2>3. \A q \in Seq(C) : q \in Seq(F) /\ Append(q, "decode-error") \in Seq(F)
    OBVIOUS
  <2>4. ReadFlaws(s) \in Seq(F) /\ StartsSo(ReadFlaws(s))
    <3> HIDE DEF C, F, StartsSo
    <3> QED
      BY <2>1, <2>2, <2>3 DEF ReadFlaws
  <2>5. found \in {Append(Flaws(s), "attr-overrun"), Append(ReadFlaws(s), "attr-overflow"),
                   ReadFlaws(s)}
    BY <1>5 DEF OutcomeOf, Record
  <2>6. StartsSo(found)
    <3> HIDE DEF C, F, StartsSo, found
    <3> QED
      BY <2>1, <2>2, <2>3, <2>4, <2>5
  <2> QED
    BY <2>6
<1> QED
  BY <1>2, <1>3, <1>4, <1>5 DEF OutcomeOf, IsSlot, ParseResults

\* What well_formed, record_header and decode say of a slot agrees.
LEMMA ShowsVerdict ==
    ASSUME DecodeFits, DecodeShows
    PROVE  VerdictMatchesRecord
<1>1. SUFFICES ASSUME phase = "done" PROVE VerdictMatchesRecord
  BY DEF VerdictMatchesRecord
<1>2. outcome = OutcomeOf(slot) /\ IsSlot(slot) /\ NoWrap(slot)
  BY <1>1 DEF DecodeShows, DecodeFits, TypeOK
<1>3. WellFormed(slot) = "ok" => RecordHeader(slot) # << >>
  <2>1. "ok" \notin ErrorKinds
    BY DEF ErrorKinds
  <2> QED
    BY <1>2, <2>1 DEF WellFormed, RecordHeader, IsSlot, ParseResults
<1>4. RecordHeader(slot) # << >> => OutcomeOf(slot) # << >>
  BY DEF RecordHeader, OutcomeOf, DiagnosticRecord, Record
<1>5. ASSUME OutcomeOf(slot) # << >>
      PROVE  (OutcomeOf(slot)[1].diagnostics = << >>) = Intact(slot)
  <2>1. OutcomeOf(slot)[1].diagnostics = << >> => Intact(slot)
    BY <1>2, <1>5, CleanIsIntact
  <2>2. Intact(slot) => OutcomeOf(slot)[1].diagnostics = << >>
    BY <1>2, IntactOutcome DEF Record
  <2>3. Intact(slot) \in BOOLEAN
    BY DEF Intact
  <2> QED
    BY <2>1, <2>2, <2>3
<1> QED
  BY <1>2, <1>3, <1>4, <1>5, IllFormedOutcome DEF VerdictMatchesRecord

\* The probes and the decoder agree about every slot of a scan.
THEOREM ScanVerdicts ==
    ASSUME \A read \in Reads : FileNoWrap(read[1])
    PROVE  ScanSpec => []VerdictMatchesRecord
<1>1. ScanFits /\ ScanShows => VerdictMatchesRecord
  BY ShowsVerdict DEF ScanFits, ScanShows
<1> QED
  BY <1>1, ScanShowsAlways, PTL

\* The finished batch, row by row and entry by entry.
LEMMA FinalRows ==
    ASSUME ScanFits, ScanShows, RowsShow, task = "done"
    PROVE  /\ Len(batch[1].entry) = Len(rows) /\ Len(rows) \in Nat
           /\ \A i \in 1..Len(rows) :
                 /\ batch[1].entry[i] = rows[i].entry
                 /\ batch[1].sequence[i] = rows[i].sequence
                 /\ batch[1].full_path[i] = rows[i].full_path
                 /\ batch[1].file_name[i] = rows[i].file_name
                 /\ batch[1].is_deleted[i] = ~rows[i].is_allocated
                 /\ batch[1].stream[i] = rows[i].stream
                 /\ batch[1].diagnostics[i] = rows[i].diagnostics
                 /\ rows[i].entry \in 0..(EntryCount(file) - 1)
                 /\ ~Hidden(rows[i].entry)
                 /\ \E stream : rows[i] = RowOf(rows[i].entry, stream)
           /\ \A e \in 0..(EntryCount(file) - 1) :
                 StreamsOf(e) = [k \in 1..Len(RowsFor(e)) |-> RowsFor(e)[k].stream]
<1>1. batch = <<Columns>> /\ Len(rows) \in Nat /\ Gone = EntryCount(file) /\ IsTuple(rows)
      /\ EntryCount(file) \in Nat
  BY ImageIs DEF ScanShows, ScanFits, IsTuple, Gone
<1>2. /\ Len(batch[1].entry) = Len(rows)
      /\ \A i \in 1..Len(rows) :
            /\ batch[1].entry[i] = rows[i].entry
            /\ batch[1].sequence[i] = rows[i].sequence
            /\ batch[1].full_path[i] = rows[i].full_path
            /\ batch[1].file_name[i] = rows[i].file_name
            /\ batch[1].is_deleted[i] = ~rows[i].is_allocated
            /\ batch[1].stream[i] = rows[i].stream
            /\ batch[1].diagnostics[i] = rows[i].diagnostics
  BY <1>1 DEF Columns, Column
<1>3. ASSUME NEW i \in 1..Len(rows)
      PROVE  /\ rows[i].entry \in 0..(EntryCount(file) - 1)
             /\ ~Hidden(rows[i].entry)
             /\ \E stream : rows[i] = RowOf(rows[i].entry, stream)
  <2>1. PICK e \in 0..(EntryCount(file) - 1) :
           \E k \in 1..Len(RowsFor(e)) : rows[i] = RowsFor(e)[k]
    BY <1>1 DEF RowsShow
  <2>2. PICK k \in 1..Len(RowsFor(e)) : rows[i] = RowsFor(e)[k]
    BY <2>1
  <2>3. RowsFor(e)[k].entry = e /\ ~Hidden(e)
    BY <2>2, RowsForIs
  <2>4. \E stream : RowsFor(e)[k] = RowOf(e, stream)
    BY <2>2, <2>3, RowsForIs
  <2> QED
    BY <2>2, <2>3, <2>4
<1>4. ASSUME NEW e \in 0..(EntryCount(file) - 1)
      PROVE  StreamsOf(e) = [k \in 1..Len(RowsFor(e)) |-> RowsFor(e)[k].stream]
  <2>1. StreamsOf(e) = StreamsIn(rows, e)
    <3>1. \A i \in 1..Len(rows) : i \in RowsOf(e) <=> rows[i].entry = e
      BY <1>2 DEF RowsOf
    <3>2. [i \in 1..Len(batch[1].entry) |->
              IF i \in RowsOf(e) THEN <<batch[1].stream[i]>> ELSE << >>]
             = [i \in 1..Len(rows) |-> IF rows[i].entry = e THEN <<rows[i].stream>> ELSE << >>]
      BY <1>2, <3>1
    <3> QED
      BY <3>2 DEF StreamsOf, StreamsIn
  <2>2. StreamsIn(rows, e) = StreamsIn(RowsFor(e), e)
    BY <1>1 DEF RowsShow
  <2>3. IsTuple(RowsFor(e)) /\ \A k \in 1..Len(RowsFor(e)) : RowsFor(e)[k].entry = e
    BY RowsForIs
  <2>4. StreamsIn(RowsFor(e), e) = [k \in 1..Len(RowsFor(e)) |-> RowsFor(e)[k].stream]
    BY <2>3, StreamsOfOne
  <2> QED
    BY <2>1, <2>2, <2>4
<1> QED
  BY <1>1, <1>2, <1>3, <1>4

\* Each stream of an intact record has its row.
LEMMA StreamsOnce ==
    ASSUME ScanFits, ScanShows, RowsShow, StrideKept(file)
    PROVE  EveryStreamOnce
<1> SUFFICES ASSUME task = "done", NEW e \in TrueEntries, Intact(TrueSlot(e))
             PROVE  LET s == TrueSlot(e)
                        shown == StreamsOf(e)
                        streams == Streams(s, Chain(s))
                    IN  CASE mode = "allocated" /\ ~s.in_use -> shown = << >>
                          [] mode = "streams" /\ streams # << >> ->
                                shown = [k \in 1..Len(streams) |-> <<streams[k]>>]
                          [] OTHER -> shown = <<LastOf(Unnamed(s, Chain(s)))>>
  BY DEF EveryStreamOnce
<1> DEFINE s == TrueSlot(e)
           streams == Streams(s, Chain(s))
           shown == StreamsShown(Found(e)[1].view)
<1>1. e \in 0..(EntryCount(file) - 1) /\ e \in Nat /\ Slice(file, e) = s
  BY CutAtRecords, ImageIs DEF ScanFits, TrueEntries, TrueSlot
<1>2. IsSlot(s) /\ NoWrap(s)
  BY <1>1, SliceIs DEF ScanFits
<1>3. Found(e) = Record(s.in_use, s.sequence, ViewOf(s, Chain(s)), << >>)
  BY <1>1, <1>2, IntactOutcome DEF Found
<1>4. /\ Found(e) # << >> /\ Found(e)[1].in_use = s.in_use
      /\ Found(e)[1].view.primary = LastOf(Unnamed(s, Chain(s)))
      /\ Found(e)[1].view.primary \o Found(e)[1].view.ads = streams
  <2> HIDE DEF s
  <2>1. \A a, b, v, d : /\ Record(a, b, v, d) # << >>
                        /\ Record(a, b, v, d)[1].in_use = a /\ Record(a, b, v, d)[1].view = v
    BY DEF Record
  <2>2. Found(e)[1].view = ViewOf(s, Chain(s))
    BY <1>3, <2>1
  <2>3. /\ ViewOf(s, Chain(s)).primary = LastOf(Unnamed(s, Chain(s)))
        /\ ViewOf(s, Chain(s)).ads = Named(s, Chain(s))
    BY DEF ViewOf
  <2>4. Found(e) # << >> /\ Found(e)[1].in_use = s.in_use
    BY <1>3, <2>1
  <2>5. /\ Found(e)[1].view.primary = LastOf(Unnamed(s, Chain(s)))
        /\ Found(e)[1].view.ads = Named(s, Chain(s))
    BY <2>2, <2>3
  <2>6. Found(e)[1].view.primary \o Found(e)[1].view.ads = streams
    BY <2>5 DEF Streams
  <2> QED
    BY <2>4, <2>5, <2>6
<1>5. StreamsOf(e) = [k \in 1..Len(RowsFor(e)) |-> RowsFor(e)[k].stream]
  BY <1>1, FinalRows
<1>6. CASE mode = "allocated" /\ ~s.in_use
  <2>1. Hidden(e)
    BY <1>4, <1>6 DEF Hidden
  <2>2. Len(RowsFor(e)) = 0
    BY <1>1, <2>1, RowsForIs
  <2>3. StreamsOf(e) = << >>
    BY <1>5, <2>2
  <2> QED
    BY <1>6, <2>3
<1>7. CASE ~(mode = "allocated" /\ ~s.in_use)
  <2>1. ~Hidden(e)
    BY <1>4, <1>7 DEF Hidden
  <2>2. /\ Len(shown) \in Nat /\ Len(RowsFor(e)) = Len(shown)
        /\ \A k \in 1..Len(shown) : RowsFor(e)[k] = RowOf(e, shown[k])
    BY <1>1, <2>1, RowsForIs
  <2>3. \A stream : RowOf(e, stream).stream = stream
    BY DEF RowOf
  <2>4. StreamsOf(e) = [k \in 1..Len(shown) |-> shown[k]]
    <3> HIDE DEF shown
    <3> QED
      BY <1>5, <2>2, <2>3
  <2>5. shown = IF mode # "streams" \/ streams = << >> THEN <<LastOf(Unnamed(s, Chain(s)))>>
                ELSE [i \in 1..Len(streams) |-> <<streams[i]>>]
    BY <1>4 DEF StreamsShown
  <2>6. Chain(s) \in Seq(Nat)
    BY <1>2, ChainTyped DEF Intact
  <2>7. streams \in Seq(Nat)
    <3>1. LastOf(Unnamed(s, Chain(s))) \in Seq(Nat) /\ Named(s, Chain(s)) \in Seq(Nat)
      BY <2>6, ThoseIs, LastOfIs DEF Unnamed, Named
    <3> QED
      BY <3>1 DEF Streams
  <2> HIDE DEF streams, shown
  <2>8. CASE mode = "streams" /\ streams # << >>
    <3>1. shown = [i \in 1..Len(streams) |-> <<streams[i]>>] /\ Len(streams) \in Nat
      BY <2>5, <2>7, <2>8
    <3>2. Len(shown) = Len(streams)
      BY <3>1
    <3>3. StreamsOf(e) = [i \in 1..Len(streams) |-> <<streams[i]>>]
      BY <2>4, <3>1, <3>2
    <3> QED
      BY <1>7, <2>8, <3>3 DEF streams
  <2>9. CASE ~(mode = "streams" /\ streams # << >>)
    <3> DEFINE primary == LastOf(Unnamed(s, Chain(s)))
    <3>1. shown = <<primary>>
      BY <2>5, <2>9
    <3> HIDE DEF primary
    <3>2. StreamsOf(e) = <<primary>>
      BY <2>4, <3>1
    <3> QED
      BY <1>7, <2>9, <3>2 DEF streams, primary
  <2> QED
    BY <2>8, <2>9
<1> QED
  BY <1>6, <1>7

\* Resolve of an image's index is that of Resolver, of which lemmas are proved.
ImageTurn(ix, md, f, v) ==
    LET up == ix[Img!Last(v)].parent_entry
    IN  CASE Img!AtRoot(ix, v) -> Img!CleanPath(ix, v)
          [] ~Img!AtRoot(ix, v) /\ Img!OutOfBounds(ix, v, md) -> Img!CyclePath(ix, v)
          [] OTHER ->
                IF Img!ParentUsable(ix, v) THEN f[Append(v, up)] ELSE Img!OrphanPath(ix, up, v)

IsImageClimb(ix, md, f) == f = [v \in Seq(Nat) |-> ImageTurn(ix, md, f, v)]

ImageClimbed(ix, md) == CHOOSE f : IsImageClimb(ix, md, f)

\* The paths and the tests of a turn, of an image's index.
LEMMA ImagePaths ==
    ASSUME NEW ix, NEW v, NEW md, NEW up
    PROVE  /\ Img!CleanPath(ix, v) = CleanPath(ix, v)
           /\ Img!CyclePath(ix, v) = CyclePath(ix, v)
           /\ Img!OrphanPath(ix, up, v) = OrphanPath(ix, up, v)
           /\ Img!AtRoot(ix, v) = AtRoot(ix, v)
           /\ Img!OutOfBounds(ix, v, md) = OutOfBounds(ix, v, md)
           /\ Img!ParentUsable(ix, v) = ParentUsable(ix, v)
<1>1. Img!Components(ix, v) = Components(ix, v)
  BY DEF Img!Components, Components, Img!Reverse, Reverse
<1>2. Img!CleanPath(ix, v) = CleanPath(ix, v)
  BY <1>1 DEF Img!CleanPath, CleanPath
<1>3. Img!CyclePath(ix, v) = CyclePath(ix, v)
  BY <1>1 DEF Img!CyclePath, CyclePath
<1>4. Img!OrphanPath(ix, up, v) = OrphanPath(ix, up, v)
  BY <1>1 DEF Img!OrphanPath, OrphanPath
<1>5. Img!AtRoot(ix, v) = AtRoot(ix, v)
  BY DEF Img!AtRoot, AtRoot, Img!ROOT_ENTRY, ROOT_ENTRY, Img!Last, Last
<1>6. Img!OutOfBounds(ix, v, md) = OutOfBounds(ix, v, md)
  BY DEF Img!OutOfBounds, OutOfBounds, Img!Last, Last
<1>7. Img!ParentUsable(ix, v) = ParentUsable(ix, v)
  BY DEF Img!ParentUsable, ParentUsable, Img!Last, Last
<1> QED
  BY <1>2, <1>3, <1>4, <1>5, <1>6, <1>7

\* So is the walk as a whole.
LEMMA ImageResolves ==
    ASSUME NEW ix, NEW e, NEW md
    PROVE  Img!Resolve(ix, e, md) = Resolve(ix, e, md)
<1>1. Img!Resolve(ix, e, md) =
         IF e \notin DOMAIN ix THEN Img!OrphanPath(ix, e, << >>)
         ELSE IF e = Img!ROOT_ENTRY THEN Img!CleanPath(ix, <<e>>)
         ELSE ImageClimbed(ix, md)[<<e>>]
  BY DEF Img!Resolve, ImageClimbed, IsImageClimb, ImageTurn
<1>2. ASSUME NEW f PROVE IsImageClimb(ix, md, f) <=> IsClimb(ix, md, f)
  <2>1. \A v \in Seq(Nat) : ImageTurn(ix, md, f, v) = Turn(ix, md, f, v)
    BY ImagePaths DEF ImageTurn, Turn, Img!Last, Last
  <2>2. [v \in Seq(Nat) |-> ImageTurn(ix, md, f, v)] = [v \in Seq(Nat) |-> Turn(ix, md, f, v)]
    BY <2>1
  <2> QED
    BY <2>2 DEF IsImageClimb, IsClimb
<1>3. ImageClimbed(ix, md) = Climbed(ix, md)
  BY <1>2, Zenon DEF ImageClimbed, Climbed
<1>4. Img!ROOT_ENTRY = ROOT_ENTRY
  BY DEF Img!ROOT_ENTRY, ROOT_ENTRY
<1> QED
  BY <1>1, <1>3, <1>4, ImagePaths, ResolveIs

\* The index of the scan says of the intact records what an index of them alone says.
LEMMA IndexHoldsIntact ==
    ASSUME ScanFits, StrideKept(file)
    PROVE  Extends(Img!BuildResolver(Image), TrueIndex)
<1> DEFINE full == Img!BuildResolver(Image)
           Listed == Img!NamedEntries(Image)
<1>1. DOMAIN full = Listed \cup {Img!ROOT_ENTRY}
  BY DEF Img!BuildResolver
<1>2. DOMAIN full \subseteq Nat
  <2>1. Listed \subseteq Nat
    BY ImageIs DEF Img!NamedEntries
  <2> QED
    BY <1>1, <2>1 DEF Img!ROOT_ENTRY
<1>3. ASSUME NEW e \in DOMAIN TrueIndex
      PROVE  e \in Listed /\ full[e] = TrueIndex[e]
  <2> DEFINE s == TrueSlot(e)
             link == ImageSlot(s)
  <2>1. e \in TrueEntries /\ Intact(s) /\ link.name # Img!NoName
        /\ TrueIndex[e] = Img!Node(link.name[1], link.parent_entry, link.parent_seq, link.sequence)
    BY DEF TrueIndex
  <2>2. e \in 0..(EntryCount(file) - 1) /\ e \in Nat /\ Slice(file, e) = s
    BY <2>1, CutAtRecords, ImageIs DEF ScanFits, TrueEntries, TrueSlot
  <2>3. IsSlot(s) /\ NoWrap(s)
    BY <2>2, SliceIs DEF ScanFits
  <2>4. link = ImageRecord(s)
    BY <2>1, <2>3, IntactOutcome
  <2>5. link.kind = "record"
    BY <2>4 DEF ImageRecord, Img!RecordSlot
  <2>6. Img!Slot(Image, e) = link /\ Img!EntryCount(Image) = EntryCount(file)
    BY <2>2, ImageIs
  <2> DEFINE rec == Img!Decode(Image, e)
  <2>7. /\ rec.name = link.name /\ rec.parent_entry = link.parent_entry
        /\ rec.parent_seq = link.parent_seq /\ rec.sequence = link.sequence
    BY <2>5, <2>6 DEF Img!Decode
  <2>8. e \in Listed
    BY <2>1, <2>2, <2>5, <2>6, <2>7 DEF Img!NamedEntries, Img!HasRecord
  <2>9. full[e] = Img!Node(rec.name[1], rec.parent_entry, rec.parent_seq, rec.sequence)
    BY <2>8 DEF Img!BuildResolver
  <2> QED
    BY <2>1, <2>7, <2>8, <2>9
<1> QED
  BY <1>1, <1>2, <1>3 DEF Extends

\* What is wrong elsewhere does not reach an intact record.
LEMMA DamageStays ==
    ASSUME ScanFits, ScanShows, RowsShow, StrideKept(file)
    PROVE  DamageIsContained
<1> SUFFICES ASSUME task = "done", NEW e \in DOMAIN TrueIndex,
                    Img!Resolve(TrueIndex, e, MAX_DEPTH).end = "clean",
                    mode = "allocated" => TrueSlot(e).in_use
             PROVE  /\ RowsOf(e) # {}
                    /\ \A i \in RowsOf(e) :
                          /\ batch[1].full_path[i] = Img!Resolve(TrueIndex, e, MAX_DEPTH)
                          /\ batch[1].diagnostics[i] = << >>
  BY DEF DamageIsContained
<1> DEFINE s == TrueSlot(e)
           path == Img!Resolve(TrueIndex, e, MAX_DEPTH)
           shown == StreamsShown(Found(e)[1].view)
<1>1. e \in TrueEntries /\ Intact(s)
  BY DEF TrueIndex
<1>2. e \in 0..(EntryCount(file) - 1) /\ e \in Nat /\ Slice(file, e) = s
  BY <1>1, CutAtRecords, ImageIs DEF ScanFits, TrueEntries, TrueSlot
<1>3. IsSlot(s) /\ NoWrap(s)
  BY <1>2, SliceIs DEF ScanFits
<1>4. Found(e) = Record(s.in_use, s.sequence, ViewOf(s, Chain(s)), << >>)
  BY <1>1, <1>2, <1>3, IntactOutcome DEF Found
<1>5. ~Hidden(e) /\ Found(e)[1].diagnostics = << >>
  BY <1>4 DEF Record, Hidden
<1>6. PathOf(e) = path
  <2>1. Extends(Img!BuildResolver(Image), TrueIndex) /\ MAX_DEPTH \in Nat
    BY IndexHoldsIntact, ReadsAssumption
  <2> QED
    BY <2>1, CleanPathStays, ImageResolves DEF PathOf
<1>7. \A stream : /\ RowOf(e, stream).full_path = path
                  /\ RowOf(e, stream).diagnostics = << >>
  <2>1. << >> \o << >> = << >>
    OBVIOUS
  <2>2. Merged(Found(e)[1], path) = << >>
    BY <1>5, <2>1 DEF Merged
  <2> QED
    BY <1>6, <2>2 DEF RowOf
<1>8. ASSUME NEW i \in RowsOf(e)
      PROVE  batch[1].full_path[i] = path /\ batch[1].diagnostics[i] = << >>
  <2>1. i \in 1..Len(rows) /\ rows[i].entry = e
    BY FinalRows DEF RowsOf
  <2>2. PICK stream : rows[i] = RowOf(e, stream)
    BY <2>1, FinalRows
  <2> HIDE DEF path
  <2> QED
    BY <1>7, <2>1, <2>2, FinalRows
<1>9. RowsOf(e) # {}
  <2>1. SUFFICES ASSUME RowsOf(e) = {} PROVE FALSE
    OBVIOUS
  <2>2. StreamsOf(e) = [k \in 1..Len(RowsFor(e)) |-> RowsFor(e)[k].stream]
    BY <1>2, FinalRows
  <2>3. Len(RowsFor(e)) \in Nat /\ Len(RowsFor(e)) >= 1
    BY <1>2, <1>5, RowsForIs
  <2> DEFINE columns == batch[1].entry
  <2>4. Len(columns) = Len(rows) /\ Len(rows) \in Nat
    BY FinalRows
  <2>5. StreamsOf(e) = FlattenSeq([i \in 1..Len(columns) |-> << >>])
    BY <2>1 DEF StreamsOf
  <2> HIDE DEF columns
  <2>6. FlattenSeq([i \in 1..Len(columns) |-> << >>]) = << >>
    <3> DEFINE q == [i \in 1..Len(columns) |-> 0]
    <3>1. q \in Seq(Nat) /\ Len(q) = Len(columns)
      BY <2>4
    <3> HIDE DEF q
    <3>2. FlattenSeq([i \in 1..Len(q) |-> << >>]) = << >>
      BY <3>1, FlattenPieces
    <3> QED
      BY <3>1, <3>2
  <2>7. Len([k \in 1..Len(RowsFor(e)) |-> RowsFor(e)[k].stream]) = Len(RowsFor(e))
    BY <2>3
  <2>8. Len(<< >>) = 0
    OBVIOUS
  <2> QED
    BY <2>2, <2>3, <2>5, <2>6, <2>7, <2>8
<1> QED
  BY <1>8, <1>9

\* Names, the primary one of which is the first long one, else the first.
LEMMA PrimaryNameIs ==
    ASSUME NEW s, NEW names \in Seq(Nat),
           \A i \in 1..Len(names) : names[i] \in DOMAIN s.header
    PROVE  LET name == PrimaryName(s, names)
               Long(o) == s.header[o].long
           IN  IF names = << >> THEN name = << >>
               ELSE \E o \in Range(names) :
                       name = <<o>> /\ (Long(o) \/ \A p \in Range(names) : ~Long(p))
<1> DEFINE Longs == {o \in DOMAIN s.header : s.header[o].long}
           long == Those(names, Longs)
           name == PrimaryName(s, names)
<1>1. name = IF long # << >> THEN <<long[1]>>
             ELSE SubSeq(names, 1, IF names = << >> THEN 0 ELSE 1)
  BY DEF PrimaryName
<1>2. /\ long \in Seq(Nat)
      /\ \A i \in 1..Len(long) : long[i] \in Longs /\ \E j \in 1..Len(names) : names[j] = long[i]
      /\ \A j \in 1..Len(names) : names[j] \in Longs => \E i \in 1..Len(long) : long[i] = names[j]
  BY ThoseIs, ThoseHold
<1>3. \A o : o \in Range(names) <=> \E j \in 1..Len(names) : names[j] = o
  BY DEF Range
<1>4. \A o \in Range(names) : o \in Longs <=> s.header[o].long
  BY <1>3
<1>5. Len(names) \in Nat /\ (names = << >> <=> Len(names) = 0)
  OBVIOUS
<1> HIDE DEF long, name, Longs
<1>6. Len(long) \in Nat /\ (long = << >> <=> Len(long) = 0)
  BY <1>2
<1>7. CASE names = << >>
  <2>1. Len(long) = 0
    <3>1. Len(long) # 0 => 1 \in 1..Len(long)
      BY <1>6
    <3> QED
      BY <1>2, <1>5, <1>7, <3>1
  <2>2. name = SubSeq(names, 1, 0)
    BY <1>1, <1>6, <1>7, <2>1
  <2>3. name = << >>
    BY <1>7, <2>2
  <2> QED
    BY <1>7, <2>3 DEF name
<1>8. CASE names # << >> /\ long # << >>
  <2>1. 1 \in 1..Len(long)
    BY <1>6, <1>8
  <2>2. long[1] \in Longs /\ long[1] \in Range(names)
    BY <1>2, <1>3, <2>1
  <2>3. name = <<long[1]>> /\ s.header[long[1]].long
    BY <1>1, <1>4, <1>8, <2>2
  <2> QED
    BY <1>8, <2>2, <2>3 DEF name
<1>9. CASE names # << >> /\ long = << >>
  <2>1. 1 \in 1..Len(names)
    BY <1>5, <1>9
  <2>2. names[1] \in Range(names)
    BY <1>3, <2>1
  <2>3. name = SubSeq(names, 1, 1)
    BY <1>1, <1>9
  <2>4. name = <<names[1]>>
    <3>1. name \in Seq(Nat) /\ Len(name) = 1 /\ name[1] = names[1]
      BY <1>5, <2>1, <2>3
    <3> QED
      BY <3>1
  <2>5. \A p \in Range(names) : ~s.header[p].long
    <3>1. ~\E i : i \in 1..Len(long)
      BY <1>6, <1>9
    <3> QED
      BY <1>2, <1>3, <1>4, <3>1
  <2> QED
    BY <1>9, <2>2, <2>4, <2>5 DEF name
<1> QED
  BY <1>7, <1>8, <1>9

\* Diagnostics are a sequence.
LEMMA DiagnosticsTyped ==
    ASSUME NEW s, IsSlot(s), OutcomeOf(s) # << >>
    PROVE  \E S : OutcomeOf(s)[1].diagnostics \in Seq(S)
<1>1. \A diag : DiagnosticRecord(diag)[1].diagnostics \in Seq({diag})
  <2>1. \A diag : DiagnosticRecord(diag)[1].diagnostics = <<diag>>
    BY DEF DiagnosticRecord, Record
  <2>2. \A diag : <<diag>> \in Seq({diag})
    OBVIOUS
  <2> QED
    BY <2>1, <2>2
<1>2. CASE s.parse = "entry" /\ ~Panics(s)
  <2> DEFINE F == {"baad", "fixup-mismatch", "decode-error", "attr-overrun", "attr-overflow"}
  <2>1. Flaws(s) \in Seq(F)
    <3>1. \A q \in Seq({"baad", "fixup-mismatch"}) : q \in Seq(F)
      OBVIOUS
    <3> QED
      BY <1>2, <3>1, NoFlaws
  <2>2. "decode-error" \in F /\ "attr-overrun" \in F /\ "attr-overflow" \in F
    OBVIOUS
  <2> HIDE DEF F
  <2>3. ReadFlaws(s) \in Seq(F)
    BY <2>1, <2>2 DEF ReadFlaws
  <2> DEFINE refused == Append(Flaws(s), "attr-overrun")
             listed == Append(ReadFlaws(s), "attr-overflow")
  <2>4. refused \in Seq(F) /\ listed \in Seq(F)
    BY <2>1, <2>2, <2>3
  <2>5. \/ OutcomeOf(s) = Record(s.in_use, s.sequence, EmptyView, refused)
        \/ OutcomeOf(s) = Record(s.in_use, s.sequence, ViewOf(s, Read(s)),
                                IF HoldsList(s, Read(s)) THEN listed ELSE ReadFlaws(s))
    BY <1>2 DEF OutcomeOf
  <2> HIDE DEF refused, listed
  <2>6. PICK d \in Seq(F) : \E a, b, v : OutcomeOf(s) = Record(a, b, v, d)
    BY <2>3, <2>4, <2>5
  <2>7. OutcomeOf(s)[1].diagnostics = d
    BY <2>6 DEF Record
  <2> QED
    BY <2>6, <2>7
<1>3. CASE ~(s.parse = "entry" /\ ~Panics(s))
  <2>1. \E diag : OutcomeOf(s) = DiagnosticRecord(diag)
    BY <1>3 DEF OutcomeOf, IsSlot, ParseResults
  <2> QED
    BY <1>1, <2>1
<1> QED
  BY <1>2, <1>3

\* No diagnostics merged: neither of the record nor of its path.
LEMMA NothingMerged ==
    ASSUME NEW record, NEW path, \E S : record.diagnostics \in Seq(S),
           Merged(record, path) = << >>
    PROVE  record.diagnostics = << >> /\ path.end = "clean"
<1> DEFINE a == record.diagnostics
           x == path.end
           b == IF x = "clean" THEN << >> ELSE <<x>>
<1>1. a \o b = << >>
  BY Zenon DEF Merged
<1>2. PICK S : a \in Seq(S)
  OBVIOUS
<1> HIDE DEF a, x
<1>3. a \in Seq(S \cup {x}) /\ b \in Seq(S \cup {x})
  <2>1. \A q \in Seq(S) : q \in Seq(S \cup {x})
    OBVIOUS
  <2>2. << >> \in Seq(S \cup {x}) /\ <<x>> \in Seq(S \cup {x})
    OBVIOUS
  <2>3. b = << >> \/ b = <<x>>
    OBVIOUS
  <2> HIDE DEF b
  <2> QED
    BY <1>2, <2>1, <2>2, <2>3
<1>4. <<x>> # << >>
  OBVIOUS
<1> DEFINE c == b
<1> HIDE DEF c
<1>5. a = << >> /\ c = << >>
  BY <1>1, <1>3 DEF c
<1> QED
  BY <1>4, <1>5 DEF a, c, x

\* The name that the index has of an entry which shows one is the name it shows.
LEMMA IndexedName ==
    ASSUME ScanFits, NEW e \in 0..(EntryCount(file) - 1), NEW s, s = Slice(file, e), IsSlot(s),
           ImageSlot(s).kind = "record", e # Img!ROOT_ENTRY,
           e \in DOMAIN Img!BuildResolver(Image)
    PROVE  /\ LinkOf(s, OutcomeOf(s)[1]) # << >>
           /\ Img!BuildResolver(Image)[e].name = LinkOf(s, OutcomeOf(s)[1])[1].name
<1> DEFINE full == Img!BuildResolver(Image)
           Listed == Img!NamedEntries(Image)
           link == LinkOf(s, OutcomeOf(s)[1])
           rec == Img!Decode(Image, e)
<1>1. e \in Listed
  BY DEF Img!BuildResolver
<1>2. Img!Slot(Image, e) = ImageSlot(s)
  BY ImageIs
<1>3. rec.name = ImageSlot(s).name
  BY <1>2 DEF Img!Decode
<1>4. rec.name # Img!NoName
  BY <1>1 DEF Img!NamedEntries
<1>5. full[e].name = rec.name[1]
  <2> HIDE DEF rec
  <2>1. full[e] = Img!Node(rec.name[1], rec.parent_entry, rec.parent_seq, rec.sequence)
    BY <1>1 DEF Img!BuildResolver, rec
  <2> QED
    BY <2>1 DEF Img!Node
<1>6. link # << >> /\ ImageSlot(s).name = <<link[1].name>>
  BY <1>3, <1>4, SlotMatches DEF Matches
<1> HIDE DEF full, link, rec
<1>7. full[e].name = link[1].name
  BY <1>3, <1>5, <1>6
<1> QED
  BY <1>6, <1>7 DEF full, link

\* A row without diagnostics shows an intact record, by a name of its own.
LEMMA CleanRowsWhole ==
    ASSUME ScanFits, ScanShows, RowsShow, StrideKept(file)
    PROVE  CleanRowIsWhole
<1> SUFFICES ASSUME task = "done", NEW i \in 1..Len(batch[1].entry),
                    batch[1].diagnostics[i] = << >>
             PROVE  LET e == batch[1].entry[i]
                        path == batch[1].full_path[i]
                        names == Parsed(TrueSlot(e), Chain(TrueSlot(e)), "name")
                        Long(o) == TrueSlot(e).header[o].long
                    IN  /\ e \in TrueEntries
                        /\ Intact(TrueSlot(e))
                        /\ batch[1].sequence[i] = TrueSlot(e).sequence
                        /\ batch[1].is_deleted[i] = ~TrueSlot(e).in_use
                        /\ IF names = << >> THEN batch[1].file_name[i] = << >>
                           ELSE \E o \in Range(names) :
                                   /\ batch[1].file_name[i] = <<TrueSlot(e).header[o].link.name>>
                                   /\ Long(o) \/ \A p \in Range(names) : ~Long(p)
                        /\ path.end = "clean"
                        /\ e # Img!ROOT_ENTRY =>
                              batch[1].file_name[i] = <<Last(path.components)>>
  BY DEF CleanRowIsWhole
<1> DEFINE e == batch[1].entry[i]
           s == TrueSlot(e)
           record == Found(e)[1]
           names == Parsed(s, Chain(s), "name")
           link == LinkOf(s, record)
           shown == batch[1].file_name[i]
           Long(o) == s.header[o].long
<1>1. /\ i \in 1..Len(rows) /\ rows[i].entry = e /\ e \in 0..(EntryCount(file) - 1)
      /\ ~Hidden(e) /\ \E stream : rows[i] = RowOf(e, stream)
      /\ batch[1].sequence[i] = rows[i].sequence /\ batch[1].full_path[i] = rows[i].full_path
      /\ shown = rows[i].file_name /\ batch[1].is_deleted[i] = ~rows[i].is_allocated
      /\ rows[i].diagnostics = << >>
  BY FinalRows
<1>2. e \in TrueEntries /\ e \in Nat /\ Slice(file, e) = s
  BY <1>1, CutAtRecords, ImageIs DEF ScanFits, TrueEntries, TrueSlot
<1>3. IsSlot(s) /\ NoWrap(s)
  BY <1>2, SliceIs DEF ScanFits
<1>4. Found(e) = OutcomeOf(s) /\ OutcomeOf(s) # << >>
  BY <1>1, <1>2 DEF Found, Hidden
<1>5. /\ rows[i].sequence = record.sequence /\ rows[i].full_path = PathOf(e)
      /\ rows[i].file_name = [k \in 1..Len(link) |-> link[k].name]
      /\ rows[i].is_allocated = record.in_use /\ Merged(record, PathOf(e)) = << >>
  <2>1. PICK stream : rows[i] = RowOf(e, stream)
    BY <1>1
  <2> HIDE DEF e, s, record
  <2> QED
    BY <1>1, <1>2, <2>1 DEF RowOf, record
<1> HIDE DEF e, s, shown
<1>6. record.diagnostics = << >> /\ PathOf(e).end = "clean"
  <2>1. \E S : record.diagnostics \in Seq(S)
    BY <1>3, <1>4, DiagnosticsTyped
  <2> QED
    BY <1>5, <2>1, NothingMerged
<1>7. Intact(s) /\ OutcomeOf(s) = Record(s.in_use, s.sequence, ViewOf(s, Chain(s)), << >>)
  BY <1>3, <1>4, <1>6, CleanOutcome, CleanIsIntact
<1>8. /\ record.in_use = s.in_use /\ record.sequence = s.sequence
      /\ record.view.file_names = names
  BY <1>4, <1>7 DEF Record, ViewOf
<1>9. IF names = << >> THEN shown = << >>
      ELSE \E o \in Range(names) : /\ shown = <<s.header[o].link.name>>
                                   /\ Long(o) \/ \A p \in Range(names) : ~Long(p)
  <2> DEFINE name == PrimaryName(s, names)
             chain == Chain(s)
             S == {o \in Typed(s, "name") : s.header[o].content = "ok"}
  <2>1. chain \in Seq(Nat)
    BY <1>3, <1>7, ChainTyped DEF Intact
  <2>2. names \in Seq(Nat) /\ \A j \in 1..Len(names) : names[j] \in S
    BY <2>1, ThoseIs, ThoseHold DEF Parsed
  <2>3. \A j \in 1..Len(names) : names[j] \in DOMAIN s.header
    BY <2>2 DEF Typed
  <2>4. link = IF name = << >> THEN << >> ELSE <<s.header[name[1]].link>>
    BY <1>8 DEF LinkOf
  <2>5. shown = [k \in 1..Len(link) |-> link[k].name]
    BY <1>1, <1>5
  <2> HIDE DEF names, name, link, record
  <2>6. IF names = << >> THEN name = << >>
        ELSE \E o \in Range(names) : name = <<o>> /\ (Long(o) \/ \A p \in Range(names) : ~Long(p))
    BY <2>2, <2>3, PrimaryNameIs DEF name
  <2>7. CASE names = << >>
    <3>1. link = << >>
      BY <2>4, <2>6, <2>7
    <3>2. shown = << >>
      BY <2>5, <3>1
    <3> QED
      BY <2>7, <3>2
  <2>8. CASE names # << >>
    <3>1. PICK o \in Range(names) :
             name = <<o>> /\ (Long(o) \/ \A p \in Range(names) : ~Long(p))
      BY <2>6, <2>8
    <3>2. link = <<s.header[o].link>>
      BY <2>4, <3>1
    <3>3. shown = <<s.header[o].link.name>>
      BY <2>5, <3>2
    <3> QED
      BY <2>8, <3>1, <3>3
  <2> QED
    BY <2>7, <2>8
<1>10. ASSUME e # Img!ROOT_ENTRY PROVE shown = <<Last(PathOf(e).components)>>
  <2> DEFINE full == Img!BuildResolver(Image)
  <2>1. DOMAIN full \subseteq Nat /\ MAX_DEPTH \in Nat
    BY IndexHoldsIntact, ReadsAssumption DEF Extends
  <2>2. PathOf(e) = Resolve(full, e, MAX_DEPTH)
    BY ImageResolves DEF PathOf
  <2>3. e # ROOT_ENTRY
    BY <1>10 DEF Img!ROOT_ENTRY, ROOT_ENTRY
  <2> HIDE DEF full
  <2>4. e \in DOMAIN full /\ Last(PathOf(e).components) = full[e].name
    BY <1>6, <2>1, <2>2, <2>3, ResolveEndsInName
  <2>5. ImageSlot(s).kind = "record"
    <3>1. ImageSlot(s) = ImageRecord(s)
      BY <1>3, <1>7, IntactOutcome
    <3> QED
      BY <3>1 DEF ImageRecord, Img!RecordSlot
  <2>6. link # << >> /\ full[e].name = link[1].name
    BY <1>1, <1>2, <1>3, <1>4, <1>10, <2>4, <2>5, IndexedName DEF full
  <2>7. Len(link) = 1
    BY <2>6 DEF LinkOf
  <2> HIDE DEF link
  <2>8. shown = <<link[1].name>>
    BY <1>1, <1>5, <2>7
  <2> QED
    BY <2>4, <2>6, <2>8
<1> QED
  BY <1>1, <1>2, <1>5, <1>6, <1>7, <1>8, <1>9, <1>10 DEF e, s, shown

\* Of files that are cut where their records are, the finished batch is settled.
THEOREM BatchSettled ==
    ASSUME \A read \in Reads : FileNoWrap(read[1]) /\ StrideKept(read[1])
    PROVE  ScanSpec => [](ScanFits /\ ScanShows /\ RowsShow /\ StrideKept(file))
<1>0. ScanSpec => [](ScanFits /\ ScanShows /\ RowsShow)
  BY RowsShowAlways
<1>1. ScanInit => StrideKept(file)
  BY DEF ScanInit
<1>2. StrideKept(file) /\ [ScanNext]_scanVars => StrideKept(file)'
  <2> SUFFICES ASSUME StrideKept(file), [ScanNext]_scanVars PROVE StrideKept(file)'
    OBVIOUS
  <2>1. file' = file
    BY DEF ScanNext, ScanStep, DecodeStep, IndexEntry, IndexComplete, EmitEntry, EmitComplete,
           BuildBatch, ScanDone, scanVars, scan
  <2> QED
    BY <2>1 DEF StrideKept, RecordStride
<1> QED
  BY <1>0, <1>1, <1>2, PTL DEF ScanSpec

\* Whatever the rest of a file holds, an intact record under intact directories has its row,
\* under its number, with its path and without diagnostics: none of the other records, and
\* no panic or error on the way to them, reaches it.
THEOREM DamageContained ==
    ASSUME \A read \in Reads : FileNoWrap(read[1]) /\ StrideKept(read[1])
    PROVE  ScanSpec => []DamageIsContained
  BY BatchSettled, DamageStays, PTL

\* A row whose diagnostics are NULL shows an intact record of the file, whole: its number,
\* its flag, a name of its own, a long one if it has one, and a path that ends in that name.
THEOREM CleanRows ==
    ASSUME \A read \in Reads : FileNoWrap(read[1]) /\ StrideKept(read[1])
    PROVE  ScanSpec => []CleanRowIsWhole
  BY BatchSettled, CleanRowsWhole, PTL

\* In mode streams an intact record has one row for each of its $DATA streams, in order, and
\* one if it has none; in the other modes it has one row, which shows its unnamed stream.
THEOREM StreamsShownOnce ==
    ASSUME \A read \in Reads : FileNoWrap(read[1]) /\ StrideKept(read[1])
    PROVE  ScanSpec => []EveryStreamOnce
  BY BatchSettled, StreamsOnce, PTL
=============================================================================
