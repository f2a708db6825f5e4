---------------------------- MODULE RecordDecode -----------------------------
(***************************************************************************)
(* Decoding one slot of a $MFT (mft-core/src/lib.rs decode, parse.rs,      *)
(* record.rs): the parse under catch_unwind, the gate that walks the chain *)
(* of attribute headers before the `mft` crate is let near it, the loop    *)
(* over the crate's attributes, and what becomes of a decode error or a    *)
(* panic on the way.                                                       *)
(*                                                                         *)
(* An attribute is named by the offset of its header in the record.        *)
(***************************************************************************)
EXTENDS Naturals, Sequences, SequencesExt

CONSTANTS
    Slots,        \* what a slot may hold
    MAX_ATTRS,    \* turns of the gate's loop
    WORD          \* usize arithmetic is modulo WORD (overflow checks are off in a release build)

\* What the crate's parser makes of a slot's bytes, if it is given them.
ParseResults == {"absent", "zeroed", "panic", "error", "unsigned", "entry"}

\* How the crate's errors are classified.
ErrorKinds == {"bad-signature", "truncated", "attr-overrun"}

\* An attribute header and what the crate makes of the attribute: `long` is a long
\* $FILE_NAME, `named` a $DATA with a name, `link` what a $FILE_NAME says; "opaque" is
\* content that is not parsed.
IsHeader(h) ==
    /\ h.type \in {"end", "list", "si", "name", "data", "other"}
    /\ h.length \in Nat
    /\ h.resident \in BOOLEAN
    /\ h.data_size \in Nat
    /\ h.data_offset \in Nat
    /\ h.content \in {"ok", "opaque", "error", "panic"}
    /\ h.long \in BOOLEAN
    /\ h.named \in BOOLEAN
    /\ h.type = "name" => h.link.parent_entry \in Nat /\ h.link.parent_seq \in Nat

\* usize arithmetic: a sum of an offset and a field of 32 bits may wrap.
Plus(a, b) == (a + b) % WORD

\* A slot; `header` holds the headers at the offsets that the lengths lead to.
IsSlot(s) ==
    /\ s.parse \in ParseResults
    /\ s.parse = "error" => s.kind \in ErrorKinds
    /\ s.parse = "entry" =>
          /\ s.signature \in {"FILE", "BAAD"}
          /\ s.valid_fixup \in {"yes", "no", "unknown"}
          /\ s.in_use \in BOOLEAN
          /\ s.sequence \in Nat
          /\ s.size \in Nat
          /\ s.first \in Nat
          /\ s.first + 4 <= s.size => s.first \in DOMAIN s.header
          /\ \A o \in DOMAIN s.header :
                /\ o \in Nat
                /\ IsHeader(s.header[o])
                /\ LET next == Plus(o, s.header[o].length)
                   IN  s.header[o].length >= 16 /\ next + 4 <= s.size
                          => next \in DOMAIN s.header

ASSUME SlotsAssumption ==
    /\ MAX_ATTRS \in Nat \ {0}
    /\ WORD \in Nat \ {0}
    /\ \A s \in Slots : IsSlot(s)

VARIABLES
    slot,           \* the slot to decode
    phase,          \* "parse", "gate", "attributes", "assemble" or "done"
    off,            \* the offset the gate, then the crate's iterator, has reached
    passed,         \* offsets the gate has passed, one for each turn of its loop
    diagnostics,    \* the diagnostics so far
    view,           \* what the loop has collected
    outcome         \* << >> until done; then << >> for no record, else <<the record>>

vars == <<slot, phase, off, passed, diagnostics, view, outcome>>

EmptyView ==
    [standard_info |-> << >>, file_names |-> << >>, primary |-> << >>, ads |-> << >>,
     attributes |-> << >>]

Init ==
    /\ slot \in Slots
    /\ phase = "parse"
    /\ off = 0
    /\ passed = << >>
    /\ diagnostics = << >>
    /\ view = EmptyView
    /\ outcome = << >>

Finish(record) == phase' = "done" /\ outcome' = record

\* DecodedRecord, as far as the choice of its fields is a decision.
Record(in_use, sequence, collected, diags) ==
    <<[in_use |-> in_use, sequence |-> sequence, view |-> collected, diagnostics |-> diags]>>

\* fn diagnostic_record: nothing of the record survives.
DiagnosticRecord(diag) == Record(FALSE, 0, EmptyView, <<diag>>)

-----------------------------------------------------------------------------
(***************************************************************************)
(* fn parse_record, and fn decode for the slots that it settles.           *)
(***************************************************************************)
NoRecord ==
    /\ phase = "parse"
    /\ slot.parse \in {"absent", "zeroed", "unsigned"}
    /\ Finish(<< >>)
    /\ UNCHANGED <<slot, off, passed, diagnostics, view>>

\* A classified error, or a panic of the parser.
BadRecord ==
    /\ phase = "parse"
    /\ slot.parse \in {"error", "panic"}
    /\ Finish(DiagnosticRecord(IF slot.parse = "error" THEN slot.kind ELSE "attr-overrun"))
    /\ UNCHANGED <<slot, off, passed, diagnostics, view>>

\* (mutant: a record without fixups is taken for a torn one)
HeaderDiagnosticsUnlessFixed ==
    (IF slot.signature = "BAAD" THEN <<"baad">> ELSE << >>)
        \o (IF slot.valid_fixup # "yes" THEN <<"fixup-mismatch">> ELSE << >>)

HeaderDiagnostics ==
    (IF slot.signature = "BAAD" THEN <<"baad">> ELSE << >>)
        \o (IF slot.valid_fixup = "no" THEN <<"fixup-mismatch">> ELSE << >>)

\* fn decode_entry begins.
StartGate ==
    /\ phase = "parse"
    /\ slot.parse = "entry"
    /\ phase' = "gate"
    /\ off' = slot.first
    /\ diagnostics' = HeaderDiagnostics
    /\ UNCHANGED <<slot, passed, view, outcome>>

-----------------------------------------------------------------------------
(***************************************************************************)
(* fn attributes_within_bounds.  One turn of its loop looks at one header. *)
(***************************************************************************)
header == slot.header[off]

\* (mutant: one turn too many)
TurnLeftOneMore == phase = "gate" /\ Len(passed) <= MAX_ATTRS

TurnLeft == phase = "gate" /\ Len(passed) < MAX_ATTRS

RoomForType == off + 4 <= slot.size

AtTerminator == RoomForType /\ header.type = "end"

AtAttribute == RoomForType /\ header.type # "end"

LengthFits ==
    /\ off + 16 <= slot.size
    /\ header.length >= 16
    /\ Plus(off, header.length) <= slot.size

\* The resident fields are read without a check that they are there.
ResidentFieldsMissing == header.resident /\ off + 22 > slot.size

\* (mutant: the offset of the content is left out)
ContentFitsWithoutOffset == header.resident => Plus(off, header.data_size) <= slot.size

\* (mutant: content may not end where the record ends)
ContentFitsStrictly ==
    header.resident => Plus(off + header.data_offset, header.data_size) < slot.size

ContentFits ==
    header.resident => Plus(off + header.data_offset, header.data_size) <= slot.size

\* The chain is sound: the crate may have it.
GateOpens ==
    /\ TurnLeft
    /\ AtTerminator
    /\ phase' = "attributes"
    /\ off' = slot.first
    /\ UNCHANGED <<slot, passed, diagnostics, view, outcome>>

GatePasses ==
    /\ TurnLeft
    /\ AtAttribute
    /\ LengthFits
    /\ ~ResidentFieldsMissing
    /\ ContentFits
    /\ passed' = Append(passed, off)
    /\ off' = Plus(off, header.length)
    /\ UNCHANGED <<slot, phase, diagnostics, view, outcome>>

\* Indexing out of bounds: decode_entry_safe catches the panic.
GatePanics ==
    /\ TurnLeft
    /\ AtAttribute
    /\ LengthFits
    /\ ResidentFieldsMissing
    /\ Finish(DiagnosticRecord("attr-overrun"))
    /\ UNCHANGED <<slot, off, passed, diagnostics, view>>

\* A breach, or too many attributes: the header's fields are kept.
GateCloses ==
    /\ phase = "gate"
    /\ \/ ~TurnLeft
       \/ ~RoomForType
       \/ AtAttribute /\ ~LengthFits
       \/ AtAttribute /\ ~ResidentFieldsMissing /\ ~ContentFits
    /\ Finish(Record(slot.in_use, slot.sequence, EmptyView,
                     Append(diagnostics, "attr-overrun")))
    /\ UNCHANGED <<slot, off, passed, diagnostics, view>>

-----------------------------------------------------------------------------
(***************************************************************************)
(* The loop over the crate's attributes: its iterator follows the chain    *)
(* from the first header by their lengths.                                 *)
(***************************************************************************)
NextAttribute == off' = off + header.length

Collect(v, o, h) ==
    [v EXCEPT
        !.attributes    = Append(@, o),
        !.standard_info = IF h.type = "si" /\ h.content = "ok" THEN <<o>> ELSE @,
        !.file_names    = IF h.type = "name" /\ h.content = "ok" THEN Append(@, o) ELSE @,
        !.primary       = IF h.type = "data" /\ ~h.named THEN <<o>> ELSE @,
        !.ads           = IF h.type = "data" /\ h.named THEN Append(@, o) ELSE @]

AttributeDecoded ==
    /\ phase = "attributes"
    /\ AtAttribute
    /\ header.content \in {"ok", "opaque"}
    /\ view' = Collect(view, off, header)
    /\ NextAttribute
    /\ UNCHANGED <<slot, phase, passed, diagnostics, outcome>>

\* (mutant: the loop goes on after an error, which the iterator does not leave)
AttributeFailsContinues ==
    /\ phase = "attributes"
    /\ AtAttribute
    /\ header.content = "error"
    /\ UNCHANGED vars

\* (mutant: the loop is left without a diagnostic)
AttributeFailsSilently ==
    /\ phase = "attributes"
    /\ AtAttribute
    /\ header.content = "error"
    /\ phase' = "assemble"
    /\ UNCHANGED <<slot, off, passed, diagnostics, view, outcome>>

\* A decode error ends the loop; what was collected stays.
AttributeFails ==
    /\ phase = "attributes"
    /\ AtAttribute
    /\ header.content = "error"
    /\ diagnostics' = Append(diagnostics, "decode-error")
    /\ phase' = "assemble"
    /\ UNCHANGED <<slot, off, passed, view, outcome>>

\* A panic in the crate: what was collected, and the header, is lost.
AttributePanics ==
    /\ phase = "attributes"
    /\ AtAttribute
    /\ header.content = "panic"
    /\ Finish(DiagnosticRecord("attr-overrun"))
    /\ UNCHANGED <<slot, off, passed, diagnostics, view>>

AttributesEnd ==
    /\ phase = "attributes"
    /\ AtTerminator
    /\ phase' = "assemble"
    /\ UNCHANGED <<slot, off, passed, diagnostics, view, outcome>>

SawAttrList == \E i \in 1..Len(view.attributes) : slot.header[view.attributes[i]].type = "list"

Assemble ==
    /\ phase = "assemble"
    /\ Finish(Record(slot.in_use, slot.sequence, view,
                     IF SawAttrList THEN Append(diagnostics, "attr-overflow") ELSE diagnostics))
    /\ UNCHANGED <<slot, off, passed, diagnostics, view>>

Done == phase = "done" /\ UNCHANGED vars

Step ==
    \/ NoRecord \/ BadRecord \/ StartGate
    \/ GateOpens \/ GatePasses \/ GatePanics \/ GateCloses
    \/ AttributeDecoded \/ AttributeFails \/ AttributePanics \/ AttributesEnd \/ Assemble

Next == Step \/ Done

\* Sequential code: it keeps running until it returns.
Spec == Init /\ [][Next]_vars /\ WF_vars(Step)

-----------------------------------------------------------------------------
\* Those of the offsets that are in S, in order.
Those(offsets, S) ==
    FlattenSeq([i \in 1..Len(offsets) |-> IF offsets[i] \in S THEN <<offsets[i]>> ELSE << >>])

\* fn primary_index: the first long name, else the first name.
PrimaryName(s, names) ==
    LET long == Those(names, {o \in DOMAIN s.header : s.header[o].long})
    IN  IF long # << >> THEN <<long[1]>> ELSE SubSeq(names, 1, IF names = << >> THEN 0 ELSE 1)

\* fn well_formed: it parses the slot and looks at the header, not at the attributes.
WellFormed(s) ==
    CASE s.parse = "absent"                 -> "truncated"
      [] s.parse \in {"zeroed", "unsigned"} -> "not-an-mft"
      [] s.parse = "panic"                  -> "attr-overrun"
      [] s.parse = "error"                  -> s.kind
      [] s.parse = "entry" ->
            IF s.signature = "BAAD" THEN "baad"
            ELSE IF s.valid_fixup = "no" THEN "fixup-mismatch"
            ELSE "ok"

\* fn record_header: as << >> or the IN_USE flag of the header.
RecordHeader(s) == IF s.parse = "entry" THEN <<s.in_use>> ELSE << >>

-----------------------------------------------------------------------------
(***************************************************************************)
(* The reference: the chain of headers of a slot, by true arithmetic.      *)
(***************************************************************************)
\* An attribute that lies inside the record, content included.
InBounds(s, o) ==
    LET h == s.header[o]
    IN  /\ o + 16 <= s.size
        /\ h.length >= 16
        /\ o + h.length <= s.size
        /\ h.resident => o + 22 <= s.size /\ o + h.data_offset + h.data_size <= s.size

IsTerminator(s, o) == o + 4 <= s.size /\ s.header[o].type = "end"

IsAttribute(s, o) == o + 4 <= s.size /\ s.header[o].type # "end" /\ InBounds(s, o)

\* Where the header number k is, as long as the chain is sound.
Position(s) ==
    LET at[k \in Nat] ==
            IF k = 0 THEN s.first
            ELSE LET o == at[k - 1]
                 IN  IF IsAttribute(s, o) THEN o + s.header[o].length ELSE o
    IN  at

\* The lengths of chain after which there is a terminator.
Ends(s) == {n \in 0..(MAX_ATTRS - 1) : IsTerminator(s, Position(s)[n])}

\* Fewer than MAX_ATTRS attributes, all in bounds, and then a terminator.
SoundChain(s) == Ends(s) # {}

\* The attributes of a sound chain.
Chain(s) == [i \in 1..Min(Ends(s)) |-> Position(s)[i - 1]]

\* The headers of a type.
Typed(s, type) == {o \in DOMAIN s.header : s.header[o].type = type}

\* Those of them that are parsed, the $DATA attributes without a name and those with one.
Parsed(s, offsets, type) ==
    Those(offsets, {o \in Typed(s, type) : s.header[o].content = "ok"})

Unnamed(s, offsets) == Those(offsets, {o \in Typed(s, "data") : ~s.header[o].named})

Named(s, offsets) == Those(offsets, {o \in Typed(s, "data") : s.header[o].named})

LastOf(offsets) == IF offsets = << >> THEN << >> ELSE <<Last(offsets)>>

\* What attributes amount to, looked at all at once.
ViewOf(s, offsets) ==
    [standard_info |-> LastOf(Parsed(s, offsets, "si")),
     file_names    |-> Parsed(s, offsets, "name"),
     primary       |-> LastOf(Unnamed(s, offsets)),
     ads           |-> Named(s, offsets),
     attributes    |-> offsets]

-----------------------------------------------------------------------------
(***************************************************************************)
(* Properties.                                                             *)
(***************************************************************************)
IsView(v) ==
    v \in [standard_info : Seq(Nat), file_names : Seq(Nat), primary : Seq(Nat),
           ads : Seq(Nat), attributes : Seq(Nat)]

\* What may be wrong with a record while its attributes are read.
Codes == {"baad", "fixup-mismatch", "decode-error"}

\* Types; the gate makes no more than MAX_ATTRS turns.
TypeOK ==
    /\ IsSlot(slot)
    /\ phase \in {"parse", "gate", "attributes", "assemble", "done"}
    /\ off \in Nat
    /\ passed \in Seq(Nat)
    /\ Len(passed) <= MAX_ATTRS
    /\ diagnostics \in Seq(Codes)
    /\ IsView(view)

\* The gate lets the crate have exactly the records whose chain of attributes is
\* sound: it does not refuse one for want of a byte it has ("confirms every attribute
\* fits inside the record buffer", record.rs).
GateIsExact ==
    /\ phase \in {"attributes", "assemble"} => SoundChain(slot)
    /\ phase = "done" /\ slot.parse = "entry" /\ SoundChain(slot) =>
          \/ \E k \in 0..(MAX_ATTRS - 1) :
                /\ IsAttribute(slot, Position(slot)[k])
                /\ slot.header[Position(slot)[k]].content = "panic"
          \/ \A i \in 1..Len(outcome[1].diagnostics) :
                outcome[1].diagnostics[i] # "attr-overrun"

\* The crate parses the content of an attribute only if header and content lie inside
\* the record ("so the crate's allocator is never reached for a hostile record").
ContentInBounds ==
    phase = "attributes" => off + 4 <= slot.size /\ (header.type # "end" => InBounds(slot, off))

\* A record without diagnostics is all there: its header is clean, its chain is sound, and
\* it shows every attribute of the chain in order, the parsed ones of its names and of its
\* standard information, and its streams.
CleanRecordIsWhole ==
    phase = "done" /\ outcome # << >> /\ outcome[1].diagnostics = << >> =>
        /\ WellFormed(slot) = "ok"
        /\ SoundChain(slot)
        /\ outcome[1].view = ViewOf(slot, Chain(slot))

\* The comment on the column is_allocated: "Header IN_USE flag (0x01) set".  The
\* decoded record and record_header show the same flag, whatever became of the record.
AllocatedIsHeaderFlag ==
    phase = "done" /\ RecordHeader(slot) # << >> => <<outcome[1].in_use>> = RecordHeader(slot)
=============================================================================
