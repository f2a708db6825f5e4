--------------------------- MODULE MCRecordDecode ---------------------------
(***************************************************************************)
(* Small instance of RecordDecode: records of 58 and of 64 bytes with an   *)
(* attribute header at offsets 8, 24 and 40, each of them any of the kinds *)
(* below, and a few longer chains.  Up to two attributes are admitted.     *)
(***************************************************************************)
EXTENDS RecordDecode

MC_MAX_ATTRS == 3

\* Stands for the largest value of a field of 32 bits.
Huge == 255

Header(type, length) ==
    [type |-> type, length |-> length, resident |-> FALSE, data_size |-> 0, data_offset |-> 0,
     long |-> FALSE, named |-> FALSE, content |-> "ok",
     link |-> [name |-> "n", parent_entry |-> 5, parent_seq |-> 5]]

End == Header("end", 0)

ResidentHeader(type) ==
    [Header(type, 16) EXCEPT !.resident = TRUE, !.data_offset = 8, !.data_size = 8]

\* Lengths that do not fit, and content that does not fit.
Broken ==
    {Header("other", 0), Header("other", Huge), [ResidentHeader("data") EXCEPT !.data_size = Huge]}

\* The content of the last one ends 40 bytes after its header begins: flush with the
\* larger record when the header is at 24.
Sound ==
    {ResidentHeader("si"), [Header("si", 16) EXCEPT !.content = "opaque"], Header("list", 16),
     Header("data", 16), [Header("data", 32) EXCEPT !.named = TRUE],
     ResidentHeader("name"), [ResidentHeader("name") EXCEPT !.long = TRUE],
     [Header("name", 16) EXCEPT !.content = "error"],
     [Header("other", 16) EXCEPT !.content = "panic"],
     [ResidentHeader("data") EXCEPT !.data_offset = 24, !.data_size = 16]}

Headers == {End} \cup Broken \cup Sound

Entry(signature, fixup, in_use, size, at) ==
    [parse |-> "entry", signature |-> signature, valid_fixup |-> fixup, in_use |-> in_use,
     sequence |-> 1, size |-> size, first |-> 8, header |-> at]

Flags == {<<"FILE", "yes", TRUE>>, <<"BAAD", "no", FALSE>>, <<"FILE", "no", TRUE>>}

Entries ==
    {Entry(f[1], f[2], f[3], size, at) :
        f \in Flags, size \in {58, 64},
        at \in {[o \in {8, 24, 40, 56} |-> IF o < 56 THEN three[o] ELSE End] :
                   three \in [{8, 24, 40} -> Headers]}}

\* Two, three and five attributes before the terminator.
LongEntries ==
    {Entry("FILE", "unknown", TRUE, 120,
           [o \in {8, 24, 40, 56, 72, 88} |-> IF o < last THEN h ELSE End]) :
        h \in {Header("other", 16), Header("si", 16)}, last \in {40, 56, 88}}

OtherSlots ==
    {[parse |-> p] : p \in {"absent", "zeroed", "panic", "unsigned"}}
        \cup {[parse |-> "error", kind |-> k] : k \in ErrorKinds}

MCSlots == Entries \cup LongEntries \cup OtherSlots
=============================================================================
