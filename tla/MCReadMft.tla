------------------------------ MODULE MCReadMft ------------------------------
(***************************************************************************)
(* Small instance of ReadMft: scans of up to three sources that between    *)
(* them hold every kind of slot, in a stride that is the default one and   *)
(* in one that is not, with batches of two rows.                           *)
(***************************************************************************)
EXTENDS ReadMft

MCFiles == {"a", "b", "c", "<blob>"}

\* A directory after its child, so the child's path needs an entry read later; the
\* child has two streams.
ChildFirst ==
    [stride |-> 512,
     slots  |-> <<RecordSlot(TRUE, 1, <<"child">>, 1, 1, 2),
                  RecordSlot(TRUE, 1, <<"dir">>, ROOT_ENTRY, ROOT_ENTRY, 0)>>]

\* A record with more streams than a batch has rows, a deleted one whose parent slot
\* was reused, a malformed slot and an empty one.
Mixed ==
    [stride |-> 1024,
     slots  |-> <<RecordSlot(TRUE, 2, <<"top">>, ROOT_ENTRY, ROOT_ENTRY, 3),
                  RecordSlot(FALSE, 1, <<"gone">>, 0, 1, 1),
                  BadSlot,
                  EmptySlot>>]

\* Nothing to emit in any mode, and not even an entry.
Blank == [stride |-> 1024, slots |-> <<EmptySlot>>]
NoEntries == [stride |-> 1024, slots |-> << >>]

\* Only malformed records, in a non-default stride.
AllBad == [stride |-> 2048, slots |-> <<BadSlot, BadSlot>>]

MCImages == {ChildFirst, Mixed, Blank, NoEntries, AllBad}

\* Three files in any combination; the blob is as good as the first of them.
MCContents == {c \in [MCFiles -> MCImages] : c["<blob>"] = c["a"]}

MCListings == {<<"a", "b", "c">>, <<"<blob>">>}

MCModes == {"files", "streams", "allocated"}

NoHostArg == << >>
=============================================================================
