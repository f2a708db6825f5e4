---------------------------- MODULE MCSourceDrift ----------------------------
(***************************************************************************)
(* Small instances of SourceDrift: a file more in the glob, sorted after   *)
(* the others or before them, or no file left; files that come to hold     *)
(* more, less or nothing, in another stride.                               *)
(***************************************************************************)
EXTENDS SourceDrift, MCReadMft

OneListing == {<<"b", "c">>}

FileAppended == {<<"b", "c", "d">>, << >>}

FileInserted == {<<"a", "b", "c">>}

DriftFiles == {"a", "b", "c", "d"}

\* ChildFirst, with its directory renamed and a record more, in the default stride.
Grown ==
    [stride |-> 1024,
     slots  |-> <<RecordSlot(TRUE, 1, <<"child">>, 1, 1, 1),
                  RecordSlot(TRUE, 1, <<"moved">>, ROOT_ENTRY, ROOT_ENTRY, 0),
                  RecordSlot(TRUE, 1, <<"late">>, 1, 1, 0)>>]

\* Not one name: the index holds the root's node only.
Damaged ==
    [stride |-> 512,
     slots  |-> <<BadSlot, BadSlot, BadSlot, RecordSlot(FALSE, 1, NoName, 0, 0, 0)>>]

DriftImages == {ChildFirst, Blank, Grown, Damaged}

DriftContents ==
    {c \in [DriftFiles -> DriftImages] : c["a"] = ChildFirst /\ c["d"] = Grown}

NoRewriting == {}

JustStreams == {"streams"}
=============================================================================
