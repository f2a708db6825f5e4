-------------------------- MODULE MCFullPathScalar --------------------------
(***************************************************************************)
(* Small instances of FullPathScalar: images of two and three records.     *)
(***************************************************************************)
EXTENDS FullPathScalar

\* A child before its directory; `who` is the child's name, seq the sequence number
\* of the directory.
Pair(who, seq) ==
    [stride |-> 1024,
     slots  |-> <<RecordSlot(TRUE, 1, <<who>>, 1, 1, 1),
                  RecordSlot(TRUE, seq, <<"dir">>, ROOT_ENTRY, ROOT_ENTRY, 0)>>]

Triple ==
    [stride |-> 1024,
     slots  |-> <<RecordSlot(TRUE, 1, <<"x">>, 1, 1, 1), BadSlot,
                  RecordSlot(TRUE, 1, <<"y">>, 0, 1, 0)>>]

\* Blobs that the fingerprint tells apart: another length, or another header.
DistinctBlobs == {Pair("child", 1), Pair("child", 2), Triple}

\* Blobs that differ in a name only, which lies outside the sampled bytes.
LookAlikeBlobs == {Pair("child", 1), Pair("other", 1)}

MCEntryArgs == {0, 2, ROOT_ENTRY}
=============================================================================
