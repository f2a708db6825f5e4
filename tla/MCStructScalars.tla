--------------------------- MODULE MCStructScalars ---------------------------
(***************************************************************************)
(* Small instance of StructScalars: batches of up to three rows; a blob of *)
(* two records, the second torn, and an empty slot; a blob without records *)
(* at entries 1 and 2 and a slot at 0 that does not parse.                 *)
(***************************************************************************)
EXTENDS StructScalars

MC_MAX_ROWS == 3

MCBlobs == {"mft", "junk"}

MCEntries == 0..2

MCChildren == {"si", "data"}

MCLists == {"fn", "ads", "attributes"}

MCHeader == {0, 5, 30}

MCNoHeader == 0

MCChild == {"a", "b"}

MCItem == {1, 2, 3}

File ==
    [header |-> 30,
     child  |-> [si |-> <<"a">>, data |-> <<"b">>],
     list   |-> [fn |-> <<1, 2>>, ads |-> << >>, attributes |-> <<1, 2, 3>>]]

Torn ==
    [header |-> 5,
     child  |-> [si |-> <<"b">>, data |-> << >>],
     list   |-> [fn |-> <<3>>, ads |-> <<2>>, attributes |-> << >>]]

\* diagnostic_record.
Unreadable ==
    [header |-> 0,
     child  |-> [si |-> << >>, data |-> << >>],
     list   |-> [fn |-> << >>, ads |-> << >>, attributes |-> << >>]]

MCDecodeOne ==
    [b \in MCBlobs, e \in MCEntries |->
        CASE b = "mft" /\ e = 0  -> << <<File>> >>
          [] b = "mft" /\ e = 1  -> << <<Torn>> >>
          [] b = "junk" /\ e = 0 -> << <<Unreadable>> >>
          [] OTHER               -> << << >> >>]

MCHeaderOf ==
    [b \in MCBlobs, e \in MCEntries |->
        IF b = "mft" /\ e < 2 THEN <<[f \in HeaderFields |-> e]>> ELSE << >>]

MCProbeOf ==
    [b \in MCBlobs, e \in MCEntries |->
        CASE b = "mft" /\ e = 0  -> [ok |-> TRUE, error |-> << >>, kind |-> "ok"]
          [] b = "mft" /\ e = 1  -> [ok |-> FALSE, error |-> <<"torn">>, kind |-> "baad"]
          [] b = "mft" /\ e = 2  -> [ok |-> FALSE, error |-> <<"empty">>, kind |-> "not-an-mft"]
          [] b = "junk" /\ e = 0 -> [ok |-> FALSE, error |-> <<"bad">>, kind |-> "bad-signature"]
          [] OTHER               -> [ok |-> FALSE, error |-> <<"range">>, kind |-> "truncated"]]
=============================================================================
