----------------------------- MODULE MCTimestomp ------------------------------
(***************************************************************************)
(* Small instance of Timestomp: a second of four microseconds of two       *)
(* ticks, the Unix epoch at FILETIME 16.  Every pair of creation and       *)
(* modification times, one row at a time, and batches of three rows.       *)
(***************************************************************************)
EXTENDS Timestomp

MC_EPOCH == -2

\* Unset, the tick after, one tick before the epoch, the epoch, one tick after it, half a
\* second after it, one second after it, and one tick more.
MCTimes == {0, 1, 15, 16, 17, 20, 24, 25}

Quad(created, modified, rest) ==
    [t \in Times |-> CASE t = "created" -> created [] t = "modified" -> modified [] OTHER -> rest]

SingleRows ==
    {<<[si |-> Quad(c, m, r), fn |-> Quad(d, n, 20)]>> :
        c \in MCTimes, m \in MCTimes, d \in MCTimes, n \in MCTimes, r \in {16, 24}}

SomeRows ==
    {[si |-> Quad(c, 24, 24), fn |-> Quad(d, 20, 20)] : c \in {0, 20, 24}, d \in {17, 24}}

MCBatches == SingleRows \cup [1..3 -> SomeRows] \cup {<< >>}
=============================================================================
