------------------------------- MODULE MCDisc -------------------------------
(***************************************************************************)
(* Sheets of two files with a pregap, of one file with several indices,    *)
(* and all sheets of up to three lines.                                    *)
(***************************************************************************)
EXTENDS Disc

File(sectors) == [cmd |-> "FILE", len |-> sectors * 2352]
Track(n, mode) == [cmd |-> "TRACK", num |-> n, mode |-> mode]
Index(n, s) == [cmd |-> "INDEX", num |-> n, start |-> The(from_sector(s))]

TrackModes == {"MODE2/2352", "AUDIO", "MODE1/2048"}
Starts == {0, 1, 75}

\* 128 sectors of 2352 bytes are 147 of 2048.
TwoFiles ==
  {<<File(a), Track(1, m), i, File(b), Track(2, n), j, k>> :
     a, b \in {2, 76, 128}, m, n \in TrackModes,
     i \in {Index(1, 0), Index(1, 1)},
     j \in {Index(0, 0), Index(1, 0), Index(1, 75)}, k \in {Index(1, 75), Index(0, 75), Index(2, 75)}}

OneFile ==
  {<<File(a), Track(1, m), i, Track(2, n), j, k>> :
     a \in {2, 128}, m, n \in {"MODE2/2352", "MODE1/2048"},
     i, j, k \in {Index(n, s) : n \in {0, 1}, s \in Starts}}

MCLines ==
  {File(76), [cmd |-> "FILE", len |-> 2353], [cmd |-> "REM"], [cmd |-> "BAD"]}
    \cup {Track(n, "MODE2/2352") : n \in {1, 2}}
    \cup {Index(n, s) : n \in {0, 1, 2}, s \in Starts}

MCSheets == TwoFiles \cup OneFile \cup UNION {[1 .. n -> MCLines] : n \in 1 .. 3}

\* The ends of the files and of the seconds, before the disc and after it.
MCSeeks == {0, 148, 149, 150, 151, 200, 223, 224, 225, 226, 276, 277, 278, 300, 301, 350, 406, 4499, 449999}
=============================================================================
