------------------------------ MODULE CueSheet ------------------------------
(***************************************************************************)
(* Cue sheets (splst_cdimg, cue.rs): `parse` takes the lines in order and  *)
(* `parse_cue` lays the files' indices out on the disc.  A line is a       *)
(* command with its values; the tokens of its text are not modelled, and   *)
(* one that has no such form is "BAD".  Files are their lengths in bytes.  *)
(* A build with overflow checks is modelled: where a subtraction overflows *)
(* or an Option is unwrapped, the outcome is a panic.                      *)
(***************************************************************************)
EXTENDS DiscIndex

Modes == {"AUDIO", "MODE1/2048", "MODE1/2352", "MODE2/2336", "MODE2/2352"}

sector_size(mode) ==
  CASE mode = "MODE1/2048" -> 2048
    [] mode = "MODE2/2336" -> 2336
    [] OTHER -> 2352

track_format(mode) ==
  CASE mode = "AUDIO" -> "Audio"
    [] mode \in {"MODE1/2048", "MODE1/2352"} -> "Mode1"
    [] OTHER -> "Mode2Xa"

\* Files, tracks with the file they are in, and indices with their track.
EmptySheet == [files |-> <<>>, tracks |-> <<>>, indices |-> <<>>]

\* A sheet with one more line, or None for an error.
parse_line(sheet, line) ==
  LET binary == Len(sheet.files)
      track  == Len(sheet.tracks)
      duplicate == \E i \in DOMAIN sheet.indices :
                     sheet.indices[i].track = track /\ sheet.indices[i].num = line.num
  IN  CASE line.cmd = "FILE" -> Some([sheet EXCEPT !.files = Append(@, line.len)])
        [] line.cmd = "TRACK" ->
             IF binary = 0 THEN None
             ELSE Some([sheet EXCEPT !.tracks =
                          Append(@, [num |-> line.num, binary |-> binary, mode |-> line.mode])])
        [] line.cmd = "INDEX" ->
             IF track = 0 \/ duplicate THEN None
             ELSE Some([sheet EXCEPT !.indices =
                          Append(@, [track |-> track, num |-> line.num, start |-> line.start])])
        [] line.cmd = "REM" -> Some(sheet)
        [] line.cmd = "BAD" -> None

-----------------------------------------------------------------------------
\* The layout so far: the absolute position, the file that is laid out, the offset
\* in it, the index before in it, how many indices are taken from the sheet, what
\* is placed, and the outcome.

\* Storage::PreGap; files count from 1.
PreGap == [binary |-> 0, offset |-> 0, mode |-> "MODE2/2352"]

EmptyLayout(sheet) ==
  LET first == {i \in DOMAIN sheet.tracks : sheet.tracks[i].num = 1}
      mode  == sheet.tracks[CHOOSE i \in first : \A j \in first : i <= j].mode
  IN  [abs |-> The(from_sector(150)), file |-> 1, offset |-> 0, prev |-> None, taken |-> 0, out |-> "ok",
       indices |-> IF first = {} THEN <<>>
                   ELSE <<[sector |-> 150, index |-> 0, track |-> 0, format |-> track_format(mode),
                           data |-> PreGap]>>]

\* The error or panic, if the index cannot be placed.
place_error(left, gap, size, abs) ==
  IF gap < 0 THEN "panic"
  ELSE IF from_sector(gap) = None THEN "panic"
  ELSE IF size > left \/ abs = None THEN "error"
  ELSE "ok"

\* Fault: the data of an index are taken to start where the index before does.
Fault_data_offset(layout, size) == layout.offset

data_offset(layout, size) == layout.offset + size

\* The next index belongs to the file.
goes_on(sheet, layout) ==
  /\ layout.taken < Len(sheet.indices)
  /\ sheet.tracks[sheet.indices[layout.taken + 1].track].binary = layout.file

\* One index of a file.
place(sheet, layout) ==
  LET idx    == sheet.indices[layout.taken + 1]
      track  == sheet.tracks[idx.track]
      gap    == sector(idx.start) - (IF layout.prev = None THEN 0 ELSE sector(The(layout.prev).start))
      size   == gap * sector_size(track.mode)
      abs    == checked_add(layout.abs, idx.start)
      out    == place_error(sheet.files[layout.file] - layout.offset, gap, size, abs)
      index  == [sector |-> sector(The(abs)), index |-> idx.num, track |-> track.num,
                 format |-> track_format(track.mode),
                 data |-> [binary |-> track.binary, offset |-> data_offset(layout, size), mode |-> track.mode]]
  IN  IF out # "ok" THEN [layout EXCEPT !.out = out]
      ELSE [layout EXCEPT !.abs = The(abs), !.offset = @ + size, !.prev = Some(idx), !.taken = @ + 1,
                          !.indices = Append(@, index)]

\* The last index spans the rest of its file.
finish_file(sheet, layout) ==
  LET size == sector_size(sheet.tracks[The(layout.prev).track].mode)
      left == sheet.files[layout.file] - layout.offset
      rest == from_sector(left \div size)
      abs  == IF rest = None THEN None ELSE checked_add(The(rest), layout.abs)
      next == [layout EXCEPT !.file = @ + 1, !.offset = 0, !.prev = None]
  IN  IF layout.prev = None THEN next
      ELSE IF left % size # 0 \/ abs = None THEN [layout EXCEPT !.out = "error"]
      ELSE [next EXCEPT !.abs = The(abs)]

\* `parse_cue`: the files in order, and the indices of each.
lay_out(sheet, layout) == IF goes_on(sheet, layout) THEN place(sheet, layout) ELSE finish_file(sheet, layout)
=============================================================================
