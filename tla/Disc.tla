-------------------------------- MODULE Disc --------------------------------
(***************************************************************************)
(* A disc image: its cue sheet is parsed line by line and laid out index   *)
(* by index, and the drive seeks and reads sectors of it                   *)
(* (CdImage::load_sector, called by CdRom::sector_done, which first moves  *)
(* to the next sector).                                                    *)
(*                                                                         *)
(* The data of a sector are the file and the offset they are read from.    *)
(***************************************************************************)
EXTENDS CueSheet

CONSTANTS Sheets,    \* cue sheets, as sequences of lines
          Seeks,     \* sectors the drive seeks to
          MaxReads   \* bound: sectors read

\* The sectors a position of the drive can be at.
Reach == 450000

Lines ==
  [cmd : {"FILE"}, len : Nat] \cup [cmd : {"TRACK"}, num : Bcd, mode : Modes]
    \cup [cmd : {"INDEX"}, num : Bcd, start : [min : Bcd, sec : Bcd, frame : Bcd]]
    \cup [cmd : {"REM", "BAD"}]

ASSUME DiscAssumption ==
  /\ Sheets \subseteq Seq(Lines)
  /\ Seeks \subseteq 0 .. Reach - 1 /\ MaxReads \in Nat

VARIABLES source,    \* the lines of the sheet
          line,      \* lines parsed
          sheet,
          phase,     \* parsing, opened, mounted, rejected or panicked
          layout,
          image,     \* the lookup and the table of contents
          position,  \* of the drive
          target,    \* where the drive was before its first read
          last,      \* what the last read gave
          reads

disc_vars == <<source, line, sheet, phase, layout, image, position, target, last, reads>>

Nothing == [sector |-> -1]

DiscInit ==
  /\ source \in Sheets
  /\ line = 0 /\ sheet = EmptySheet /\ phase = "parsing" /\ layout = EmptyLayout(EmptySheet)
  /\ image = [toc |-> <<>>, lookup |-> IndexLookup(<<>>, 0)]
  /\ position = MsfOf(0, 0, 0) /\ target = 0 /\ last = Nothing /\ reads = 0

Parse ==
  LET next == parse_line(sheet, source[line + 1])
  IN  /\ phase = "parsing" /\ line < Len(source)
      /\ line' = line + 1
      /\ IF next = None THEN phase' = "rejected" /\ UNCHANGED sheet
                        ELSE sheet' = The(next) /\ UNCHANGED phase
      /\ UNCHANGED <<source, layout, image, position, target, last, reads>>

\* A file the sheet names may be missing.
Open ==
  /\ phase = "parsing" /\ line = Len(source)
  /\ \/ phase' = "opened" /\ layout' = EmptyLayout(sheet)
     \/ sheet.files # <<>> /\ phase' = "rejected" /\ UNCHANGED layout
  /\ UNCHANGED <<source, line, sheet, image, position, target, last, reads>>

LayOut ==
  /\ phase = "opened" /\ layout.file <= Len(sheet.files)
  /\ layout' = lay_out(sheet, layout)
  /\ phase' = [ok |-> "opened", error |-> "rejected", panic |-> "panicked"][layout'.out]
  /\ UNCHANGED <<source, line, sheet, image, position, target, last, reads>>

\* `CdImage::new`
Mount ==
  LET lookup == IndexLookup(layout.indices, sector(layout.abs))
      toc == build_toc(lookup)
  IN  /\ phase = "opened" /\ layout.file > Len(sheet.files)
      /\ phase' = IF overflows(toc) THEN "panicked" ELSE "mounted"
      /\ image' = [toc |-> toc, lookup |-> lookup]
      /\ UNCHANGED <<source, line, sheet, layout, position, target, last, reads>>

-----------------------------------------------------------------------------
\* The position in the track: what is left of a pregap, or the distance from
\* index one.  None if that panics.
track_msf(i, msf) ==
  LET lookup == image.lookup
      idx == lookup.indices[i]
      one == IF idx.index = 1 THEN Some(i) ELSE get_from_track(lookup, idx.track, 1)
      at(n) == IF n < 0 THEN None ELSE from_sector(n)
  IN  IF idx.index = 0
        THEN IF i + 1 \notin DOMAIN lookup.indices THEN None
             ELSE at(lookup.indices[i + 1].sector - sector(msf))
        ELSE IF one = None THEN None ELSE at(sector(msf) - lookup.indices[The(one)].sector)

\* The bytes of a sector of index i, zeros for the pregap.  None if they are not
\* in the file.
sector_data(i, msf) ==
  LET idx == image.lookup.indices[i]
      size == sector_size(idx.data.mode)
      start == idx.data.offset + size * (sector(msf) - idx.sector)
  IN  IF idx.data = PreGap THEN Some([binary |-> 0, offset |-> 0])
      ELSE IF start + size > sheet.files[idx.data.binary] THEN None
      ELSE Some([binary |-> idx.data.binary, offset |-> start])

\* `load_sector`, unwrapped.  `Sector::new` has no header for audio.
load_sector(msf) ==
  LET found == get_from_msf(image.lookup, msf)
      i     == The(found)
  IN  IF found = None THEN None
      ELSE IF i \notin DOMAIN image.lookup.indices THEN None
      ELSE IF None \in {track_msf(i, msf), sector_data(i, msf)} THEN None
      ELSE IF image.lookup.indices[i].format = "Audio" THEN None
      ELSE Some([sector |-> sector(msf), at |-> i, data |-> The(sector_data(i, msf)),
                 track |-> image.lookup.indices[i].track, index |-> image.lookup.indices[i].index,
                 track_msf |-> The(track_msf(i, msf))])

\* `seek_done`
Seek ==
  /\ phase = "mounted" /\ reads = 0
  /\ \E s \in Seeks \ {target} : position' = The(from_sector(s)) /\ target' = s
  /\ UNCHANGED <<source, line, sheet, phase, layout, image, last, reads>>

\* `sector_done` while the drive reads.
Read ==
  LET next == next_sector(position)
      read == load_sector(The(next))
  IN  /\ phase = "mounted" /\ reads < MaxReads /\ reads' = reads + 1
      /\ IF next = None
           THEN phase' = "panicked" /\ UNCHANGED <<position, last>>
           ELSE /\ position' = The(next)
                /\ IF read = None THEN phase' = "panicked" /\ last' = Nothing
                                  ELSE last' = The(read) /\ UNCHANGED phase
      /\ UNCHANGED <<source, line, sheet, layout, image, target>>

DiscNext == Parse \/ Open \/ LayOut \/ Mount \/ Seek \/ Read

DiscSpec == DiscInit /\ [][DiscNext]_disc_vars

-----------------------------------------------------------------------------
\* The sheet, read as the disc it describes.

Files == DOMAIN sheet.files
Tracks == DOMAIN sheet.tracks
Indices == DOMAIN sheet.indices

FileOf(n) == sheet.tracks[sheet.indices[n].track].binary
Start(n) == sector(sheet.indices[n].start)
InFile(f) == {n \in Indices : FileOf(n) = f}
OfTrack(t) == {n \in Indices : sheet.indices[n].track = t}

Size(f) == sector_size(sheet.tracks[CHOOSE t \in Tracks : sheet.tracks[t].binary = f].mode)
Sectors(f) == sheet.files[f] \div Size(f)

\* The first sector after the first f files: they are on the disc one after the
\* other, after two seconds.
Before[f \in 0 .. Len(sheet.files)] == IF f = 0 THEN 150 ELSE Before[f - 1] + Sectors(f)

Base(f) == Before[f - 1]
End == Before[Len(sheet.files)]

\* Where an index of a plain sheet is.
IndexSector(n) == Base(FileOf(n)) + Start(n)

\* The tracks are numbered from 1 and have an index one, at most an index zero
\* before it and nothing else.
PlainTracks ==
  /\ Len(sheet.tracks) <= 99
  /\ \A t \in Tracks :
       /\ as_binary(sheet.tracks[t].num) = t
       /\ \E n \in OfTrack(t) :
            /\ sheet.indices[n].num = 1 /\ OfTrack(t) \subseteq {n - 1, n}
            /\ n - 1 \in OfTrack(t) => sheet.indices[n - 1].num = 0

\* A file has one sector size and starts with an index; it has at most one more,
\* and there are sectors in each.
PlainFiles ==
  \A f \in Files :
    /\ \A t \in Tracks : sheet.tracks[t].binary = f => sector_size(sheet.tracks[t].mode) = Size(f)
    /\ \E n \in InFile(f) : Start(n) = 0 /\ InFile(f) \subseteq {n, n + 1}
    /\ \A n \in InFile(f) : /\ n - 1 \in InFile(f) => Start(n - 1) < Start(n)
                            /\ Start(n) < Sectors(f)

\* The drive can go to all of the disc.
Plain == sheet.files # <<>> /\ PlainTracks /\ PlainFiles /\ End <= Reach

FileAt(s) == CHOOSE f \in Files : s \in Base(f) .. Before[f] - 1
Data == \A t \in Tracks : sheet.tracks[t].mode # "AUDIO"

\* Every sector of a plain data disc is read, never a panic, in the order of the
\* disc from the one after the target of the seek (`sector_done` moves on before
\* it reads), and from the bytes of its file that are at its place: the files
\* are the disc, one after the other.
ReadsTheDisc ==
  LET s == target + reads
      f == FileAt(s)
  IN  reads > 0 /\ Plain /\ Data /\ s \in 150 .. End - 1 =>
        /\ phase = "mounted" /\ sector(position) = s
        /\ last.data = [binary |-> f, offset |-> (s - Base(f)) * Size(f)]

\* A sector that is read is in the last index that starts at or before it, and
\* on a plain disc the drive reports the sheet's track and index for it.
SectorIsInIndex ==
  last # Nothing =>
    LET all == image.lookup.indices
        i == last.at
    IN  /\ all[i].sector <= last.sector
        /\ \A j \in DOMAIN all : all[j].sector > all[i].sector => all[j].sector > last.sector
        /\ Plain => \E n \in Indices :
             /\ IndexSector(n) <= last.sector
             /\ n < Len(sheet.indices) => last.sector < IndexSector(n + 1)
             /\ last.index = sheet.indices[n].num
             /\ last.track = sheet.tracks[sheet.indices[n].track].num

\* The table of contents of a plain disc has its tracks, each from its index one
\* to the first index of the next track, and the last one to the end of the disc.
TocIsTheSheet ==
  phase = "mounted" /\ Plain =>
    /\ DOMAIN image.toc = Tracks
    /\ \A t \in Tracks :
         \A one \in OfTrack(t) : sheet.indices[one].num = 1 =>
           /\ image.toc[t].start = IndexSector(one)
           /\ image.toc[t].start + image.toc[t].length =
                IF one = Len(sheet.indices) THEN End ELSE IndexSector(one + 1)
=============================================================================
