----------------------------- MODULE DiscIndex -----------------------------
(***************************************************************************)
(* The indices of a disc, looked up by position and by track (splst_cdimg, *)
(* index.rs), and the table of contents made of them.  Positions in the    *)
(* vector count from 0; an index is a record of its sector, its number,    *)
(* its track's number and where its data is.                               *)
(***************************************************************************)
EXTENDS Msf, Sequences

Less == -1
Equal == 0
Greater == 1
cmp(a, b) == IF a < b THEN Less ELSE IF a > b THEN Greater ELSE Equal

\* The library's search in a vector of n elements, which the function `order`
\* compares with the one that is sought: where it is, or where it would be.
\* A probe halves what is left, from l to r, so that n of them are enough.
Probes(n) == [l : 0 .. n, r : 0 .. n, ok : BOOLEAN]

binary_search(n, order) ==
  LET mid(s) == s.l + (s.r - s.l) \div 2
      probe[s \in Probes(n)] ==
        IF s.ok \/ s.l >= s.r THEN s
        ELSE CASE order[mid(s)] = Less    -> [l |-> mid(s) + 1, r |-> s.r, ok |-> FALSE]
               [] order[mid(s)] = Greater -> [l |-> s.l, r |-> mid(s), ok |-> FALSE]
               [] order[mid(s)] = Equal   -> [l |-> mid(s), r |-> s.r, ok |-> TRUE]
      search[k \in 0 .. n] ==
        IF k = 0 THEN [l |-> 0, r |-> n, ok |-> FALSE] ELSE probe[search[k - 1]]
  IN  [ok |-> search[n].ok, at |-> search[n].l]

\* `IndexLookup::new`: sorted by the sector, equal ones in the order they had.
before(indices, a, b) ==
  \/ indices[a].sector < indices[b].sector
  \/ indices[a].sector = indices[b].sector /\ a < b

sorted(indices) ==
  CHOOSE order \in [DOMAIN indices -> DOMAIN indices] :
    \A a, b \in DOMAIN indices : a < b => before(indices, order[a], order[b])

IndexLookup(indices, first_in_lead_out) ==
  [indices |-> [i \in 0 .. Len(indices) - 1 |-> indices[sorted(indices)[i + 1]]],
   len |-> Len(indices), lead_out |-> first_in_lead_out]

\* Fault: the next index is taken if none starts at the sector.
Fault_get_from_msf(lookup, msf) ==
  LET s == sector(msf)
      found == binary_search(lookup.len,
                             [i \in DOMAIN lookup.indices |-> cmp(lookup.indices[i].sector, s)])
  IN  IF s > lookup.lead_out THEN None ELSE Some(found.at)

\* `get_from_msf`: None after the disc; -1, which overflows, before the first index.
get_from_msf(lookup, msf) ==
  LET s == sector(msf)
      found == binary_search(lookup.len,
                             [i \in DOMAIN lookup.indices |-> cmp(lookup.indices[i].sector, s)])
  IN  IF s > lookup.lead_out THEN None ELSE Some(IF found.ok THEN found.at ELSE found.at - 1)

\* `get_from_track`
get_from_track(lookup, track, index) ==
  LET order(i) == IF lookup.indices[i].track = track THEN cmp(lookup.indices[i].index, index)
                  ELSE cmp(lookup.indices[i].track, track)
      found == binary_search(lookup.len, [i \in DOMAIN lookup.indices |-> order(i)])
  IN  IF found.ok THEN Some(found.at) ELSE None

\* Fault: the pregap of the next track is counted.
Fault_track_end(lookup, i) ==
  LET others == {j \in DOMAIN lookup.indices : j > i /\ lookup.indices[j].index = 1}
  IN  IF others = {} THEN lookup.lead_out
      ELSE lookup.indices[CHOOSE j \in others : \A k \in others : j <= k].sector

\* Where the track of index i ends: at the next index of another, or the lead-out.
track_end(lookup, i) ==
  LET others == {j \in DOMAIN lookup.indices : j > i /\ lookup.indices[j].track # lookup.indices[i].track}
  IN  IF others = {} THEN lookup.lead_out
      ELSE lookup.indices[CHOOSE j \in others : \A k \in others : j <= k].sector

\* A length below zero, which overflows, is kept for `overflows`.
track_len(lookup, track) ==
  LET i == get_from_track(lookup, track, 1)
      first == lookup.indices[The(i)].sector
      length == track_end(lookup, The(i)) - first
  IN  IF i = None THEN None
      ELSE IF length >= 0 /\ from_sector(length) = None THEN None
      ELSE Some([start |-> first, length |-> length])

\* `build_toc`: the tracks from 1 up to the first that is missing.
build_toc(lookup) ==
  LET entry == [n \in 1 .. 99 |-> track_len(lookup, The(bcd_from_binary(n)))]
      missing == {n \in 1 .. 99 : entry[n] = None}
  IN  [n \in {k \in 1 .. 99 : \A m \in missing : k < m} |-> The(entry[n])]

overflows(toc) == \E n \in DOMAIN toc : toc[n].length < 0
=============================================================================
