------------------------------- MODULE Tiling -------------------------------
(***************************************************************************)
(* What a media playlist promises, whatever code writes it: segments that  *)
(* follow one another from the first sample of the track to its end, each  *)
(* ending at the first sync sample that is far enough away, and each named *)
(* by the number of the sync sample it starts at.                          *)
(***************************************************************************)
EXTENDS Segmentation

VARIABLES
  trak,      \* the track the playlist is about
  length,    \* the segment length asked for, in seconds
  tiles      \* the segments listed so far

vars == <<trak, length, tiles>>

\* Where the part of the track that is covered so far ends.
Covered == IF tiles = <<>> THEN 0 ELSE tiles[Len(tiles)].to

Tile(from, to) == [number |-> Rank(trak, from), from |-> from, to |-> to]

Init == IsTrak(trak) /\ length \in Nat /\ tiles = <<>>

Extend ==
  /\ Covered # trak.size
  /\ tiles' = Append(tiles, Tile(Covered, Cut(trak, Covered, length)))
  /\ UNCHANGED <<trak, length>>

Next == Extend

Spec == Init /\ [][Next]_vars
=============================================================================
