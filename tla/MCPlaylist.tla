----------------------------- MODULE MCPlaylist -----------------------------
(***************************************************************************)
(* Every track of at most MaxSamples samples, with every combination of    *)
(* the given durations and every set of sync samples, the empty one and    *)
(* those without the first sample included.  A time scale of 2 makes the   *)
(* seconds small; one of 2000 with durations of 1999 sits exactly on the   *)
(* half millisecond that is added before the comparison.                   *)
(***************************************************************************)
EXTENDS Playlist

MaxSamples == 4

Shapes(n, durations) == [1 .. n -> durations]

TraksOf(scale, durations) ==
  UNION {{TrakBuildIndex("vide", scale, delta, stss) :
            delta \in Shapes(n, durations), stss \in SUBSET (1 .. n)} :
            n \in 0 .. MaxSamples}

MCTraks == TraksOf(2, {1, 3, 7}) \cup TraksOf(2000, {1998, 1999})

MCLengths == {1, 2}
=============================================================================
