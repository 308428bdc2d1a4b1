---------------------------- MODULE Segmentation ----------------------------
(***************************************************************************)
(* Where the segments of a track begin and end: the reference definitions  *)
(* the playlist writer (Playlist) and the segment writer (Segment) are     *)
(* checked against, and which the system model (Streaming) is built from.  *)
(***************************************************************************)
EXTENDS Media, FiniteSetsExt

\* The test on which both loops cut: the time from sample a to sample b in
\* seconds, plus half a millisecond, reaches seconds.  The code computes it
\* in floats; here it is exact, in units of 1 / (2000 * scale) seconds.
LongEnough(t, a, b, seconds) ==
  2000 * (t.pts[b] - t.pts[a]) + t.scale >= 2000 * seconds * t.scale

\* The number of a sync sample, counted from 0 among the sync samples: the
\* number a playlist entry names its segment by.
Rank(t, s) == Cardinality({x \in t.sync : x < s})

\* The sync samples with number n: one, or none.
Numbered(t, n) == {s \in t.sync : Rank(t, s) = n}

\* Where a segment of the given length that starts at sample a must end.
CutPoints(t, a, seconds) ==
  {c \in a + 1 .. t.size : /\ Smooth(t, c)
                           /\ LongEnough(t, a, c, seconds) \/ c = t.size}

Cut(t, a, seconds) == Min(CutPoints(t, a, seconds))

\* The media playlist of a track: greedy cuts from sample 0 to the end.
PlaylistOf(t, seconds) ==
  LET from[k \in 0 .. t.size] ==
        IF k = 0 THEN 0
        ELSE LET a == from[k - 1]
             IN  IF a = t.size THEN t.size ELSE Cut(t, a, seconds)
      count == Cardinality({k \in 0 .. t.size : from[k] # t.size})
  IN  [k \in 1 .. count |->
         [number |-> Rank(t, from[k - 1]),
          from   |-> from[k - 1],
          to     |-> from[k]]]

\* Mutant of GetNext: the segment ends one sync sample early.
GetNextEarly(t, a, seconds, chunk) ==
  LET after == Numbered(t, Rank(t, a) + chunk)
  IN  IF chunk = 0 THEN Cut(t, a, seconds)
      ELSE IF after = {} THEN t.size
      ELSE Min(after)

\* get_next: the end of a segment that starts at sync sample a.  chunk is
\* the number of sync samples inside the segment the first track chose; 0
\* also stands for "not chosen yet".
GetNext(t, a, seconds, chunk) ==
  LET after == Numbered(t, Rank(t, a) + 1 + chunk)
  IN  IF chunk = 0 THEN Cut(t, a, seconds)
      ELSE IF after = {} THEN t.size
      ELSE Min(after)

\* How many sync samples lie strictly between a sync sample and its end.
Inside(t, a, b) == Rank(t, b) - Rank(t, a) - 1

-----------------------------------------------------------------------------
\* A request without audio argument, and one with audio=0, take track 1.
AudioTrack(arg) == IF arg # 0 THEN arg ELSE 1

\* The samples of track k that belong to segment n, when sync samples inside
\* the segment number chunk (0: not known).
FragmentOf(file, k, n, secs, chunk) ==
  LET t     == file[k + 1]
      first == Min(Numbered(t, n))
  IN  [track |-> k, first |-> first, last |-> GetNext(t, first, secs, chunk)]

\* The tracks that have a segment n and were asked for, in order.
Wanted(file, aud, n) ==
  {k \in 0 .. Len(file) - 1 :
     /\ Numbered(file[k + 1], n) # {}
     /\ file[k + 1].kind = "vide" \/ k = aud}

FragmentsOf(file, aud, n, secs) ==
  LET wanted == Wanted(file, aud, n)
      k1     == Min(wanted)
      k2     == Min(wanted \ {k1})
      f1     == FragmentOf(file, k1, n, secs, 0)
      f2     == FragmentOf(file, k2, n, secs, Inside(file[k1 + 1], f1.first, f1.last))
  IN  CASE wanted = {}                 -> <<>>
        [] Cardinality(wanted) = 1     -> <<f1>>
        [] OTHER                       -> <<f1, f2>>

-----------------------------------------------------------------------------
\* The audio markers are those that moov_build_index copies from a video
\* track (a file whose audio has an stss of its own is excepted).
MarkedBy(v, a) == v.kind = "vide" /\ a.sync = MarkersFromVideo(v, a)

\* The audio sample at which the marker of sync sample s of v lies; the end of
\* the audio when there is none, or when s is the end of v.
MarkerOf(v, a, s) ==
  LET later == {x \in 0 .. a.size - 1 :
                  a.pts[x] >= ConvertTime(v.pts[s], a.scale, v.scale)}
  IN  IF s = v.size \/ later = {} THEN a.size ELSE Min(later)

\* No two sync samples of v share a marker.
MarkersApart(v, a) ==
  \A x, y \in v.sync :
    x # y => MarkerOf(v, a, x) # MarkerOf(v, a, y) \/ MarkerOf(v, a, x) = a.size
=============================================================================
