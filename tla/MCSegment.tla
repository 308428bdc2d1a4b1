----------------------------- MODULE MCSegment ------------------------------
(***************************************************************************)
(* Files with a video track of MaxSamples half-second or one-second        *)
(* samples, whose sync samples are any set, and audio of quarter-second    *)
(* samples that ends before, with or after the video; files with the audio *)
(* first, without video, with two videos and with no track at all.         *)
(***************************************************************************)
EXTENDS Segment

MaxSamples == 4

Videos ==
  {TrakBuildIndex("vide", 2, delta, stss) :
     delta \in [1 .. MaxSamples -> {1, 2}], stss \in SUBSET (1 .. MaxSamples)}

Sound(n) == TrakBuildIndex("soun", 4, [k \in 1 .. n |-> 1], {})

\* Three samples a second: a marker falls between two samples, and the
\* conversion rounds.
Uneven(n) == TrakBuildIndex("soun", 3, [k \in 1 .. n |-> 1], {})

\* Samples of two seconds: two video sync samples share a marker.
Coarse(n) == TrakBuildIndex("soun", 4, [k \in 1 .. n |-> 8], {})

Film == TrakBuildIndex("vide", 2, <<2, 2, 1, 1>>, {1, 3})

MCFiles ==
  {MoovBuildIndex(<<v, a>>) :
     v \in Videos, a \in {Sound(8), Sound(18), Uneven(10), Coarse(3)}}
  \cup {MoovBuildIndex(f) :
          f \in {<<>>, <<Film>>, <<Sound(10)>>, <<Sound(10), Film>>,
                 <<Film, Film, Sound(12)>>, <<Sound(8), Film, Sound(9)>>,
                 <<Film, Sound(9), Sound(12)>>,
                 <<Film, TrakBuildIndex("soun", 4, <<2, 2, 2>>, {1})>>}}

MCAudioArgs == {0, 2}
MCStarts == 0 .. 2
MCLengths == {1, 2}
=============================================================================
