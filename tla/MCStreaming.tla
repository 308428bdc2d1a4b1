---------------------------- MODULE MCStreaming -----------------------------
(***************************************************************************)
(* One film with sound, cut differently at one and at two seconds.         *)
(***************************************************************************)
EXTENDS Streaming

Video(delta, stss) == TrakBuildIndex("vide", 2, delta, stss)
Sound(n)           == TrakBuildIndex("soun", 4, [k \in 1 .. n |-> 1], {})

\* Sync samples at 0, 1, 2 and 2.5 seconds of 3: at a length of one second
\* the first segment holds no other sync sample, so its audio is judged on
\* its own; at two seconds it holds one.
Film == MoovBuildIndex(<<Video(<<2, 1, 1, 1, 1>>, {1, 2, 4, 5}), Sound(12)>>)

\* The sound stops before the film does, and has no sample in the last
\* segment.
ShortSound == MoovBuildIndex(<<Video(<<2, 1, 1, 2>>, {1, 2, 4}), Sound(6)>>)

MCFilms      == {Film, ShortSound}
MCLengthArgs == {1, 2}

MCConfigured == {2}
=============================================================================
