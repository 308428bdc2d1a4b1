------------------------------ MODULE MCTsMux -------------------------------
(***************************************************************************)
(* Segments of one or two tracks.  Audio samples come in sizes that fill   *)
(* the payload by halves exactly (2930 with its header), overflow it, or   *)
(* do neither, and in steps below and above half a second; one pause is    *)
(* longer than the tables may stay away.  Video samples are too small to   *)
(* be written, broken, of one packet, or of several.                       *)
(***************************************************************************)
EXTENDS TsMux

Sample(t, c, n, good) == [dts |-> t, cto |-> c, size |-> n, ok |-> good]

AudioSizes == {300, 2930, 6000}
AudioTimes == {<<0, 2, 4>>, <<0, 60, 62>>, <<1, 3, 6200>>}

Audios ==
  {[kind |-> "soun", scale |-> 100,
    samples |-> [k \in 1 .. 3 |-> Sample(times[k], 0, sizes[k], TRUE)]] :
     times \in AudioTimes, sizes \in [1 .. 3 -> AudioSizes]}

Video(samples) == [kind |-> "vide", scale |-> 600, samples |-> samples]

Videos ==
  {Video(<<Sample(0, 12, 900, TRUE), Sample(18, 0, 130, TRUE)>>),
   Video(<<Sample(6, 0, 20, TRUE), Sample(18, 6, 200, TRUE), Sample(24, 0, 170, FALSE)>>)}

MCSegments ==
  {<<v, a>> : v \in Videos, a \in Audios}
  \cup {<<a, v>> : v \in Videos, a \in {b \in Audios : b.samples[1].size = 300}}
  \cup {<<a>> : a \in Audios} \cup {<<v>> : v \in Videos}
=============================================================================
