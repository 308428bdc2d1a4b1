------------------------------- MODULE Media -------------------------------
(***************************************************************************)
(* The sample index of an mp4 file, as src/mp4_reader.h builds it and as   *)
(* the playlist and the ts code read it.                                   *)
(*                                                                         *)
(* A track is a record: its handler type, its time scale, the number of    *)
(* samples (samples_size_), the decoding time of each sample (pts_), and   *)
(* the samples whose bit is_smooth_ss_ is set (sync).  Sample numbers are  *)
(* zero based, as in the code.  The index has one sample more than the     *)
(* track, the end sample, whose number is size: it carries the end time    *)
(* and its is_smooth_ss_ is always set.                                    *)
(*                                                                         *)
(* Byte positions, sizes and composition offsets are left out: no decision *)
(* about where a segment starts or ends reads them.                        *)
(***************************************************************************)
EXTENDS Integers, Sequences, FiniteSets

Kinds == {"vide", "soun"}

\* What the index of a track may look like: decoding times start at 0 and
\* never decrease, for they are sums of unsigned durations.
IsTrak(t) ==
  /\ t.kind \in Kinds
  /\ t.scale \in Nat \ {0}
  /\ t.size \in Nat
  /\ t.pts \in [0 .. t.size -> Nat] /\ t.pts[0] = 0
  /\ \A a, b \in 0 .. t.size : a <= b => t.pts[a] <= t.pts[b]
  /\ t.sync \subseteq 0 .. t.size - 1

Smooth(t, s) == s \in t.sync \/ s = t.size

\* The decoding times: the stts table, flattened to one duration per sample
\* (delta), summed up.
Pts(delta) ==
  LET pts[s \in 0 .. Len(delta)] ==
        IF s = 0 THEN 0 ELSE pts[s - 1] + delta[s]
  IN  pts

\* The index of one track.  stss holds one based sample numbers; a track
\* without an stss atom sets no bit at all.
TrakBuildIndex(kind, scale, delta, stss) ==
  [kind |-> kind, scale |-> scale, size |-> Len(delta),
   pts |-> Pts(delta), sync |-> {n - 1 : n \in stss}]

\* t counted in units of the scale "from", in units of the scale "to"
\* (the conversion truncates).
ConvertTime(t, to, from) == (t * to) \div from

\* The audio samples at which the markers of the video track land: for each
\* sync sample of the video, the first audio sample that does not start
\* before it, when there is one.
MarkersFromVideo(video, audio) ==
  LET time(v)   == ConvertTime(video.pts[v], audio.scale, video.scale)
      later(v)  == {a \in 0 .. audio.size - 1 : audio.pts[a] >= time(v)}
  IN  {CHOOSE a \in later(v) : \A b \in later(v) : a <= b :
         v \in {v \in video.sync : later(v) # {}}}

\* Without a video track: a marker about every two seconds.  due[s] is the
\* variable pts of the loop when it comes to sample s.
MarkersEveryTwoSeconds(audio) ==
  LET due[s \in 0 .. audio.size] ==
        IF s = 0 THEN 0
        ELSE due[s - 1] + IF audio.pts[s - 1] >= due[s - 1]
                          THEN 2 * audio.scale ELSE 0
  IN  {s \in 0 .. audio.size - 1 : audio.pts[s] >= due[s]}

\* The index of the whole file.  An audio track without an stss of its own
\* takes its markers from the last video track.
MoovBuildIndex(traks) ==
  LET videos == {k \in DOMAIN traks : traks[k].kind = "vide"}
      video  == traks[CHOOSE k \in videos : \A j \in videos : j <= k]
      markers(t) == IF videos # {} THEN MarkersFromVideo(video, t)
                                   ELSE MarkersEveryTwoSeconds(t)
  IN  [k \in DOMAIN traks |->
         IF traks[k].kind = "soun" /\ traks[k].sync = {}
         THEN [traks[k] EXCEPT !.sync = @ \cup markers(traks[k])]
         ELSE traks[k]]
=============================================================================
