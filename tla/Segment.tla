------------------------------ MODULE Segment -------------------------------
(***************************************************************************)
(* output_ts (src/output_ts.h), its first half: which samples of which     *)
(* tracks go into segment number start.  For each track the code walks the *)
(* samples up to the sync sample with that number, and from there get_next *)
(* walks on to the end of the segment.                                     *)
(*                                                                         *)
(* Variables keep the code's names; next and next_i are get_next's next    *)
(* and i.  fragment[k + 1] is the code's fragment[k].  Track numbers are   *)
(* zero based, as in the code: track k is traks[k + 1].                    *)
(***************************************************************************)
EXTENDS Segmentation, SequencesExt

CONSTANTS
  Files,       \* the files that may be asked for: sequences of indexed tracks
  AudioArgs,   \* values of options->fragment_track_id; 0 when not given
  Starts,      \* values of options->fragment_start
  Lengths      \* values of conf->length

ASSUME FilesAssumption ==
  \A f \in Files : /\ Len(f) \in Nat /\ DOMAIN f = 1 .. Len(f)
                   /\ \A k \in DOMAIN f : IsTrak(f[k])
ASSUME ArgumentsAssumption ==
  AudioArgs \subseteq Nat /\ Starts \subseteq Nat /\ Lengths \subseteq Nat

MaxFragmentSize == 2

VARIABLES
  traks, audio, start, seconds,         \* the request
  pc, track_id, sample, i,              \* the walk to the sync sample
  next, next_i, last_chunk,             \* the walk to its end
  fragment, audio_tracks                \* what has been chosen

request == <<traks, audio, start, seconds>>
walk    == <<track_id, sample, i>>
getnext == <<next, next_i>>
chosen  == <<last_chunk, fragment, audio_tracks>>
vars    == <<request, pc, walk, getnext, chosen>>

Init ==
  /\ traks \in Files /\ start \in Starts /\ seconds \in Lengths
  /\ \E arg \in AudioArgs : audio = AudioTrack(arg)
  /\ pc = "track"
  /\ track_id = 0 /\ sample = 0 /\ i = 0
  /\ next = 0 /\ next_i = 0 /\ last_chunk = 0
  /\ fragment = <<>> /\ audio_tracks = 0

trak == traks[track_id + 1]
OnSync == pc = "track" /\ track_id < Len(traks) /\ sample < trak.size
                       /\ Smooth(trak, sample)
OtherAudio == trak.kind = "soun" /\ track_id # audio

NextTrack ==
  /\ track_id' = track_id + 1
  /\ sample' = 0 /\ i' = 0

SkipSample ==
  /\ pc = "track" /\ track_id < Len(traks) /\ sample < trak.size
  /\ ~ Smooth(trak, sample)
  /\ sample' = sample + 1
  /\ UNCHANGED <<request, pc, track_id, i, getnext, chosen>>

\* end = 2: an audio track that was not asked for.
PassOverAudio ==
  /\ OnSync /\ OtherAudio
  /\ NextTrack
  /\ UNCHANGED <<request, pc, getnext, chosen>>

PassSync ==
  /\ OnSync /\ ~ OtherAudio /\ i # start
  /\ sample' = sample + 1 /\ i' = i + 1
  /\ UNCHANGED <<request, pc, track_id, getnext, chosen>>

CountAudio == audio_tracks' = audio_tracks + IF trak.kind = "soun" THEN 1 ELSE 0

\* end = 1: the sync sample is found, and there is room for its fragment.
BeginFragment ==
  /\ OnSync /\ ~ OtherAudio /\ i = start
  /\ Len(fragment) < MaxFragmentSize
  /\ CountAudio
  /\ pc' = "next"
  /\ next' = sample + 1 /\ next_i' = 0
  /\ UNCHANGED <<request, walk, last_chunk, fragment>>

\* end = 1 without room: the audio track is counted all the same.
NoRoom ==
  /\ OnSync /\ ~ OtherAudio /\ i = start
  /\ Len(fragment) = MaxFragmentSize
  /\ CountAudio
  /\ NextTrack
  /\ UNCHANGED <<request, pc, getnext, last_chunk, fragment>>

EndOfTrack ==
  /\ pc = "track" /\ track_id < Len(traks) /\ sample = trak.size
  /\ NextTrack
  /\ UNCHANGED <<request, pc, getnext, chosen>>

NextSkip ==
  /\ pc = "next" /\ next < trak.size
  /\ ~ Smooth(trak, next)
  /\ next' = next + 1
  /\ UNCHANGED <<request, pc, walk, next_i, chosen>>

\* Mutant of StopHere: the sync samples inside are counted from one.
StopHereFromOne ==
  IF last_chunk = 0 THEN LongEnough(trak, sample, next, seconds)
                    ELSE last_chunk = next_i + 1

\* Mutant of StopHere: the first sync sample after the start never ends a segment.
StopHereLate ==
  IF last_chunk = 0 THEN next_i > 0 /\ LongEnough(trak, sample, next, seconds)
                    ELSE last_chunk = next_i

StopHere ==
  IF last_chunk = 0 THEN LongEnough(trak, sample, next, seconds)
                    ELSE last_chunk = next_i

NextPass ==
  /\ pc = "next" /\ next < trak.size
  /\ Smooth(trak, next) /\ ~ StopHere
  /\ next' = next + 1 /\ next_i' = next_i + 1
  /\ UNCHANGED <<request, pc, walk, chosen>>

\* Mutant of NextStop: last_chunk is not handed on to the next track.
NextStopForgets ==
  /\ pc = "next"
  /\ next = trak.size \/ (Smooth(trak, next) /\ StopHere)
  /\ fragment' = Append(fragment, [track |-> track_id, first |-> sample, last |-> next])
  /\ pc' = "track"
  /\ NextTrack
  /\ UNCHANGED <<request, getnext, last_chunk, audio_tracks>>

\* get_next returns, the fragment is stored, and the loop leaves the track.
NextStop ==
  /\ pc = "next"
  /\ next = trak.size \/ (Smooth(trak, next) /\ StopHere)
  /\ fragment' = Append(fragment, [track |-> track_id, first |-> sample, last |-> next])
  /\ last_chunk' = IF last_chunk = 0 THEN next_i ELSE last_chunk
  /\ pc' = "track"
  /\ NextTrack
  /\ UNCHANGED <<request, getnext, audio_tracks>>

\* Every track has been walked: without a fragment the request fails.
Finish ==
  /\ pc = "track" /\ track_id = Len(traks)
  /\ pc' = IF fragment = <<>> THEN "failed" ELSE "done"
  /\ UNCHANGED <<request, walk, getnext, chosen>>

Next ==
  \/ SkipSample \/ PassOverAudio \/ PassSync \/ BeginFragment \/ NoRoom
  \/ EndOfTrack \/ NextSkip \/ NextPass \/ NextStop \/ Finish

Spec == Init /\ [][Next]_vars /\ WF_vars(Next)

\* Mutant of fragment_size: always as many as there are slots.
fragment_size_max == MaxFragmentSize

\* The number of fragments the muxer is told of.
fragment_size ==
  IF 1 + audio_tracks > MaxFragmentSize THEN MaxFragmentSize ELSE 1 + audio_tracks

-----------------------------------------------------------------------------

\* The walks choose what FragmentsOf says, and fail only when it is empty.
ChoosesFragments ==
  pc \in {"done", "failed"} =>
    /\ fragment = FragmentsOf(traks, audio, start, seconds)
    /\ pc = "failed" <=> fragment = <<>>

\* A request for a number the playlist lists is answered with the samples the
\* playlist means: get_next, which starts from the sync sample with that
\* number, stops where the loop of mp4_create_m3u8 wrote the entry.  (Entries
\* that start at a first sample that is no sync sample are excepted: their
\* number is not theirs.)
AnswersPlaylist ==
  pc \in {"done", "failed"} /\ Len(traks) > 0 /\ traks[1].kind = "vide" =>
    \A e \in ToSet(PlaylistOf(traks[1], seconds)) :
      e.number = start /\ e.from \in traks[1].sync =>
        /\ fragment # <<>>
        /\ fragment[1] = [track |-> 0, first |-> e.from, last |-> e.to]

\* The muxer writes a stream for every fragment it is told of, so each of
\* them must have been filled.
SlotsFilled ==
  /\ pc = "done"
  /\ audio < Len(traks) /\ traks[audio + 1].kind = "soun" =>
       \E v \in ToSet(traks) : MarkedBy(v, traks[audio + 1])
  => fragment_size <= Len(fragment)

\* The segment from x to y is longer than asked for by at least one audio
\* sample and the rounding of the conversion.
FrameToSpare(v, a, x, y) ==
  \A s \in 0 .. a.size - 1 :
    (v.pts[y] - v.pts[x]) * a.scale
      >= (seconds * a.scale + a.pts[s + 1] - a.pts[s] + 1) * v.scale

\* The audio of a segment starts at the marker of its first video sample and
\* runs at least to the marker of the next segment's: consecutive segments
\* leave no gap in the sound.  It stops exactly there when other sync samples
\* lie inside the segment, or when it has a frame to spare; else get_next,
\* which takes last_chunk = 0 for "not known", judges the audio on its own.
AudioFollowsVideo ==
  pc = "done" /\ Len(fragment) = 2 =>
    LET v == traks[fragment[1].track + 1]
        a == traks[fragment[2].track + 1]
        x == fragment[1].first
        y == fragment[1].last
    IN  MarkedBy(v, a) /\ a.kind = "soun" /\ MarkersApart(v, a) =>
          /\ fragment[2].first = MarkerOf(v, a, x)
          /\ fragment[2].last >= MarkerOf(v, a, y)
          /\ Inside(v, x, y) > 0 \/ FrameToSpare(v, a, x, y) =>
               fragment[2].last = MarkerOf(v, a, y)
=============================================================================
