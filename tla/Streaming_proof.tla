-------------------------- MODULE Streaming_proof ---------------------------
(***************************************************************************)
(* Theorems about Segment and about Streaming: any request for a segment   *)
(* is answered with the samples it should be, for any files and lengths,   *)
(* and so are the requests of any number of clients to any number of       *)
(* workers.  The two modules share no variable; Spec is Segment's, and     *)
(* StreamingSpec is Streaming's.                                           *)
(***************************************************************************)
EXTENDS Segment, Streaming, Segmentation_proof, SequenceTheorems, TLAPS

(* Segment                                                                 *)

\* Two fragments, stored one after the other.
LEMMA AppendToOne ==
  ASSUME NEW x, NEW y
  PROVE  Append(<<x>>, y) = <<x, y>>
<1>1. \A S : \A u, w \in S : Append(<<u>>, w) = <<u, w>>
  <2> SUFFICES ASSUME NEW S, NEW u \in S, NEW w \in S PROVE Append(<<u>>, w) = <<u, w>>
    OBVIOUS
  <2>1. <<u>> \in Seq(S)
    OBVIOUS
  <2>2. Append(<<u>>, w) \in Seq(S) /\ Len(Append(<<u>>, w)) = 2
        /\ Append(<<u>>, w)[1] = u /\ Append(<<u>>, w)[2] = w
    BY <2>1, AppendProperties
  <2>3. <<u, w>> \in Seq(S) /\ Len(<<u, w>>) = 2 /\ <<u, w>>[1] = u /\ <<u, w>>[2] = w
    OBVIOUS
  <2> DEFINE s == Append(<<u>>, w)
             t == <<u, w>>
  <2>4. s \in Seq(S) /\ t \in Seq(S) /\ Len(s) = Len(t) /\ \A n \in 1 .. Len(s) : s[n] = t[n]
    BY <2>2, <2>3
  <2> HIDE DEF s, t
  <2>5. s = t
    BY <2>4, SeqEqual
  <2> QED BY <2>5 DEF s, t
<1> DEFINE T == {x, y}
<1>2. x \in T /\ y \in T
  OBVIOUS
<1> HIDE DEF T
<1> QED BY <1>1, <1>2

\* The typing of the request: it never changes.
RequestTyped ==
  /\ IsFile(traks)
  /\ audio \in Nat /\ start \in Nat /\ seconds \in Nat

\* The tracks asked for among the first k of the file.
WantedBefore(k) == {j \in Wanted(traks, audio, start) : j < k}

FirstFragment(k1)      == FragmentOf(traks, k1, start, seconds, 0)
SecondFragment(k1, k2) == SecondOf(traks, k1, k2, start, seconds)
InsideFirst(k1) ==
  Inside(traks[k1 + 1], FirstFragment(k1).first, FirstFragment(k1).last)

\* When the tracks in W have been walked: which fragments are stored, and how
\* many sync samples get_next will be told of.
NoneStored(W) == W = {} /\ fragment = <<>> /\ last_chunk = 0
OneStored(W) ==
  \E k1 \in W : /\ W = {k1} /\ fragment = <<FirstFragment(k1)>>
                /\ last_chunk = InsideFirst(k1)
TwoStored(W) ==
  \E k1, k2 \in W : /\ k1 < k2 /\ \A j \in W : j = k1 \/ k2 <= j
                    /\ fragment = <<FirstFragment(k1), SecondFragment(k1, k2)>>
StoredFor(W) == NoneStored(W) \/ OneStored(W) \/ TwoStored(W)

\* The walk to the sync sample: i counts the sync samples it has passed.
WalkCounts ==
  pc \in {"track", "next"} /\ track_id < Len(traks) =>
    /\ sample \in 0 .. trak.size
    /\ i = Rank(trak, sample) /\ i <= start

\* get_next would have stopped at c.
StopsAt(c) ==
  IF last_chunk = 0 THEN LongEnough(trak, sample, c, seconds)
                    ELSE last_chunk = Inside(trak, sample, c)

\* The walk to the end: it starts at the sync sample asked for, and has passed
\* no place to stop.
NextCounts ==
  pc = "next" =>
    /\ track_id < Len(traks) /\ ~ OtherAudio /\ Len(fragment) < MaxFragmentSize
    /\ sample \in trak.sync /\ i = start
    /\ next \in sample + 1 .. trak.size
    /\ next_i = Inside(trak, sample, next)
    /\ \A c \in sample + 1 .. next - 1 : Smooth(trak, c) => ~ StopsAt(c)

\* An audio track is counted only if it is the one asked for, and has the
\* segment.
AudioCounted ==
  /\ audio_tracks \in Nat
  /\ audio_tracks # 0 =>
       /\ audio < Len(traks) /\ traks[audio + 1].kind = "soun"
       /\ Numbered(traks[audio + 1], start) # {}

Places ==
  /\ pc \in {"track", "next", "done", "failed"}
  /\ track_id \in 0 .. Len(traks)
  /\ pc \in {"done", "failed"} => track_id = Len(traks)
  /\ pc = "done" => fragment # <<>>
  /\ pc = "failed" => fragment = <<>>
  /\ last_chunk \in Nat

SegmentInvariant ==
  /\ RequestTyped /\ Places /\ WalkCounts /\ NextCounts /\ AudioCounted
  /\ StoredFor(WantedBefore(track_id))

-----------------------------------------------------------------------------
\* What every step that stays in its track needs.
LEMMA TrakTyped ==
  ASSUME RequestTyped, track_id \in 0 .. Len(traks), track_id < Len(traks)
  PROVE  IsTrak(trak) /\ trak.size \in Nat /\ trak.sync \subseteq 0 .. trak.size - 1
         /\ track_id + 1 \in DOMAIN traks
BY DEF RequestTyped, IsFile, trak, IsTrak

\* Going over a track that was not asked for, or has no such segment.
LEMMA NotWanted ==
  ASSUME NEW k \in Nat, k \notin Wanted(traks, audio, start), RequestTyped
  PROVE  WantedBefore(k + 1) = WantedBefore(k)
<1>1. Wanted(traks, audio, start) \subseteq Nat
  BY WantedTracks DEF RequestTyped
<1> QED BY <1>1 DEF WantedBefore

\* ... and one that is wanted joins it.
LEMMA IsWanted ==
  ASSUME NEW k \in Nat, k \in Wanted(traks, audio, start), RequestTyped
  PROVE  WantedBefore(k + 1) = WantedBefore(k) \cup {k}
<1>1. Wanted(traks, audio, start) \subseteq Nat
  BY WantedTracks DEF RequestTyped
<1> QED BY <1>1 DEF WantedBefore

\* The stored fragments stay right when the tracks asked for stay the same.
LEMMA StoredStays ==
  ASSUME UNCHANGED request, fragment' = fragment, last_chunk' = last_chunk,
         StoredFor(WantedBefore(track_id)),
         WantedBefore(track_id') = WantedBefore(track_id)
  PROVE  StoredFor(WantedBefore(track_id))'
<1>1. WantedBefore(track_id)' = WantedBefore(track_id)
  BY DEF WantedBefore, request
<1>2. \A k : /\ FirstFragment(k)' = FirstFragment(k) /\ InsideFirst(k)' = InsideFirst(k)
             /\ \A j : SecondFragment(k, j)' = SecondFragment(k, j)
  BY DEF FirstFragment, SecondFragment, InsideFirst, request
<1>3. CASE NoneStored(WantedBefore(track_id))
  BY <1>1, <1>3 DEF StoredFor, NoneStored
<1>4. CASE OneStored(WantedBefore(track_id))
  <2>1. OneStored(WantedBefore(track_id))'
    BY <1>1, <1>2, <1>4 DEF OneStored
  <2> QED BY <2>1 DEF StoredFor
<1>5. CASE TwoStored(WantedBefore(track_id))
  <2>1. TwoStored(WantedBefore(track_id))'
    BY <1>1, <1>2, <1>5 DEF TwoStored
  <2> QED BY <2>1 DEF StoredFor
<1> QED BY <1>3, <1>4, <1>5 DEF StoredFor

\* The walk over the samples: one that is no sync sample.
LEMMA SkipSampleKeeps == SegmentInvariant /\ SkipSample => SegmentInvariant'
<1> SUFFICES ASSUME SegmentInvariant, SkipSample PROVE SegmentInvariant'
  OBVIOUS
<1>1. UNCHANGED <<request, pc, track_id, i, getnext, chosen>> /\ sample' = sample + 1
      /\ pc = "track" /\ track_id < Len(traks) /\ sample < trak.size /\ ~ Smooth(trak, sample)
  BY DEF SkipSample
<1>2. trak' = trak /\ traks' = traks
  BY <1>1 DEF trak, request
<1>3. RequestTyped'
  BY <1>1 DEF SegmentInvariant, RequestTyped, request, IsFile
<1>4. Places'
  BY <1>1 DEF SegmentInvariant, Places, request, chosen
<1>5. WalkCounts'
  <2>1. IsTrak(trak) /\ trak.size \in Nat
    BY <1>1, TrakTyped DEF SegmentInvariant, Places
  <2>2. sample \in Nat /\ sample \in 0 .. trak.size /\ i = Rank(trak, sample) /\ i <= start
    BY <1>1, <2>1 DEF SegmentInvariant, WalkCounts
  <2>3. Rank(trak, sample + 1) = Rank(trak, sample)
    BY <1>1, <2>1, <2>2, RankStep DEF Smooth
  <2> QED BY <1>1, <1>2, <2>1, <2>2, <2>3 DEF WalkCounts, request
<1>6. NextCounts'
  BY <1>1 DEF NextCounts
<1>7. AudioCounted'
  BY <1>1 DEF SegmentInvariant, AudioCounted, request, chosen
<1>8. StoredFor(WantedBefore(track_id))'
  <2>1. UNCHANGED request /\ fragment' = fragment /\ last_chunk' = last_chunk /\ track_id' = track_id
    BY <1>1 DEF chosen
  <2> QED BY <2>1, StoredStays DEF SegmentInvariant
<1> QED BY <1>3, <1>4, <1>5, <1>6, <1>7, <1>8 DEF SegmentInvariant

\* A sync sample that does not have the number asked for.
LEMMA PassSyncKeeps == SegmentInvariant /\ PassSync => SegmentInvariant'
<1> SUFFICES ASSUME SegmentInvariant, PassSync PROVE SegmentInvariant'
  OBVIOUS
<1>1. UNCHANGED <<request, pc, track_id, getnext, chosen>> /\ sample' = sample + 1 /\ i' = i + 1
      /\ pc = "track" /\ track_id < Len(traks) /\ sample < trak.size /\ Smooth(trak, sample)
      /\ i # start
  BY DEF PassSync, OnSync
<1>2. trak' = trak /\ traks' = traks
  BY <1>1 DEF trak, request
<1>3. RequestTyped'
  BY <1>1 DEF SegmentInvariant, RequestTyped, request, IsFile
<1>4. Places'
  BY <1>1 DEF SegmentInvariant, Places, request, chosen
<1>5. WalkCounts'
  <2>1. IsTrak(trak) /\ trak.size \in Nat
    BY <1>1, TrakTyped DEF SegmentInvariant, Places
  <2>2. sample \in Nat /\ sample \in 0 .. trak.size /\ i = Rank(trak, sample) /\ i <= start
    BY <1>1, <2>1 DEF SegmentInvariant, WalkCounts
  <2>3. Rank(trak, sample + 1) = Rank(trak, sample) + 1
    <3>1. sample \in trak.sync
      BY <1>1, <2>1, <2>2 DEF Smooth
    <3> QED BY <2>1, <2>2, <3>1, RankStep
  <2>4. i \in Nat /\ start \in Nat
    <3>1. sample \in Int
      BY <2>2
    <3> QED BY <2>1, <2>2, <3>1, RankType DEF SegmentInvariant, RequestTyped
  <2> QED BY <1>1, <1>2, <2>1, <2>2, <2>3, <2>4 DEF WalkCounts, request
<1>6. NextCounts'
  BY <1>1 DEF NextCounts
<1>7. AudioCounted'
  BY <1>1 DEF SegmentInvariant, AudioCounted, request, chosen
<1>8. StoredFor(WantedBefore(track_id))'
  <2>1. UNCHANGED request /\ fragment' = fragment /\ last_chunk' = last_chunk /\ track_id' = track_id
    BY <1>1 DEF chosen
  <2> QED BY <2>1, StoredStays DEF SegmentInvariant
<1> QED BY <1>3, <1>4, <1>5, <1>6, <1>7, <1>8 DEF SegmentInvariant

\* The loop goes on with the first sample of the next track.
LEMMA NextTrackStarts ==
  ASSUME RequestTyped, Places, UNCHANGED request, track_id < Len(traks),
         NextTrack, pc' = "track"
  PROVE  /\ RequestTyped' /\ WalkCounts' /\ NextCounts'
         /\ track_id \in Nat /\ track_id' = track_id + 1
         /\ track_id' \in 0 .. Len(traks)'
<1>1. traks' = traks /\ audio' = audio /\ start' = start /\ seconds' = seconds
  BY DEF request
<1>2. RequestTyped'
  BY <1>1 DEF RequestTyped, IsFile
<1>3. track_id \in Nat /\ track_id' = track_id + 1 /\ track_id' \in 0 .. Len(traks)'
      /\ sample' = 0 /\ i' = 0
  <2>1. Len(traks) \in Nat /\ track_id \in 0 .. Len(traks) /\ Len(traks)' = Len(traks)
    BY <1>1 DEF Places, RequestTyped, IsFile
  <2>2. track_id' = track_id + 1 /\ sample' = 0 /\ i' = 0
    BY DEF NextTrack
  <2> QED BY <2>1, <2>2
<1>4. WalkCounts'
  <2> SUFFICES ASSUME track_id' < Len(traks)'
               PROVE  sample' \in 0 .. trak'.size /\ i' = Rank(trak', sample') /\ i' <= start'
    BY DEF WalkCounts
  <2>1. IsTrak(trak') /\ trak'.size \in Nat
    <3>1. track_id' + 1 \in 1 .. Len(traks)
      BY <1>1, <1>3 DEF RequestTyped, IsFile
    <3> QED BY <1>1, <3>1 DEF RequestTyped, IsFile, trak, IsTrak
  <2>2. Rank(trak', 0) = 0
    BY <2>1, RankOfFirst
  <2> QED BY <1>1, <1>3, <2>1, <2>2 DEF RequestTyped
<1>5. NextCounts'
  BY DEF NextCounts
<1> QED BY <1>2, <1>3, <1>4, <1>5

\* An audio track that is not the one asked for.
LEMMA PassOverAudioKeeps == SegmentInvariant /\ PassOverAudio => SegmentInvariant'
<1> SUFFICES ASSUME SegmentInvariant, PassOverAudio PROVE SegmentInvariant'
  OBVIOUS
<1>1. UNCHANGED <<request, pc, getnext, chosen>> /\ NextTrack
      /\ pc = "track" /\ track_id < Len(traks) /\ OtherAudio
  BY DEF PassOverAudio, OnSync
<1>2. /\ RequestTyped' /\ WalkCounts' /\ NextCounts'
      /\ track_id \in Nat /\ track_id' = track_id + 1 /\ track_id' \in 0 .. Len(traks)'
  BY <1>1, NextTrackStarts DEF SegmentInvariant
<1>3. Places'
  BY <1>1, <1>2 DEF SegmentInvariant, Places, chosen
<1>4. AudioCounted'
  BY <1>1 DEF SegmentInvariant, AudioCounted, request, chosen
<1>5. track_id \notin Wanted(traks, audio, start)
  BY <1>1 DEF OtherAudio, trak, Wanted
<1>6. WantedBefore(track_id') = WantedBefore(track_id)
  BY <1>2, <1>5, NotWanted DEF SegmentInvariant
<1>7. StoredFor(WantedBefore(track_id))'
  <2>1. UNCHANGED request /\ fragment' = fragment /\ last_chunk' = last_chunk
    BY <1>1 DEF chosen
  <2> QED BY <1>6, <2>1, StoredStays DEF SegmentInvariant
<1> QED BY <1>2, <1>3, <1>4, <1>7 DEF SegmentInvariant

\* A track without the number is left.
LEMMA EndOfTrackKeeps == SegmentInvariant /\ EndOfTrack => SegmentInvariant'
<1> SUFFICES ASSUME SegmentInvariant, EndOfTrack PROVE SegmentInvariant'
  OBVIOUS
<1>1. UNCHANGED <<request, pc, getnext, chosen>> /\ NextTrack
      /\ pc = "track" /\ track_id < Len(traks) /\ sample = trak.size
  BY DEF EndOfTrack
<1>2. /\ RequestTyped' /\ WalkCounts' /\ NextCounts'
      /\ track_id \in Nat /\ track_id' = track_id + 1 /\ track_id' \in 0 .. Len(traks)'
  BY <1>1, NextTrackStarts DEF SegmentInvariant
<1>3. Places'
  BY <1>1, <1>2 DEF SegmentInvariant, Places, chosen
<1>4. AudioCounted'
  BY <1>1 DEF SegmentInvariant, AudioCounted, request, chosen
<1>5. track_id \notin Wanted(traks, audio, start)
  <2>1. IsTrak(trak) /\ trak.size \in Nat /\ start \in Nat
    BY <1>1, TrakTyped DEF SegmentInvariant, Places, RequestTyped
  <2>2. Rank(trak, trak.size) <= start
    BY <1>1 DEF SegmentInvariant, WalkCounts
  <2>3. Rank(trak, trak.size) \in Nat
    <3>1. trak.size \in Int
      BY <2>1
    <3> QED BY <2>1, <3>1, RankType
  <2>4. Numbered(trak, start) = {}
    BY <2>1, <2>2, <2>3, NumberedWithin
  <2> QED BY <2>4 DEF Wanted, trak
<1>6. WantedBefore(track_id') = WantedBefore(track_id)
  BY <1>2, <1>5, NotWanted DEF SegmentInvariant
<1>7. StoredFor(WantedBefore(track_id))'
  <2>1. UNCHANGED request /\ fragment' = fragment /\ last_chunk' = last_chunk
    BY <1>1 DEF chosen
  <2> QED BY <1>6, <2>1, StoredStays DEF SegmentInvariant
<1> QED BY <1>2, <1>3, <1>4, <1>7 DEF SegmentInvariant

\* The audio track that is walked to its sync sample has the segment.
LEMMA CountAudioKeeps ==
  ASSUME RequestTyped, AudioCounted, UNCHANGED request, CountAudio,
         track_id \in 0 .. Len(traks), track_id < Len(traks), ~ OtherAudio,
         Numbered(trak, start) # {}
  PROVE  AudioCounted'
<1>1. traks' = traks /\ audio' = audio /\ start' = start
  BY DEF request
<1>2. CASE trak.kind = "soun"
  <2>1. track_id = audio /\ trak = traks[audio + 1]
    BY <1>2 DEF OtherAudio, trak
  <2>2. audio_tracks' = audio_tracks + 1 /\ audio_tracks' \in Nat
    BY <1>2 DEF CountAudio, AudioCounted
  <2>3. audio < Len(traks) /\ traks[audio + 1].kind = "soun"
        /\ Numbered(traks[audio + 1], start) # {}
    BY <1>2, <2>1
  <2> QED BY <1>1, <2>2, <2>3 DEF AudioCounted
<1>3. CASE trak.kind # "soun"
  <2>1. audio_tracks' = audio_tracks
    BY <1>3 DEF CountAudio, AudioCounted
  <2> QED BY <1>1, <2>1 DEF AudioCounted
<1> QED BY <1>2, <1>3

\* A sync sample of an audio track that was not passed over, or of a video
\* track, is part of a segment that was asked for.
LEMMA OnSyncIsWanted ==
  ASSUME RequestTyped, track_id \in 0 .. Len(traks), track_id < Len(traks), ~ OtherAudio,
         sample \in trak.sync, Rank(trak, sample) = start
  PROVE  track_id \in Wanted(traks, audio, start) /\ Numbered(trak, start) # {}
<1>1. Numbered(trak, start) # {}
  BY DEF Numbered
<1>2. trak.kind = "vide" \/ track_id = audio
  <2>1. IsTrak(trak)
    BY TrakTyped
  <2> QED BY <2>1 DEF OtherAudio, IsTrak, Kinds
<1>3. track_id \in 0 .. Len(traks) - 1
  BY DEF RequestTyped, IsFile
<1> QED BY <1>1, <1>2, <1>3 DEF Wanted, trak

\* A third track that matches: nothing is stored.
LEMMA NoRoomKeeps == SegmentInvariant /\ NoRoom => SegmentInvariant'
<1> SUFFICES ASSUME SegmentInvariant, NoRoom PROVE SegmentInvariant'
  OBVIOUS
<1>1. UNCHANGED <<request, pc, getnext, last_chunk, fragment>> /\ NextTrack /\ CountAudio
      /\ pc = "track" /\ track_id < Len(traks) /\ ~ OtherAudio /\ i = start
      /\ sample < trak.size /\ Smooth(trak, sample)
      /\ Len(fragment) = MaxFragmentSize
  BY DEF NoRoom, OnSync
<1>2. /\ RequestTyped' /\ WalkCounts' /\ NextCounts'
      /\ track_id \in Nat /\ track_id' = track_id + 1 /\ track_id' \in 0 .. Len(traks)'
  BY <1>1, NextTrackStarts DEF SegmentInvariant
<1>3. Places'
  BY <1>1, <1>2 DEF SegmentInvariant, Places
<1>4. track_id \in Wanted(traks, audio, start) /\ Numbered(trak, start) # {}
  <2>1. IsTrak(trak) /\ trak.size \in Nat
    BY <1>1, TrakTyped DEF SegmentInvariant, Places
  <2>2. sample \in trak.sync /\ Rank(trak, sample) = start
    BY <1>1, <2>1 DEF SegmentInvariant, WalkCounts, Smooth
  <2> QED BY <1>1, <2>2, OnSyncIsWanted DEF SegmentInvariant, Places
<1>5. AudioCounted'
  BY <1>1, <1>4, CountAudioKeeps DEF SegmentInvariant, Places
<1>6. WantedBefore(track_id') = WantedBefore(track_id) \cup {track_id}
  BY <1>2, <1>4, IsWanted DEF SegmentInvariant
<1>7. TwoStored(WantedBefore(track_id))
  <2>1. fragment # <<>> /\ \A x : fragment # <<x>>
    BY <1>1 DEF MaxFragmentSize
  <2> QED BY <2>1 DEF SegmentInvariant, StoredFor, NoneStored, OneStored
<1>8. StoredFor(WantedBefore(track_id))'
  <2> DEFINE W == WantedBefore(track_id)
  <2>1. PICK k1 \in W, k2 \in W :
          /\ k1 < k2 /\ \A j \in W : j = k1 \/ k2 <= j
          /\ fragment = <<FirstFragment(k1), SecondFragment(k1, k2)>>
    BY <1>7 DEF TwoStored
  <2>2. W \subseteq Nat /\ \A j \in W : j < track_id
    <3>1. Wanted(traks, audio, start) \subseteq Nat
      BY WantedTracks DEF SegmentInvariant, RequestTyped
    <3> QED BY <3>1 DEF WantedBefore
  <2>3. WantedBefore(track_id)' = W \cup {track_id}
    BY <1>1, <1>6 DEF WantedBefore, request
  <2>4. fragment' = <<FirstFragment(k1)', SecondFragment(k1, k2)'>>
    BY <1>1, <2>1 DEF FirstFragment, SecondFragment, request
  <2>5. \A j \in W \cup {track_id} : j = k1 \/ k2 <= j
    BY <1>2, <2>1, <2>2
  <2> HIDE DEF W
  <2>6. k1 \in WantedBefore(track_id)' /\ k2 \in WantedBefore(track_id)'
        /\ \A j \in WantedBefore(track_id)' : j = k1 \/ k2 <= j
    BY <2>1, <2>3, <2>5
  <2>7. TwoStored(WantedBefore(track_id))'
    BY <2>1, <2>4, <2>6 DEF TwoStored
  <2> QED BY <2>7 DEF StoredFor
<1> QED BY <1>2, <1>3, <1>5, <1>8 DEF SegmentInvariant

\* The sample is found, and get_next is called.
LEMMA BeginFragmentKeeps == SegmentInvariant /\ BeginFragment => SegmentInvariant'
<1> SUFFICES ASSUME SegmentInvariant, BeginFragment PROVE SegmentInvariant'
  OBVIOUS
<1>1. UNCHANGED <<request, walk, last_chunk, fragment>> /\ CountAudio
      /\ pc = "track" /\ track_id < Len(traks) /\ ~ OtherAudio /\ i = start
      /\ sample < trak.size /\ Smooth(trak, sample)
      /\ Len(fragment) < MaxFragmentSize
      /\ pc' = "next" /\ next' = sample + 1 /\ next_i' = 0
  BY DEF BeginFragment, OnSync
<1>2. trak' = trak /\ traks' = traks /\ track_id' = track_id /\ sample' = sample /\ i' = i
      /\ start' = start /\ audio' = audio /\ seconds' = seconds
      /\ fragment' = fragment /\ last_chunk' = last_chunk
  BY <1>1 DEF trak, request, walk
<1>3. RequestTyped'
  BY <1>2 DEF SegmentInvariant, RequestTyped, IsFile
<1>4. Places'
  BY <1>1, <1>2 DEF SegmentInvariant, Places
<1>5. IsTrak(trak) /\ trak.size \in Nat
  BY <1>1, TrakTyped DEF SegmentInvariant, Places
<1>6. sample \in trak.sync /\ Rank(trak, sample) = start /\ sample \in Nat
      /\ sample \in 0 .. trak.size /\ start \in Nat
  BY <1>1, <1>5 DEF SegmentInvariant, RequestTyped, WalkCounts, Smooth
<1>7. WalkCounts'
  BY <1>1, <1>2, <1>6 DEF SegmentInvariant, WalkCounts
<1>8. NextCounts'
  <2>1. Rank(trak, sample + 1) = start + 1
    BY <1>5, <1>6, RankStep
  <2>2. Inside(trak, sample, sample + 1) = 0
    BY <1>6, <2>1 DEF Inside
  <2>3. sample + 1 \in sample + 1 .. trak.size
    BY <1>1, <1>5, <1>6
  <2>4. sample + 1 .. sample + 1 - 1 = {}
    BY <1>6
  <2>5. ~ OtherAudio'
    BY <1>1, <1>2 DEF OtherAudio
  <2> QED BY <1>1, <1>2, <1>6, <2>2, <2>3, <2>4, <2>5 DEF NextCounts
<1>9. AudioCounted'
  <2>1. Numbered(trak, start) # {}
    BY <1>6 DEF Numbered
  <2> QED BY <1>1, <2>1, CountAudioKeeps DEF SegmentInvariant, Places
<1>10. StoredFor(WantedBefore(track_id))'
  BY <1>1, <1>2, StoredStays DEF SegmentInvariant
<1> QED BY <1>3, <1>4, <1>7, <1>8, <1>9, <1>10 DEF SegmentInvariant

\* get_next passes samples that are no sync samples,
LEMMA NextSkipKeeps == SegmentInvariant /\ NextSkip => SegmentInvariant'
<1> SUFFICES ASSUME SegmentInvariant, NextSkip PROVE SegmentInvariant'
  OBVIOUS
<1>1. UNCHANGED <<request, pc, walk, next_i, chosen>> /\ next' = next + 1
      /\ pc = "next" /\ next < trak.size /\ ~ Smooth(trak, next)
  BY DEF NextSkip
<1>2. trak' = trak /\ traks' = traks /\ track_id' = track_id /\ sample' = sample /\ i' = i
      /\ start' = start /\ audio' = audio /\ seconds' = seconds /\ pc' = pc /\ next_i' = next_i
      /\ fragment' = fragment /\ last_chunk' = last_chunk /\ audio_tracks' = audio_tracks
  BY <1>1 DEF trak, request, walk, chosen
<1>3. RequestTyped'
  BY <1>2 DEF SegmentInvariant, RequestTyped, IsFile
<1>4. Places'
  BY <1>2 DEF SegmentInvariant, Places
<1>5. WalkCounts'
  BY <1>2 DEF SegmentInvariant, WalkCounts
<1>6. NextCounts'
  <2>1. NextCounts /\ track_id < Len(traks)
    BY <1>1 DEF SegmentInvariant, NextCounts
  <2>2. IsTrak(trak) /\ trak.size \in Nat
    BY <2>1, TrakTyped DEF SegmentInvariant, Places
  <2>3. sample \in Nat /\ next \in Nat /\ next \in sample + 1 .. trak.size
    BY <1>1, <2>1, <2>2 DEF NextCounts, IsTrak
  <2>4. Rank(trak, next + 1) = Rank(trak, next)
    BY <1>1, <2>2, <2>3, RankStep DEF Smooth
  <2>5. Inside(trak, sample, next + 1) = next_i
    BY <1>1, <2>1, <2>4 DEF NextCounts, Inside
  <2>6. next + 1 \in sample + 1 .. trak.size
    BY <1>1, <2>2, <2>3
  <2>7. \A c \in sample + 1 .. next + 1 - 1 : Smooth(trak, c) => ~ StopsAt(c)
    <3>1. \A c \in sample + 1 .. next + 1 - 1 : c = next \/ c \in sample + 1 .. next - 1
      BY <2>3
    <3> QED BY <1>1, <2>1, <3>1 DEF NextCounts
  <2>8. \A c : StopsAt(c)' <=> StopsAt(c)
    BY <1>2 DEF StopsAt
  <2>9. OtherAudio' <=> OtherAudio
    BY <1>2 DEF OtherAudio
  <2> QED BY <1>1, <1>2, <2>1, <2>5, <2>6, <2>7, <2>8, <2>9 DEF NextCounts
<1>7. AudioCounted'
  BY <1>2 DEF SegmentInvariant, AudioCounted
<1>8. StoredFor(WantedBefore(track_id))'
  BY <1>1, <1>2, StoredStays DEF SegmentInvariant
<1> QED BY <1>3, <1>4, <1>5, <1>6, <1>7, <1>8 DEF SegmentInvariant

\* ... and sync samples at which it may not stop.
LEMMA NextPassKeeps == SegmentInvariant /\ NextPass => SegmentInvariant'
<1> SUFFICES ASSUME SegmentInvariant, NextPass PROVE SegmentInvariant'
  OBVIOUS
<1>1. UNCHANGED <<request, pc, walk, chosen>> /\ next' = next + 1 /\ next_i' = next_i + 1
      /\ pc = "next" /\ next < trak.size /\ Smooth(trak, next) /\ ~ StopHere
  BY DEF NextPass
<1>2. trak' = trak /\ traks' = traks /\ track_id' = track_id /\ sample' = sample /\ i' = i
      /\ start' = start /\ audio' = audio /\ seconds' = seconds /\ pc' = pc
      /\ fragment' = fragment /\ last_chunk' = last_chunk /\ audio_tracks' = audio_tracks
  BY <1>1 DEF trak, request, walk, chosen
<1>3. RequestTyped'
  BY <1>2 DEF SegmentInvariant, RequestTyped, IsFile
<1>4. Places'
  BY <1>2 DEF SegmentInvariant, Places
<1>5. WalkCounts'
  BY <1>2 DEF SegmentInvariant, WalkCounts
<1>6. NextCounts'
  <2>1. NextCounts /\ track_id < Len(traks)
    BY <1>1 DEF SegmentInvariant, NextCounts
  <2>2. IsTrak(trak) /\ trak.size \in Nat
    BY <2>1, TrakTyped DEF SegmentInvariant, Places
  <2>3. sample \in Nat /\ next \in Nat /\ next \in sample + 1 .. trak.size /\ sample \in trak.sync
    BY <1>1, <2>1, <2>2 DEF NextCounts, IsTrak
  <2>4. Rank(trak, next + 1) = Rank(trak, next) + 1
    <3>1. next \in trak.sync
      BY <1>1, <2>2, <2>3 DEF Smooth
    <3> QED BY <2>2, <2>3, <3>1, RankStep
  <2>5. Inside(trak, sample, next + 1) = next_i + 1
    <3>1. Rank(trak, sample) \in Nat /\ Rank(trak, next) \in Nat
      BY <2>2, <2>3, RankStrict
    <3> QED BY <1>1, <2>1, <2>4, <3>1 DEF NextCounts, Inside
  <2>6. next + 1 \in sample + 1 .. trak.size
    BY <1>1, <2>2, <2>3
  <2>7. \A c \in sample + 1 .. next + 1 - 1 : Smooth(trak, c) => ~ StopsAt(c)
    <3>1. \A c \in sample + 1 .. next + 1 - 1 : c = next \/ c \in sample + 1 .. next - 1
      BY <2>3
    <3>2. ~ StopsAt(next)
      BY <1>1, <2>1 DEF NextCounts, StopsAt, StopHere
    <3> QED BY <1>1, <2>1, <3>1, <3>2 DEF NextCounts
  <2>8. \A c : StopsAt(c)' <=> StopsAt(c)
    BY <1>2 DEF StopsAt
  <2>9. OtherAudio' <=> OtherAudio
    BY <1>2 DEF OtherAudio
  <2> QED BY <1>1, <1>2, <2>1, <2>5, <2>6, <2>7, <2>8, <2>9 DEF NextCounts
<1>7. AudioCounted'
  BY <1>2 DEF SegmentInvariant, AudioCounted
<1>8. StoredFor(WantedBefore(track_id))'
  BY <1>1, <1>2, StoredStays DEF SegmentInvariant
<1> QED BY <1>3, <1>4, <1>5, <1>6, <1>7, <1>8 DEF SegmentInvariant

\* Where the walk stops is the end of the segment.
LEMMA WalkEnds ==
  ASSUME SegmentInvariant, pc = "next",
         next = trak.size \/ (Smooth(trak, next) /\ StopHere)
  PROVE  /\ [track |-> track_id, first |-> sample, last |-> next]
              = FragmentOf(traks, track_id, start, seconds, last_chunk)
         /\ next_i = Inside(trak, sample, next) /\ next_i \in Nat
         /\ track_id \in Wanted(traks, audio, start)
<1>1. NextCounts /\ track_id < Len(traks) /\ sample \in trak.sync /\ i = start /\ ~ OtherAudio
      /\ next \in sample + 1 .. trak.size /\ next_i = Inside(trak, sample, next)
      /\ \A c \in sample + 1 .. next - 1 : Smooth(trak, c) => ~ StopsAt(c)
  BY DEF SegmentInvariant, NextCounts
<1>2. IsTrak(trak) /\ trak.size \in Nat /\ trak.sync \subseteq 0 .. trak.size - 1
  BY <1>1, TrakTyped DEF SegmentInvariant, Places
<1>3. sample \in Nat /\ next \in Nat /\ sample < next /\ sample \in Int
      /\ sample \in 0 .. trak.size /\ sample # trak.size
  BY <1>1, <1>2
<1>4. Rank(trak, sample) = start /\ start \in Nat /\ seconds \in Nat
  BY <1>1 DEF SegmentInvariant, WalkCounts, RequestTyped
<1>5. Rank(trak, next) \in Nat /\ Rank(trak, sample) < Rank(trak, next)
  BY <1>1, <1>2, <1>3, RankStrict
<1>6. Smooth(trak, next)
  BY DEF Smooth
<1>7. Min(Numbered(trak, start)) = sample
  <2>1. Numbered(trak, start) = {sample}
    BY <1>1, <1>2, <1>4, NumberIdentifiesSync
  <2> QED BY <1>3, <2>1, MinOfOne
<1>8. GetNext(trak, sample, seconds, last_chunk) = next
  <2>1. CASE last_chunk = 0
    <3>1. next \in CutPoints(trak, sample, seconds)
      BY <1>1, <1>6, <2>1 DEF CutPoints, StopHere
    <3>2. \A c \in CutPoints(trak, sample, seconds) : next <= c
      <4> SUFFICES ASSUME NEW c \in CutPoints(trak, sample, seconds), ~ (next <= c) PROVE FALSE
        OBVIOUS
      <4>1. c \in sample + 1 .. trak.size /\ Smooth(trak, c)
            /\ (LongEnough(trak, sample, c, seconds) \/ c = trak.size)
        BY DEF CutPoints
      <4>2. c \in sample + 1 .. next - 1 /\ c # trak.size
        BY <1>1, <1>2, <1>3, <4>1
      <4> QED BY <1>1, <2>1, <4>1, <4>2 DEF StopsAt
    <3>3. Cut(trak, sample, seconds) = next
      BY <1>2, <1>3, <1>4, <3>1, <3>2, CutIsFirst
    <3> QED BY <2>1, <3>3 DEF GetNext
  <2>2. CASE last_chunk # 0
    <3> DEFINE n == Rank(trak, sample) + 1 + last_chunk
    <3>1. last_chunk \in Nat
      BY DEF SegmentInvariant, Places
    <3>2. n \in Nat /\ n > Rank(trak, sample)
      BY <1>4, <2>2, <3>1
    <3>3. \A s \in Numbered(trak, n) : next <= s /\ s < trak.size
      <4> SUFFICES ASSUME NEW s \in Numbered(trak, n) PROVE next <= s /\ s < trak.size
        OBVIOUS
      <4>1. s \in trak.sync /\ Rank(trak, s) = n
        BY DEF Numbered
      <4>2. s \in Nat /\ s < trak.size /\ s \in Int
        BY <1>2, <4>1
      <4>3. sample < s
        <5> SUFFICES ASSUME s <= sample PROVE FALSE
          BY <1>3, <4>2
        <5>1. s = sample => FALSE
          BY <1>4, <3>2, <4>1
        <5>2. s < sample => Rank(trak, s) < Rank(trak, sample)
          BY <1>2, <1>3, <4>1, RankStrict
        <5> QED BY <1>3, <1>4, <3>2, <4>1, <4>2, <5>1, <5>2
      <4>4. next <= s
        <5> SUFFICES ASSUME s < next PROVE FALSE
          BY <1>3, <4>2
        <5>1. s \in sample + 1 .. next - 1 /\ Smooth(trak, s)
          BY <1>3, <4>1, <4>2, <4>3 DEF Smooth
        <5>2. Inside(trak, sample, s) = last_chunk
          BY <1>4, <3>1, <4>1 DEF Inside
        <5> QED BY <1>1, <2>2, <5>1, <5>2 DEF StopsAt
      <4> QED BY <4>2, <4>4
    <3>4. CASE next = trak.size
      <4>1. Numbered(trak, n) = {}
        BY <1>2, <3>3, <3>4 DEF IsTrak, Numbered
      <4> QED BY <2>2, <3>4, <4>1 DEF GetNext
    <3>5. CASE next # trak.size
      <4>1. next \in trak.sync /\ StopHere
        BY <1>6, <3>5 DEF Smooth
      <4>2. Rank(trak, next) = n
        BY <1>1, <1>4, <1>5, <2>2, <3>1, <4>1 DEF StopHere, Inside
      <4>3. Numbered(trak, n) = {next}
        BY <1>2, <4>1, <4>2, NumberIdentifiesSync
      <4>4. Min({next}) = next
        <5>1. next \in Int
          BY <1>3
        <5> QED BY <5>1, MinOfOne
      <4> QED BY <2>2, <4>3, <4>4 DEF GetNext
    <3> QED BY <3>4, <3>5
  <2> QED BY <2>1, <2>2
<1>9. next_i \in Nat
  BY <1>1, <1>4, <1>5 DEF Inside
<1>10. track_id \in Wanted(traks, audio, start)
  BY <1>1, <1>4, OnSyncIsWanted DEF SegmentInvariant, Places
<1>11. [track |-> track_id, first |-> sample, last |-> next]
         = FragmentOf(traks, track_id, start, seconds, last_chunk)
  BY <1>7, <1>8 DEF FragmentOf, trak
<1> QED BY <1>1, <1>9, <1>10, <1>11

\* get_next returns: the fragment is stored, first or second.
LEMMA NextStopKeeps == SegmentInvariant /\ NextStop => SegmentInvariant'
<1> SUFFICES ASSUME SegmentInvariant, NextStop PROVE SegmentInvariant'
  OBVIOUS
<1> DEFINE new == [track |-> track_id, first |-> sample, last |-> next]
           W   == WantedBefore(track_id)
<1>1. UNCHANGED <<request, getnext, audio_tracks>> /\ NextTrack /\ pc' = "track"
      /\ pc = "next" /\ (next = trak.size \/ (Smooth(trak, next) /\ StopHere))
      /\ fragment' = Append(fragment, new)
      /\ last_chunk' = IF last_chunk = 0 THEN next_i ELSE last_chunk
  BY DEF NextStop
<1>2. track_id < Len(traks) /\ Len(fragment) < MaxFragmentSize
  BY <1>1 DEF SegmentInvariant, NextCounts
<1>3. /\ RequestTyped' /\ WalkCounts' /\ NextCounts'
      /\ track_id \in Nat /\ track_id' = track_id + 1 /\ track_id' \in 0 .. Len(traks)'
  BY <1>1, <1>2, NextTrackStarts DEF SegmentInvariant
<1>4. /\ new = FragmentOf(traks, track_id, start, seconds, last_chunk)
      /\ next_i = Inside(trak, sample, next) /\ next_i \in Nat
      /\ track_id \in Wanted(traks, audio, start)
  BY <1>1, WalkEnds
<1>5. Places'
  BY <1>1, <1>3, <1>4 DEF SegmentInvariant, Places
<1>6. AudioCounted'
  BY <1>1 DEF SegmentInvariant, AudioCounted, request
<1>7. WantedBefore(track_id)' = W \cup {track_id}
  <2>1. WantedBefore(track_id + 1) = W \cup {track_id}
    BY <1>3, <1>4, IsWanted DEF SegmentInvariant
  <2> QED BY <1>1, <1>3, <2>1 DEF WantedBefore, request
<1>8. W \subseteq Nat /\ \A j \in W : j < track_id
  <2>1. Wanted(traks, audio, start) \subseteq Nat
    BY WantedTracks DEF SegmentInvariant, RequestTyped
  <2> QED BY <2>1 DEF WantedBefore
<1>9. \A k : /\ FirstFragment(k)' = FirstFragment(k) /\ InsideFirst(k)' = InsideFirst(k)
             /\ \A j : SecondFragment(k, j)' = SecondFragment(k, j)
  BY <1>1 DEF FirstFragment, SecondFragment, InsideFirst, request
<1>10. new.first = sample /\ new.last = next
  OBVIOUS
<1> HIDE DEF new, W
<1>11. CASE NoneStored(W)
  <2>1. W = {} /\ fragment = <<>> /\ last_chunk = 0
    BY <1>11 DEF NoneStored
  <2>2. new = FirstFragment(track_id)
    BY <1>4, <2>1 DEF FirstFragment
  <2>3. InsideFirst(track_id) = next_i
    BY <1>4, <1>10, <2>2 DEF InsideFirst, trak
  <2>4. fragment' = <<FirstFragment(track_id)>>
    BY <1>1, <2>1, <2>2
  <2>5. last_chunk' = InsideFirst(track_id)
    BY <1>1, <2>1, <2>3
  <2>6. WantedBefore(track_id)' = {track_id}
    BY <1>7, <2>1
  <2>7. OneStored(WantedBefore(track_id))'
    BY <1>9, <2>4, <2>5, <2>6 DEF OneStored
  <2> QED BY <1>3, <1>5, <1>6, <2>7 DEF SegmentInvariant, StoredFor
<1>12. CASE OneStored(W)
  <2>1. PICK k1 \in W : /\ W = {k1} /\ fragment = <<FirstFragment(k1)>>
                        /\ last_chunk = InsideFirst(k1)
    BY <1>12 DEF OneStored
  <2>2. new = SecondFragment(k1, track_id)
    <3>1. SecondFragment(k1, track_id) = FragmentOf(traks, track_id, start, seconds, InsideFirst(k1))
      BY DEF SecondFragment, SecondOf, InsideFirst, FirstFragment
    <3> QED BY <1>4, <2>1, <3>1
  <2>3. fragment' = <<FirstFragment(k1), SecondFragment(k1, track_id)>>
    <3>2. fragment' = Append(<<FirstFragment(k1)>>, SecondFragment(k1, track_id))
      BY <1>1, <2>1, <2>2
    <3> QED BY <3>2, AppendToOne
  <2>4. WantedBefore(track_id)' = {k1, track_id}
    BY <1>7, <2>1
  <2>5. k1 < track_id /\ \A j \in {k1, track_id} : j = k1 \/ track_id <= j
    BY <1>3, <1>8, <2>1
  <2>6. TwoStored(WantedBefore(track_id))'
    <3> DEFINE k2 == track_id
               V  == WantedBefore(track_id)'
    <3>1. k1 \in V /\ k2 \in V /\ \A j \in V : j = k1 \/ k2 <= j
      BY <2>4, <2>5
    <3>2. fragment' = <<FirstFragment(k1), SecondFragment(k1, k2)>>
      BY <2>3
    <3>3. k1 < k2
      BY <2>5
    <3>4. FirstFragment(k1)' = FirstFragment(k1)
          /\ \A j : SecondFragment(k1, j)' = SecondFragment(k1, j)
      BY <1>9
    <3> HIDE DEF k2, V
    <3>5. \E a, b \in V : /\ a < b /\ \A j \in V : j = a \/ b <= j
                         /\ fragment' = <<FirstFragment(a)', SecondFragment(a, b)'>>
      BY <3>1, <3>2, <3>3, <3>4
    <3> QED BY <3>5 DEF TwoStored, V
  <2> QED BY <1>3, <1>5, <1>6, <2>6 DEF SegmentInvariant, StoredFor
<1>13. CASE TwoStored(W)
  <2>1. Len(fragment) = 2
    BY <1>13 DEF TwoStored
  <2> QED BY <1>2, <2>1 DEF MaxFragmentSize
<1> QED BY <1>11, <1>12, <1>13 DEF SegmentInvariant, StoredFor, W

\* After the last track the request is answered, or refused.
LEMMA FinishKeeps == SegmentInvariant /\ Finish => SegmentInvariant'
<1> SUFFICES ASSUME SegmentInvariant, Finish PROVE SegmentInvariant'
  OBVIOUS
<1>1. UNCHANGED <<request, walk, getnext, chosen>> /\ track_id = Len(traks)
      /\ pc' = IF fragment = <<>> THEN "failed" ELSE "done"
  BY DEF Finish
<1>2. traks' = traks /\ track_id' = track_id /\ start' = start /\ audio' = audio
      /\ seconds' = seconds /\ fragment' = fragment /\ last_chunk' = last_chunk
      /\ audio_tracks' = audio_tracks
  BY <1>1 DEF request, walk, chosen
<1>3. RequestTyped'
  BY <1>2 DEF SegmentInvariant, RequestTyped, IsFile
<1>4. Places'
  BY <1>1, <1>2 DEF SegmentInvariant, Places
<1>5. WalkCounts' /\ NextCounts'
  BY <1>1 DEF WalkCounts, NextCounts
<1>6. AudioCounted'
  BY <1>2 DEF SegmentInvariant, AudioCounted
<1>7. StoredFor(WantedBefore(track_id))'
  BY <1>1, <1>2, StoredStays DEF SegmentInvariant
<1> QED BY <1>3, <1>4, <1>5, <1>6, <1>7 DEF SegmentInvariant

\* The invariant holds at first, is kept by every step, and holds throughout.
LEMMA SegmentInit == Init => SegmentInvariant
<1> SUFFICES ASSUME Init PROVE SegmentInvariant
  OBVIOUS
<1>1. RequestTyped
  <2>1. IsFile(traks) /\ start \in Nat /\ seconds \in Nat
    BY FilesAssumption, ArgumentsAssumption DEF Init, IsFile
  <2>2. audio \in Nat
    BY ArgumentsAssumption DEF Init, AudioTrack
  <2> QED BY <2>1, <2>2 DEF RequestTyped
<1>2. Places
  BY <1>1 DEF Init, Places, RequestTyped, IsFile
<1>3. WalkCounts
  <2> SUFFICES ASSUME track_id < Len(traks)
               PROVE  sample \in 0 .. trak.size /\ i = Rank(trak, sample) /\ i <= start
    BY DEF WalkCounts
  <2>1. IsTrak(trak) /\ trak.size \in Nat
    BY <1>1, <1>2, TrakTyped DEF Places
  <2>2. Rank(trak, 0) = 0
    BY <2>1, RankOfFirst
  <2> QED BY <1>1, <2>1, <2>2 DEF Init, RequestTyped
<1>4. NextCounts
  BY DEF Init, NextCounts
<1>5. AudioCounted
  BY DEF Init, AudioCounted
<1>6. StoredFor(WantedBefore(track_id))
  <2>1. Wanted(traks, audio, start) \subseteq Nat
    BY <1>1, WantedTracks DEF RequestTyped
  <2>2. WantedBefore(track_id) = {}
    BY <2>1 DEF Init, WantedBefore
  <2> QED BY <2>2 DEF Init, StoredFor, NoneStored
<1> QED BY <1>1, <1>2, <1>3, <1>4, <1>5, <1>6 DEF SegmentInvariant

LEMMA SegmentKeeps == SegmentInvariant /\ [Next]_vars => SegmentInvariant'
<1> SUFFICES ASSUME SegmentInvariant, [Next]_vars PROVE SegmentInvariant'
  OBVIOUS
<1>1. CASE Next
  BY <1>1, SkipSampleKeeps, PassOverAudioKeeps, PassSyncKeeps, BeginFragmentKeeps, NoRoomKeeps,
     EndOfTrackKeeps, NextSkipKeeps, NextPassKeeps, NextStopKeeps, FinishKeeps DEF Next
<1>2. CASE UNCHANGED vars
  <2>1. /\ traks' = traks /\ track_id' = track_id /\ start' = start /\ audio' = audio
        /\ seconds' = seconds /\ fragment' = fragment /\ last_chunk' = last_chunk
        /\ audio_tracks' = audio_tracks /\ pc' = pc /\ sample' = sample /\ i' = i
        /\ next' = next /\ next_i' = next_i /\ UNCHANGED request
    BY <1>2 DEF vars, request, walk, getnext, chosen
  <2>2. trak' = trak
    BY <2>1 DEF trak
  <2>3. RequestTyped'
    BY <2>1 DEF SegmentInvariant, RequestTyped, IsFile
  <2>4. Places' /\ AudioCounted'
    BY <2>1 DEF SegmentInvariant, Places, AudioCounted
  <2>5. WalkCounts'
    BY <2>1, <2>2 DEF SegmentInvariant, WalkCounts
  <2>6. NextCounts'
    <3>1. \A c : StopsAt(c)' <=> StopsAt(c)
      BY <2>1, <2>2 DEF StopsAt
    <3>2. OtherAudio' <=> OtherAudio
      BY <2>1, <2>2 DEF OtherAudio
    <3> QED BY <2>1, <2>2, <3>1, <3>2 DEF SegmentInvariant, NextCounts
  <2>7. StoredFor(WantedBefore(track_id))'
    BY <2>1, StoredStays DEF SegmentInvariant
  <2> QED BY <2>3, <2>4, <2>5, <2>6, <2>7 DEF SegmentInvariant
<1> QED BY <1>1, <1>2

LEMMA SegmentHolds == Spec => []SegmentInvariant
BY SegmentInit, SegmentKeeps, PTL DEF Spec

-----------------------------------------------------------------------------
\* When every track has been walked, all the tracks asked for have been.
LEMMA AllWalked ==
  ASSUME SegmentInvariant, pc \in {"done", "failed"}
  PROVE  /\ RequestTyped /\ StoredFor(Wanted(traks, audio, start))
         /\ fragment = FragmentsOf(traks, audio, start, seconds)
         /\ pc = "failed" <=> fragment = <<>>
<1> DEFINE W == Wanted(traks, audio, start)
<1>1. RequestTyped /\ track_id = Len(traks) /\ (pc = "failed" <=> fragment = <<>>)
  BY DEF SegmentInvariant, Places
<1>2. WantedBefore(track_id) = W
  <2>1. W \subseteq 0 .. Len(traks) - 1 /\ Len(traks) \in Nat
    BY <1>1, WantedTracks DEF RequestTyped, IsFile
  <2> HIDE DEF W
  <2>2. \A j \in W : j < track_id
    BY <1>1, <2>1
  <2> QED BY <2>2 DEF WantedBefore, W
<1>3. StoredFor(W)
  BY <1>2 DEF SegmentInvariant
<1>4. fragment = FragmentsOf(traks, audio, start, seconds)
  <2>1. IsFile(traks)
    BY <1>1 DEF RequestTyped
  <2>2. CASE NoneStored(W)
    BY <2>1, <2>2, FragmentsShape DEF NoneStored
  <2>3. CASE OneStored(W)
    <3>1. PICK k1 \in W : W = {k1} /\ fragment = <<FirstFragment(k1)>>
      BY <2>3 DEF OneStored
    <3>2. FragmentsOf(traks, audio, start, seconds)
            = <<FragmentOf(traks, k1, start, seconds, 0)>>
      BY <2>1, <3>1, FragmentsShape
    <3> QED BY <3>1, <3>2 DEF FirstFragment
  <2>4. CASE TwoStored(W)
    <3>1. PICK k1 \in W, k2 \in W :
            /\ k1 < k2 /\ \A j \in W : j = k1 \/ k2 <= j
            /\ fragment = <<FirstFragment(k1), SecondFragment(k1, k2)>>
      BY <2>4 DEF TwoStored
    <3>2. FragmentsOf(traks, audio, start, seconds)
            = <<FragmentOf(traks, k1, start, seconds, 0), SecondOf(traks, k1, k2, start, seconds)>>
      BY <2>1, <3>1, FragmentsShape
    <3> QED BY <3>1, <3>2 DEF FirstFragment, SecondFragment
  <2> QED BY <1>3, <2>2, <2>3, <2>4 DEF StoredFor
<1> QED BY <1>1, <1>3, <1>4

\* The walks of output_ts over the samples of every track choose the fragments
\* that the definition of a segment names, whatever the file.
THEOREM WalksChooseFragments == Spec => []ChoosesFragments
<1>1. SegmentInvariant => ChoosesFragments
  BY AllWalked DEF ChoosesFragments
<1> QED BY <1>1, SegmentHolds, PTL

\* The number that a playlist entry gives its segment leads to the samples the
\* playlist meant: both loops of the code cut at the same places.
THEOREM PlaylistIsAnswered == Spec => []AnswersPlaylist
<1>1. SegmentInvariant => AnswersPlaylist
  <2> SUFFICES ASSUME SegmentInvariant, pc \in {"done", "failed"}, Len(traks) > 0,
                      traks[1].kind = "vide",
                      NEW e \in ToSet(PlaylistOf(traks[1], seconds)),
                      e.number = start, e.from \in traks[1].sync
               PROVE  fragment # <<>>
                      /\ fragment[1] = [track |-> 0, first |-> e.from, last |-> e.to]
    BY DEF AnswersPlaylist
  <2>1. fragment = FragmentsOf(traks, audio, start, seconds) /\ IsFile(traks)
        /\ audio \in Nat /\ seconds \in Nat
    BY AllWalked DEF RequestTyped
  <2>2. PICK k \in DOMAIN PlaylistOf(traks[1], seconds) : e = PlaylistOf(traks[1], seconds)[k]
    BY DEF ToSet
  <2> QED BY <2>1, <2>2, EntryAnswered, ZenonT(60)
<1> QED BY <1>1, SegmentHolds, PTL

\* output_ts tells the muxer of one fragment more when it has counted an audio
\* track, and that slot is filled: audio that has its markers from a video has
\* no segment that the video does not have.
THEOREM SlotsAreFilled == Spec => []SlotsFilled
<1>1. SegmentInvariant => SlotsFilled
  <2> SUFFICES ASSUME SegmentInvariant, pc = "done",
                      audio < Len(traks) /\ traks[audio + 1].kind = "soun" =>
                        \E v \in ToSet(traks) : MarkedBy(v, traks[audio + 1])
               PROVE  fragment_size <= Len(fragment)
    BY DEF SlotsFilled
  <2> DEFINE W == Wanted(traks, audio, start)
             a == traks[audio + 1]
  <2>1. RequestTyped /\ StoredFor(W) /\ fragment # <<>> /\ IsFile(traks) /\ audio \in Nat
        /\ start \in Nat /\ Len(traks) \in Nat /\ DOMAIN traks = 1 .. Len(traks)
        /\ \A k \in DOMAIN traks : IsTrak(traks[k])
    BY AllWalked DEF SegmentInvariant, Places, RequestTyped, IsFile
  <2>2. audio_tracks \in Nat
    BY DEF SegmentInvariant, AudioCounted
  <2>3. CASE audio_tracks = 0
    <3>1. fragment_size = 1
      BY <2>3 DEF fragment_size, MaxFragmentSize
    <3>2. Len(fragment) \in {1, 2}
      <4> HIDE DEF W
      <4>1. CASE OneStored(W)
        <5>1. PICK f : fragment = <<f>>
          BY <4>1 DEF OneStored
        <5> QED BY <5>1
      <4>2. CASE TwoStored(W)
        <5>1. PICK f, g : fragment = <<f, g>>
          BY <4>2 DEF TwoStored
        <5> QED BY <5>1
      <4> QED BY <2>1, <4>1, <4>2 DEF StoredFor, NoneStored
    <3>3. 1 <= Len(fragment)
      BY ONLY <3>2, SMTT(60)
    <3> QED BY ONLY <3>1, <3>3, SMTT(60)
  <2>4. CASE audio_tracks # 0
    <3>1. audio < Len(traks) /\ a.kind = "soun" /\ Numbered(a, start) # {}
      BY <2>4 DEF SegmentInvariant, AudioCounted
    <3>2. PICK v \in ToSet(traks) : MarkedBy(v, a)
      BY <3>1
    <3>3. PICK k \in DOMAIN traks : v = traks[k]
      BY <3>2 DEF ToSet
    <3>4. IsTrak(v) /\ IsTrak(a) /\ audio + 1 \in DOMAIN traks
      BY <2>1, <3>1, <3>3
    <3>5. Numbered(v, start) # {}
      BY <2>1, <3>1, <3>2, <3>4, MarkersNeedSync
    <3>6. k - 1 \in W /\ audio \in W /\ k - 1 # audio
      <4>1. k - 1 \in 0 .. Len(traks) - 1 /\ audio \in 0 .. Len(traks) - 1 /\ k - 1 + 1 = k
        BY <2>1, <3>1
      <4>2. v.kind = "vide"
        BY <3>2 DEF MarkedBy
      <4> QED BY <3>1, <3>3, <3>5, <4>1, <4>2 DEF Wanted
    <3>7. TwoStored(W)
      <4> HIDE DEF W
      <4> QED BY <2>1, <3>6 DEF StoredFor, NoneStored, OneStored
    <3>8. Len(fragment) = 2
      BY <3>7 DEF TwoStored
    <3>9. fragment_size <= 2 /\ fragment_size \in Nat
      BY <2>2 DEF fragment_size, MaxFragmentSize
    <3> QED BY <3>8, <3>9
  <2> QED BY <2>3, <2>4
<1> QED BY <1>1, SegmentHolds, PTL

\* The sound of a segment begins at the marker of its first video sample and
\* lasts at least to that of the next segment's: although get_next may judge
\* the audio on its own, no sound is left out between two segments.
THEOREM AudioIsFollowing == Spec => []AudioFollowsVideo
<1>1. SegmentInvariant => AudioFollowsVideo
  <2> DEFINE v == traks[fragment[1].track + 1]
             a == traks[fragment[2].track + 1]
             x == fragment[1].first
             y == fragment[1].last
  <2> SUFFICES ASSUME SegmentInvariant, pc = "done", Len(fragment) = 2,
                      MarkedBy(v, a), a.kind = "soun", MarkersApart(v, a)
               PROVE  /\ fragment[2].first = MarkerOf(v, a, x)
                      /\ fragment[2].last >= MarkerOf(v, a, y)
                      /\ Inside(v, x, y) > 0 \/ FrameToSpare(v, a, x, y) =>
                           fragment[2].last = MarkerOf(v, a, y)
    BY DEF AudioFollowsVideo
  <2> DEFINE W == Wanted(traks, audio, start)
  <2>1. RequestTyped /\ StoredFor(W) /\ IsFile(traks) /\ start \in Nat /\ seconds \in Nat
        /\ DOMAIN traks = 1 .. Len(traks) /\ Len(traks) \in Nat
        /\ \A k \in DOMAIN traks : IsTrak(traks[k])
    BY AllWalked DEF RequestTyped, IsFile
  <2>2. TwoStored(W)
    <3> HIDE DEF v, a, x, y, W
    <3>1. fragment # <<>> /\ \A f : fragment # <<f>>
      OBVIOUS
    <3> QED BY <2>1, <3>1 DEF StoredFor, NoneStored, OneStored
  <2>3. PICK k1 \in W, k2 \in W : fragment = <<FirstFragment(k1), SecondFragment(k1, k2)>>
    BY <2>2 DEF TwoStored
  <2>4. /\ k1 \in 0 .. Len(traks) - 1 /\ k2 \in 0 .. Len(traks) - 1
        /\ Numbered(traks[k1 + 1], start) # {} /\ Numbered(traks[k2 + 1], start) # {}
    BY DEF Wanted
  <2>5. IsTrak(traks[k1 + 1]) /\ IsTrak(traks[k2 + 1])
    BY <2>1, <2>4
  <2>6. fragment[1] = FirstFragment(k1) /\ fragment[2] = SecondFragment(k1, k2)
    BY <2>3
  <2>7. /\ fragment[1].track = k1 /\ v = traks[k1 + 1]
        /\ x = Min(Numbered(traks[k1 + 1], start))
        /\ y = GetNext(traks[k1 + 1], Min(Numbered(traks[k1 + 1], start)), seconds, 0)
    BY <2>6 DEF FirstFragment, FragmentOf
  <2>8. /\ fragment[2].track = k2 /\ a = traks[k2 + 1]
        /\ fragment[2].first = Min(Numbered(traks[k2 + 1], start))
        /\ fragment[2].last = GetNext(traks[k2 + 1], Min(Numbered(traks[k2 + 1], start)), seconds,
                                      Inside(traks[k1 + 1], x, y))
    BY <2>6 DEF FirstFragment, SecondFragment, SecondOf, FragmentOf
  <2> DEFINE m == fragment[2].first
  <2>9. /\ IsTrak(v) /\ IsTrak(a) /\ x \in v.sync /\ m \in a.sync
        /\ Rank(v, x) = start /\ Rank(a, m) = start
    BY <2>1, <2>4, <2>5, <2>7, <2>8, MinNumbered
  <2>10. y = Cut(v, x, seconds) /\ fragment[2].last = GetNext(a, m, seconds, Inside(v, x, y))
    BY <2>7, <2>8 DEF GetNext
  <2>11. FrameToSpare(v, a, x, y) <=> Longer(v, a, x, y, seconds)
    BY DEF FrameToSpare, Longer
  <2> HIDE DEF v, a, x, y, m
  <2>12. /\ m = MarkerOf(v, a, x)
         /\ fragment[2].last >= MarkerOf(v, a, y)
         /\ Inside(v, x, y) > 0 \/ Longer(v, a, x, y, seconds) =>
              fragment[2].last = MarkerOf(v, a, y)
    BY <2>1, <2>9, <2>10, AudioSegment
  <2> QED BY <2>11, <2>12 DEF m
<1> QED BY <1>1, SegmentHolds, PTL

-----------------------------------------------------------------------------
(* Streaming                                                               *)

\* The typing of what decides which length a worker cuts at.
LengthsTyped ==
  /\ file \in Films
  /\ configured \in Configured
  /\ arg \in [Clients -> LengthArgs \cup {None}]
  /\ length \in [Workers -> Nat]

\* The types are right at first, and stay.
LEMMA LengthsTypedInit == StreamingInit => LengthsTyped
BY StreamingAssumption DEF StreamingInit, LengthsTyped

LEMMA LengthsTypedNext == LengthsTyped /\ [StreamingNext]_streamingVars => LengthsTyped'
<1> SUFFICES ASSUME LengthsTyped, [StreamingNext]_streamingVars PROVE LengthsTyped'
  OBVIOUS
<1> USE StreamingAssumption DEF LengthsTyped
<1>1. ASSUME NEW w \in Workers, Respawn(w) PROVE LengthsTyped'
  BY <1>1 DEF Respawn
<1>2. ASSUME NEW w \in Workers, NEW c \in Clients, SetOptions(w, c)
      PROVE length' \in [Workers -> Nat]
  BY <1>2 DEF SetOptions
<1>3. ASSUME NEW w \in Workers, NEW c \in Clients, FetchPlaylist(c, w)
      PROVE LengthsTyped'
  BY <1>2, <1>3 DEF FetchPlaylist
<1>4. ASSUME NEW w \in Workers, NEW c \in Clients, NEW k \in DOMAIN playlist[c],
             FetchSegment(c, w, k)
      PROVE LengthsTyped'
  BY <1>2, <1>4 DEF FetchSegment
<1>5. CASE UNCHANGED streamingVars
  BY <1>5 DEF streamingVars
<1> QED BY <1>1, <1>3, <1>4, <1>5 DEF StreamingNext

-----------------------------------------------------------------------------
\* Where no client sends a length, all workers still have the configured one.
Calm ==
  (\A c \in Clients : arg[c] = None) => \A w \in Workers : length[w] = configured

\* No request has been served yet: every worker has the configured length.
LEMMA CalmAtFirst == StreamingInit => Calm
BY DEF StreamingInit, Calm

\* SetOptions leaves the length in force for an undisturbed client, and keeps
\* Calm.
LEMMA SetOptionsInForce ==
  ASSUME LengthsTyped, Calm, NEW w \in Workers, NEW c \in Clients,
         SetOptions(w, c), arg' = arg, configured' = configured
  PROVE  (Undisturbed(c) => length'[w] = InForce[c]) /\ Calm'
<1>1. CASE arg[c] = None
  BY <1>1 DEF LengthsTyped, Calm, SetOptions, InForce, Undisturbed
<1>2. CASE arg[c] # None
  BY <1>2 DEF LengthsTyped, Calm, SetOptions, InForce, Undisturbed
<1> QED BY <1>1, <1>2

\* Vod computes with the same reference definitions.
LEMMA SamePlaylist ==
  ASSUME NEW t, NEW n
  PROVE  Stateless!PlaylistOf(t, n) = PlaylistOf(t, n)
BY DEF PlaylistOf, Cut, CutPoints, Rank, LongEnough, Smooth, Min,
       Stateless!PlaylistOf, Stateless!Cut, Stateless!CutPoints, Stateless!Rank,
       Stateless!LongEnough, Stateless!Smooth, Stateless!Min,
       Cardinality, Stateless!Cardinality

\* The definitions Vod has of its own are those of Segmentation.
LEMMA SameCardinality ==
  ASSUME NEW S
  PROVE  Stateless!Cardinality(S) = Cardinality(S)
BY DEF Cardinality, Stateless!Cardinality

LEMMA SameNumbered ==
  ASSUME NEW t, NEW n
  PROVE  Stateless!Numbered(t, n) = Numbered(t, n)
BY DEF Numbered, Rank, Cardinality,
       Stateless!Numbered, Stateless!Rank, Stateless!Cardinality

LEMMA SameFragment ==
  ASSUME NEW f, NEW k, NEW n, NEW s, NEW chunk
  PROVE  Stateless!FragmentOf(f, k, n, s, chunk) = FragmentOf(f, k, n, s, chunk)
BY DEF FragmentOf, GetNext, Numbered, Cut, CutPoints, Rank, LongEnough, Smooth,
       Min, Cardinality,
       Stateless!FragmentOf, Stateless!GetNext, Stateless!Numbered,
       Stateless!Cut, Stateless!CutPoints, Stateless!Rank, Stateless!LongEnough,
       Stateless!Smooth, Stateless!Min, Stateless!Cardinality

LEMMA SameInside ==
  ASSUME NEW t, NEW a, NEW b
  PROVE  Stateless!Inside(t, a, b) = Inside(t, a, b)
BY DEF Inside, Rank, Cardinality,
       Stateless!Inside, Stateless!Rank, Stateless!Cardinality

LEMMA SameWanted ==
  ASSUME NEW f, NEW aud, NEW n
  PROVE  Stateless!Wanted(f, aud, n) = Wanted(f, aud, n)
BY DEF Wanted, Numbered, Rank, Cardinality,
       Stateless!Wanted, Stateless!Numbered, Stateless!Rank, Stateless!Cardinality

LEMMA SameFragments ==
  ASSUME NEW f, NEW k, NEW n, NEW s
  PROVE  Stateless!FragmentsOf(f, Stateless!AudioTrack(k), n, s)
           = FragmentsOf(f, AudioTrack(k), n, s)
<1>1. Stateless!AudioTrack(k) = AudioTrack(k)
  BY DEF AudioTrack, Stateless!AudioTrack
<1>2. \A S : Stateless!Min(S) = Min(S)
  BY DEF Min, Stateless!Min
<1> QED BY <1>1, <1>2, SameCardinality, SameFragment, SameInside, SameWanted
        DEF FragmentsOf, Stateless!FragmentsOf

\* What the clients' arguments decide stays as it is.
LEMMA SameClients ==
  ASSUME arg' = arg, configured' = configured
  PROVE  /\ InForce' = InForce
         /\ \A c \in Clients : Undisturbed(c)' <=> Undisturbed(c)
BY DEF InForce, Undisturbed

\* The answers are kept for each client.
Answers == DOMAIN playlist = Clients /\ DOMAIN got = Clients

\* The steps of an undisturbed client are steps of the stateless service, and
\* those of the others cannot be seen.
LEMMA StepIsStateless ==
  LengthsTyped /\ Calm /\ Answers /\ [StreamingNext]_streamingVars
    => Calm' /\ Answers' /\ [Stateless!Next]_(Stateless!vars)
<1> SUFFICES ASSUME LengthsTyped, Calm, Answers, [StreamingNext]_streamingVars
             PROVE  Calm' /\ Answers' /\ [Stateless!Next]_(Stateless!vars)
  OBVIOUS
<1>1. ASSUME NEW w \in Workers, Respawn(w)
      PROVE  Calm' /\ Answers' /\ UNCHANGED Stateless!vars
  <2>1. Calm' /\ Answers'
    BY <1>1 DEF Respawn, Calm, LengthsTyped, Answers
  <2>2. Seen(playlist)' = Seen(playlist) /\ Seen(got)' = Seen(got)
    BY <1>1, SameClients DEF Respawn, Seen
  <2> QED BY <1>1, <2>1, <2>2, SameClients DEF Respawn, Stateless!vars
<1>2. ASSUME NEW w \in Workers, NEW c \in Clients, FetchPlaylist(c, w)
      PROVE  Calm' /\ Answers' /\ [Stateless!Next]_(Stateless!vars)
  <2>1. (Undisturbed(c) => length'[w] = InForce[c]) /\ Calm' /\ Answers'
    BY <1>2, SetOptionsInForce DEF FetchPlaylist, Answers
  <2> DEFINE list == PlaylistOf(file[1], length'[w])
             new  == [k \in DOMAIN list |-> NotFetched]
  <2>2. /\ playlist' = [playlist EXCEPT ![c] = list]
        /\ got' = [got EXCEPT ![c] = new]
        /\ playlist[c] = <<>> /\ file' = file
        /\ arg' = arg /\ configured' = configured
    BY <1>2 DEF FetchPlaylist
  <2>3. /\ Seen(playlist)' = [x \in Clients |-> IF Undisturbed(x) THEN playlist'[x] ELSE <<>>]
        /\ Seen(got)' = [x \in Clients |-> IF Undisturbed(x) THEN got'[x] ELSE <<>>]
    BY <2>2, SameClients DEF Seen
  <2> HIDE DEF list, new
  <2>4. CASE Undisturbed(c)
    <3>1. Seen(playlist)' = [Seen(playlist) EXCEPT ![c] = list]
      BY <2>2, <2>3, <2>4 DEF Answers, Seen
    <3>2. Seen(got)' = [Seen(got) EXCEPT ![c] = new]
      BY <2>2, <2>3, <2>4 DEF Answers, Seen
    <3>3. list = Stateless!PlaylistOf(file[1], InForce[c])
      BY <2>1, <2>4, SamePlaylist DEF list
    <3>4. new = [k \in DOMAIN list |-> NotFetched]
      BY DEF new
    <3>5. Seen(playlist)[c] = <<>>
      BY <2>2, <2>4 DEF Seen
    <3>6. Stateless!FetchPlaylist(c)
      BY <2>2, <3>1, <3>2, <3>3, <3>4, <3>5, SameClients DEF Stateless!FetchPlaylist
    <3> QED BY <2>1, <3>6 DEF Stateless!Next
  <2>5. CASE ~ Undisturbed(c)
    <3>1. Seen(playlist)' = Seen(playlist) /\ Seen(got)' = Seen(got)
      BY <2>2, <2>3, <2>5 DEF Answers, Seen
    <3> QED BY <2>1, <2>2, <3>1, SameClients DEF Stateless!vars
  <2> QED BY <2>4, <2>5
<1>3. ASSUME NEW w \in Workers, NEW c \in Clients, NEW k \in DOMAIN playlist[c],
             FetchSegment(c, w, k)
      PROVE  Calm' /\ Answers' /\ [Stateless!Next]_(Stateless!vars)
  <2>1. (Undisturbed(c) => length'[w] = InForce[c]) /\ Calm' /\ Answers'
    BY <1>3, SetOptionsInForce DEF FetchSegment, Answers
  <2> DEFINE ans == FragmentsOf(file, AudioTrack(0), playlist[c][k].number, length'[w])
             new == [got[c] EXCEPT ![k] = ans]
  <2>2. /\ got' = [got EXCEPT ![c] = new]
        /\ file' = file /\ playlist' = playlist
        /\ arg' = arg /\ configured' = configured
    BY <1>3 DEF FetchSegment, Answers
  <2>3. /\ Seen(playlist)' = Seen(playlist)
        /\ Seen(got)' = [x \in Clients |-> IF Undisturbed(x) THEN got'[x] ELSE <<>>]
    BY <2>2, SameClients DEF Seen
  <2> HIDE DEF new
  <2>4. CASE Undisturbed(c)
    <3>1. Seen(got)' = [Seen(got) EXCEPT ![c] = new]
      BY <2>2, <2>3, <2>4 DEF Answers, Seen
    <3>2. Seen(got)[c] = got[c] /\ Seen(playlist)[c] = playlist[c]
      BY <2>4 DEF Seen
    <3>3. new = [Seen(got)[c] EXCEPT ![k] = ans]
      BY <3>2 DEF new
    <3>4. ans = Stateless!FragmentsOf(file, Stateless!AudioTrack(0),
                                      Seen(playlist)[c][k].number, InForce[c])
      BY <2>1, <2>4, <3>2, SameFragments
    <3> HIDE DEF ans
    <3>5. Seen(got)' = [Seen(got) EXCEPT ![c][k] = ans]
      BY <3>1, <3>3
    <3>6. Stateless!FetchSegment(c, k)
      BY <2>2, <2>3, <3>4, <3>5, SameClients DEF Stateless!FetchSegment
    <3> QED BY <2>1, <3>2, <3>6 DEF Stateless!Next
  <2>5. CASE ~ Undisturbed(c)
    <3>1. Seen(got)' = Seen(got)
      BY <2>2, <2>3, <2>5 DEF Answers, Seen
    <3> QED BY <2>1, <2>2, <2>3, <3>1, SameClients DEF Stateless!vars
  <2> QED BY <2>4, <2>5
<1>4. CASE UNCHANGED streamingVars
  <2>1. Seen(playlist)' = Seen(playlist) /\ Seen(got)' = Seen(got)
    BY <1>4, SameClients DEF streamingVars, Seen
  <2> QED BY <1>4, <2>1, SameClients DEF streamingVars, Calm, Answers, Stateless!vars
<1> QED BY <1>1, <1>2, <1>3, <1>4 DEF StreamingNext

\* At first nobody has been answered.
LEMMA InitIsStateless == StreamingInit => Stateless!Init
<1> SUFFICES ASSUME StreamingInit PROVE Stateless!Init
  OBVIOUS
<1>1. \A k \in DOMAIN file : IsTrak(file[k])
  BY StreamingAssumption DEF StreamingInit
<1>2. InForce \in [Clients -> Nat]
  BY StreamingAssumption DEF StreamingInit, InForce
<1>3. Seen(playlist) = [c \in Clients |-> <<>>] /\ Seen(got) = [c \in Clients |-> <<>>]
  BY DEF StreamingInit, Seen
<1> QED BY <1>1, <1>2, <1>3 DEF Stateless!Init, IsTrak, Stateless!IsTrak, Kinds, Stateless!Kinds

\* For a client that sends a length argument with every request, or that is
\* among clients who never do, the workers together are a stateless service:
\* although mp4_split_options_set writes into the configuration of the worker,
\* it cannot tell which worker answered, or what was asked of it before.
THEOREM UndisturbedClientsImplementVod == StreamingSpec => ImplementsVod
<1>1. StreamingInit => LengthsTyped /\ Calm /\ Answers /\ Stateless!Init
  BY LengthsTypedInit, CalmAtFirst, InitIsStateless DEF StreamingInit, Answers
<1>2. LengthsTyped /\ Calm /\ Answers /\ [StreamingNext]_streamingVars
        => LengthsTyped' /\ Calm' /\ Answers' /\ [Stateless!Next]_(Stateless!vars)
  BY LengthsTypedNext, StepIsStateless
<1> QED BY <1>1, <1>2, PTL DEF StreamingSpec, ImplementsVod, Stateless!Spec

-----------------------------------------------------------------------------
\* What the clients nobody disturbs have been given is right: the playlist of
\* the length in force for them, and the fragments of its numbers.
AnswersRight ==
  \A c \in Clients : Undisturbed(c) =>
    /\ DOMAIN got[c] = DOMAIN playlist[c]
    /\ DOMAIN playlist[c] # {} => playlist[c] = PlaylistOf(file[1], InForce[c])
    /\ \A k \in DOMAIN got[c] :
         got[c][k] # NotFetched =>
           got[c][k] = FragmentsOf(file, AudioTrack(0), playlist[c][k].number, InForce[c])

\* Answers to others change nothing; the client's own are computed with its length.
LEMMA AnswersRightNext ==
  LengthsTyped /\ Calm /\ Answers /\ AnswersRight /\ [StreamingNext]_streamingVars
    => AnswersRight'
<1> SUFFICES ASSUME LengthsTyped, Calm, Answers, AnswersRight, [StreamingNext]_streamingVars
             PROVE  AnswersRight'
  OBVIOUS
<1>1. ASSUME playlist' = playlist, got' = got, file' = file, arg' = arg,
             configured' = configured
      PROVE  AnswersRight'
  <2>1. InForce' = InForce /\ \A c \in Clients : Undisturbed(c)' <=> Undisturbed(c)
    BY <1>1, SameClients
  <2> QED BY <1>1, <2>1 DEF AnswersRight
<1>2. ASSUME NEW w \in Workers, NEW c \in Clients, FetchPlaylist(c, w)
      PROVE  AnswersRight'
  <2> DEFINE list == PlaylistOf(file[1], length'[w])
             new  == [k \in DOMAIN list |-> NotFetched]
  <2>1. /\ playlist' = [playlist EXCEPT ![c] = list]
        /\ got' = [got EXCEPT ![c] = new]
        /\ file' = file /\ arg' = arg /\ configured' = configured
    BY <1>2 DEF FetchPlaylist
  <2>2. InForce' = InForce /\ \A d \in Clients : Undisturbed(d)' <=> Undisturbed(d)
    BY <2>1, SameClients
  <2>3. Undisturbed(c) => list = PlaylistOf(file[1], InForce[c])
    BY <1>2, SetOptionsInForce DEF FetchPlaylist
  <2>4. DOMAIN new = DOMAIN list /\ \A k \in DOMAIN new : new[k] = NotFetched
    OBVIOUS
  <2> HIDE DEF list, new
  <2>5. /\ playlist'[c] = list /\ got'[c] = new
        /\ \A d \in Clients : d # c => playlist'[d] = playlist[d] /\ got'[d] = got[d]
    BY <2>1 DEF Answers
  <2> SUFFICES ASSUME NEW d \in Clients, Undisturbed(d)
               PROVE  /\ DOMAIN got'[d] = DOMAIN playlist'[d]
                      /\ DOMAIN playlist'[d] # {} => playlist'[d] = PlaylistOf(file[1], InForce[d])
                      /\ \A k \in DOMAIN got'[d] :
                           got'[d][k] # NotFetched =>
                             got'[d][k] = FragmentsOf(file, AudioTrack(0),
                                                      playlist'[d][k].number, InForce[d])
    BY <2>1, <2>2 DEF AnswersRight
  <2>6. CASE d = c
    BY <2>3, <2>4, <2>5, <2>6
  <2>7. CASE d # c
    BY <2>5, <2>7 DEF AnswersRight
  <2> QED BY <2>6, <2>7
<1>3. ASSUME NEW w \in Workers, NEW c \in Clients, NEW k \in DOMAIN playlist[c],
             FetchSegment(c, w, k)
      PROVE  AnswersRight'
  <2> DEFINE ans == FragmentsOf(file, AudioTrack(0), playlist[c][k].number, length'[w])
             new == [got[c] EXCEPT ![k] = ans]
  <2>1. /\ got' = [got EXCEPT ![c] = new] /\ playlist' = playlist
        /\ file' = file /\ arg' = arg /\ configured' = configured
    BY <1>3 DEF FetchSegment, Answers
  <2>2. InForce' = InForce /\ \A d \in Clients : Undisturbed(d)' <=> Undisturbed(d)
    BY <2>1, SameClients
  <2>3. Undisturbed(c) =>
          ans = FragmentsOf(file, AudioTrack(0), playlist[c][k].number, InForce[c])
    BY <1>3, SetOptionsInForce DEF FetchSegment
  <2>4. DOMAIN new = DOMAIN got[c] /\ (k \in DOMAIN got[c] => new[k] = ans)
        /\ \A j \in DOMAIN got[c] : j # k => new[j] = got[c][j]
    OBVIOUS
  <2> HIDE DEF ans, new
  <2>5. got'[c] = new /\ \A d \in Clients : d # c => got'[d] = got[d]
    BY <2>1 DEF Answers
  <2> SUFFICES ASSUME NEW d \in Clients, Undisturbed(d)
               PROVE  /\ DOMAIN got'[d] = DOMAIN playlist[d]
                      /\ DOMAIN playlist[d] # {} => playlist[d] = PlaylistOf(file[1], InForce[d])
                      /\ \A j \in DOMAIN got'[d] :
                           got'[d][j] # NotFetched =>
                             got'[d][j] = FragmentsOf(file, AudioTrack(0),
                                                      playlist[d][j].number, InForce[d])
    BY <2>1, <2>2 DEF AnswersRight
  <2>6. CASE d = c
    <3>1. /\ DOMAIN got[c] = DOMAIN playlist[c]
          /\ DOMAIN playlist[c] # {} => playlist[c] = PlaylistOf(file[1], InForce[c])
          /\ \A j \in DOMAIN got[c] :
               got[c][j] # NotFetched =>
                 got[c][j] = FragmentsOf(file, AudioTrack(0), playlist[c][j].number, InForce[c])
      BY <2>6 DEF AnswersRight
    <3> QED BY <2>3, <2>4, <2>5, <2>6, <3>1
  <2>7. CASE d # c
    BY <2>5, <2>7 DEF AnswersRight
  <2> QED BY <2>6, <2>7
<1>4. ASSUME NEW w \in Workers, Respawn(w) PROVE AnswersRight'
  BY <1>1, <1>4 DEF Respawn
<1>5. CASE UNCHANGED streamingVars
  BY <1>1, <1>5 DEF streamingVars
<1> QED BY <1>2, <1>3, <1>4, <1>5 DEF StreamingNext

\* What holds of every answer given so far.
LEMMA AnswersRightHolds ==
  StreamingSpec => [](LengthsTyped /\ Calm /\ Answers /\ AnswersRight)
<1>1. StreamingInit => LengthsTyped /\ Calm /\ Answers /\ AnswersRight
  <2> SUFFICES ASSUME StreamingInit PROVE LengthsTyped /\ Calm /\ Answers /\ AnswersRight
    OBVIOUS
  <2>1. LengthsTyped /\ Calm
    BY LengthsTypedInit, CalmAtFirst
  <2>2. Answers /\ AnswersRight
    BY DEF StreamingInit, Answers, AnswersRight
  <2> QED BY <2>1, <2>2
<1>2. LengthsTyped /\ Calm /\ Answers /\ AnswersRight /\ [StreamingNext]_streamingVars
        => (LengthsTyped /\ Calm /\ Answers /\ AnswersRight)'
  BY LengthsTypedNext, StepIsStateless, AnswersRightNext
<1> QED BY <1>1, <1>2, PTL DEF StreamingSpec

\* The file that is played is a file, and the length in force a number.
LEMMA FilmTyped ==
  ASSUME LengthsTyped
  PROVE  IsFile(file) /\ Len(file) > 0 /\ \A c \in Clients : InForce[c] \in Nat
<1>1. IsFile(file) /\ Len(file) > 0
  BY StreamingAssumption DEF LengthsTyped, IsFile
<1>2. \A c \in Clients : InForce[c] \in Nat
  BY StreamingAssumption DEF LengthsTyped, InForce
<1> QED BY <1>1, <1>2

\* A client nobody disturbs gets for every entry of its playlist the samples
\* the entry stands for, whichever workers answer, whatever they were asked
\* before, and however often they are restarted.
THEOREM PromisesAreKept == StreamingSpec => []PromiseKept
<1>1. LengthsTyped /\ AnswersRight => PromiseKept
  <2> SUFFICES ASSUME LengthsTyped, AnswersRight, NEW c \in Clients, Undisturbed(c),
                      file[1].kind = "vide", 0 \in file[1].sync, NEW k \in Fetched(c)
               PROVE  /\ got[c][k] # <<>>
                      /\ got[c][k][1] = [track |-> 0, first |-> playlist[c][k].from,
                                         last |-> playlist[c][k].to]
    BY DEF PromiseKept
  <2> DEFINE n == InForce[c]
             list == PlaylistOf(file[1], n)
  <2>1. IsFile(file) /\ Len(file) > 0 /\ n \in Nat
    BY FilmTyped
  <2>2. /\ k \in DOMAIN playlist[c] /\ playlist[c] = list
        /\ got[c][k] = FragmentsOf(file, 1, playlist[c][k].number, n)
    BY DEF AnswersRight, Fetched, AudioTrack
  <2>3. IsTrak(file[1])
    BY <2>1 DEF IsFile
  <2>4. list[k].from \in file[1].sync
    <3>1. PICK N \in Nat : EntriesAre(list, file[1], n, N)
      BY <2>1, <2>3, ListsTheCuts
    <3>2. k \in DOMAIN list
      BY <2>2
    <3> HIDE DEF list
    <3> QED BY <3>1, <3>2 DEF EntriesAre
  <2>5. k \in DOMAIN list /\ 1 \in Nat
    BY <2>2
  <2>6. /\ FragmentsOf(file, 1, list[k].number, n) # <<>>
        /\ FragmentsOf(file, 1, list[k].number, n)[1]
             = [track |-> 0, first |-> list[k].from, last |-> list[k].to]
    BY <2>1, <2>4, <2>5, EntryAnswered, ZenonT(60)
  <2> HIDE DEF list, n
  <2> QED BY <2>2, <2>6
<1> QED BY <1>1, AnswersRightHolds, PTL

\* And what it plays one after the other has no hole in the sound.
THEOREM SoundIsWhole == StreamingSpec => []SoundWithoutHoles
<1>1. LengthsTyped /\ AnswersRight => SoundWithoutHoles
  <2> SUFFICES ASSUME LengthsTyped, AnswersRight, NEW c \in Clients, Undisturbed(c),
                      Len(file) = 2, file[1].kind = "vide", 0 \in file[1].sync,
                      MarkedBy(file[1], file[2]), MarkersApart(file[1], file[2]),
                      NEW k \in Fetched(c), k + 1 \in Fetched(c), Len(got[c][k + 1]) = 2
               PROVE  Len(got[c][k]) = 2 /\ got[c][k + 1][2].first <= got[c][k][2].last
    BY DEF SoundWithoutHoles
  <2> DEFINE n == InForce[c]
             list == PlaylistOf(file[1], n)
  <2>1. IsFile(file) /\ n \in Nat
    BY FilmTyped
  <2>2. ASSUME NEW j \in Fetched(c)
        PROVE  /\ j \in DOMAIN playlist[c] /\ playlist[c] = list
               /\ got[c][j] = FragmentsOf(file, 1, playlist[c][j].number, n)
    BY DEF AnswersRight, Fetched, AudioTrack
  <2>3. /\ k \in DOMAIN list /\ k + 1 \in DOMAIN list
        /\ got[c][k] = FragmentsOf(file, 1, list[k].number, n)
        /\ got[c][k + 1] = FragmentsOf(file, 1, list[k + 1].number, n)
    BY <2>2
  <2> QED BY <2>1, <2>3, NoHole
<1> QED BY <1>1, AnswersRightHolds, PTL
=============================================================================
