--------------------------- MODULE Playlist_proof ---------------------------
(***************************************************************************)
(* The playlist loop is correct for every track and every length: it       *)
(* keeps its loop invariant, it implements the promise of a playlist       *)
(* (Tiling), it reaches the end of the track before it stops, and its      *)
(* #EXTINFs stay within the #EXT-X-TARGETDURATION it announces when the    *)
(* sync samples are not too far apart.                                     *)
(*                                                                         *)
(* Then the tracks themselves: SampleIndex spreads every table over the    *)
(* samples as it should, whatever the tables, so that the times are those  *)
(* that the playlist counts with, and the bytes read for a range are those *)
(* of its samples.                                                         *)
(*                                                                         *)
(* Last the cutting of a file: whatever range is asked for of whatever     *)
(* tables, each table that Mp4Crop writes stands for the samples of the    *)
(* range and for no other, and the bytes that are sent hold them.          *)
(***************************************************************************)
EXTENDS Playlist, Mp4Crop, Segmentation_proof, SequenceTheorems

Entry == [number : Nat, from : 0 .. trak.size, to : 0 .. trak.size]

\* Each variable of the loop has its type, and cur never passes last.
THEOREM TypeCorrect == Spec => []TypeOK
<1>1. Init => TypeOK
  BY TraksAssumption, LengthsAssumption DEF Init, TypeOK, IsTrak, last
<1>2. TypeOK /\ [Next]_vars => TypeOK'
  <2>. SUFFICES ASSUME TypeOK, [Next]_vars
                PROVE  TypeOK'
    OBVIOUS
  <2>0. trak.size \in Nat
    BY DEF TypeOK, IsTrak
  <2>1. CASE SkipSample \/ PassSync
    <3>1. UNCHANGED <<trak, length, prev, prev_i, entries>>
      BY <2>1 DEF SkipSample, PassSync
    <3>2. cur' \in 0 .. last' /\ i' \in Nat
      BY <2>0, <2>1 DEF SkipSample, PassSync, TypeOK, last
    <3>. QED
      BY <3>1, <3>2 DEF TypeOK
  <2>. USE DEF TypeOK, last
  <2>3. CASE CutSegment
    <3>1. cur \in 0 .. trak.size
      BY <2>0, <2>3 DEF CutSegment
    <3>2. [number |-> prev_i, from |-> prev, to |-> cur] \in Entry
      BY <3>1 DEF Entry
    <3>3. entries' \in Seq(Entry)
      BY <2>3, <3>2 DEF CutSegment, Entry
    <3>. QED
      BY <2>0, <2>3, <3>1, <3>3 DEF CutSegment, Entry
  <2>4. CASE UNCHANGED vars
    BY <2>4 DEF vars
  <2>. QED
    BY <2>1, <2>3, <2>4 DEF Next
<1>. QED
  BY <1>1, <1>2, PTL DEF Spec

\* When the loop cuts at cur, cur is the cut of the track after prev: no
\* earlier sync sample would do, for the loop would have stopped there.
LEMMA CutHereIsCut ==
  ASSUME TypeOK, NoCutMissed, prev <= cur, cur # last, Smooth(trak, cur), CutHere
  PROVE  /\ cur \in prev + 1 .. trak.size
         /\ Cut(trak, prev, length) = cur
<1>. trak.size \in Nat
  BY DEF TypeOK, IsTrak
<1>1. cur \in prev + 1 .. trak.size
  BY DEF TypeOK, last, CutHere
<1>2. cur \in CutPoints(trak, prev, length)
  BY <1>1 DEF CutPoints, CutHere, last
<1>3. ASSUME NEW p \in CutPoints(trak, prev, length)
      PROVE  cur <= p
  BY <1>1, <1>3 DEF TypeOK, CutPoints, NoCutMissed
<1>4. Cut(trak, prev, length) = cur
  BY <1>2, <1>3, CutIsFirst DEF TypeOK
<1>. QED
  BY <1>1, <1>4

LEMMA LoopInvariantInit == Init => LoopInvariant
<1>. SUFFICES ASSUME Init PROVE LoopInvariant
  OBVIOUS
<1>1. IsTrak(trak) /\ trak.size \in Nat
  BY TraksAssumption DEF Init, IsTrak
<1>2. CountersAreRanks
  BY <1>1, RankOfFirst DEF Init, CountersAreRanks
<1>3. NoCutMissed
  BY <1>1 DEF Init, NoCutMissed
<1>4. PrevIsLastCut /\ EntriesTile /\ EntriesAreCuts
  BY DEF Init, PrevIsLastCut, EntriesTile, EntriesAreCuts
<1>. QED
  BY <1>2, <1>3, <1>4 DEF LoopInvariant

LEMMA LoopInvariantNext ==
  TypeOK /\ TypeOK' /\ LoopInvariant /\ [Next]_vars => LoopInvariant'
<1>. SUFFICES ASSUME TypeOK, TypeOK', LoopInvariant, [Next]_vars
              PROVE  LoopInvariant'
  OBVIOUS
<1>. USE DEF LoopInvariant
<1>0. IsTrak(trak) /\ trak.size \in Nat /\ cur \in Nat /\ prev \in Nat
  BY SMTT(60) DEF TypeOK, IsTrak, last
<1>00. trak.sync \subseteq 0 .. trak.size - 1
  BY <1>0 DEF IsTrak
<1>01. prev <= cur
  BY <1>0 DEF PrevIsLastCut
<1>1. CASE SkipSample
  <2>. USE <1>1 DEF SkipSample
  <2>1. cur \notin trak.sync /\ cur # trak.size
    BY DEF Smooth
  <2>2. CountersAreRanks'
    BY <1>0, <2>1, RankStep DEF CountersAreRanks, last
  <2>3. NoCutMissed'
    <3>. SUFFICES ASSUME NEW n \in prev + 1 .. trak.size, n < cur + 1, Smooth(trak, n)
                  PROVE  n # trak.size /\ ~ LongEnough(trak, prev, n, length)
      BY DEF NoCutMissed
    <3>1. n # cur
      OBVIOUS
    <3>2. n < cur
      BY <1>0, <3>1
    <3>. QED
      BY <3>2 DEF NoCutMissed
  <2>4. PrevIsLastCut'
    BY <1>0 DEF PrevIsLastCut
  <2>5. EntriesTile' /\ EntriesAreCuts'
    BY DEF EntriesTile, EntriesAreCuts
  <2>. QED
    BY <2>2, <2>3, <2>4, <2>5
<1>2. CASE PassSync
  <2>. USE <1>2 DEF PassSync
  <2>1. CountersAreRanks'
    <3>1. cur' # last' => cur \in trak.sync
      BY <1>0 DEF Smooth, last
    <3>. QED
      BY <1>0, <3>1, RankStep DEF CountersAreRanks, last
  <2>2. NoCutMissed'
    <3>. SUFFICES ASSUME NEW n \in prev + 1 .. trak.size, n < cur + 1, Smooth(trak, n)
                  PROVE  n # trak.size /\ ~ LongEnough(trak, prev, n, length)
      BY DEF NoCutMissed
    <3>1. CASE n = cur
      BY <1>0, <3>1 DEF CutHere, last
    <3>2. CASE n # cur
      BY <1>0, <3>2 DEF NoCutMissed
    <3>. QED
      BY <3>1, <3>2
  <2>3. PrevIsLastCut'
    BY <1>0 DEF PrevIsLastCut
  <2>4. EntriesTile' /\ EntriesAreCuts'
    BY DEF EntriesTile, EntriesAreCuts
  <2>. QED
    BY <2>1, <2>2, <2>3, <2>4
<1>3. CASE CutSegment
  <2>. USE <1>3 DEF CutSegment
  <2>1. cur \in prev + 1 .. trak.size /\ Cut(trak, prev, length) = cur
    BY <1>01, CutHereIsCut
  <2>2. CountersAreRanks'
    <3>1. cur' # last' => cur \in trak.sync
      BY <1>0 DEF Smooth, last
    <3>2. Rank(trak, cur + 1) = IF cur \in trak.sync THEN Rank(trak, cur) + 1
                                                     ELSE Rank(trak, cur)
      BY <1>0, RankStep
    <3>. QED
      BY <1>0, <3>1, <3>2 DEF CountersAreRanks, last
  <2>3. NoCutMissed'
    BY <1>0 DEF NoCutMissed
  <2>. DEFINE e == [number |-> prev_i, from |-> prev, to |-> cur]
  <2>4. e \in Entry
    BY <1>0, <2>1 DEF Entry, TypeOK
  <2>5. entries \in Seq(Entry) /\ entries' = Append(entries, e)
    BY DEF TypeOK, Entry
  <2>6. /\ Len(entries') = Len(entries) + 1 /\ Len(entries) \in Nat
        /\ \A k \in 1 .. Len(entries) : entries'[k] = entries[k]
        /\ entries'[Len(entries) + 1] = e
        /\ entries' # <<>>
    BY <2>4, <2>5
  <2>7. PrevIsLastCut'
    BY <1>0, <2>6 DEF PrevIsLastCut
  <2>8. EntriesTile'
    <3>. SUFFICES ASSUME NEW k \in 1 .. Len(entries')
                  PROVE  /\ entries'[k].from = IF k = 1 THEN 0 ELSE entries'[k - 1].to
                         /\ entries'[k].from < entries'[k].to
                         /\ Smooth(trak, entries'[k].to)
      BY DEF EntriesTile
    <3>1. CASE k \in 1 .. Len(entries)
      BY <2>6, <3>1 DEF EntriesTile
    <3>2. CASE k = Len(entries) + 1
      <4>1. /\ entries'[k].from = prev
            /\ entries'[k].from < entries'[k].to
            /\ Smooth(trak, entries'[k].to)
        BY <1>0, <2>1, <2>6, <3>2
      <4>2. CASE entries = <<>>
        BY <2>6, <3>2, <4>1, <4>2 DEF PrevIsLastCut
      <4>3. CASE entries # <<>>
        <5>1. k - 1 \in 1 .. Len(entries) /\ k # 1
          BY <2>5, <2>6, <3>2, <4>3
        <5>. QED
          BY <2>6, <3>2, <4>1, <4>3, <5>1 DEF PrevIsLastCut
      <4>. QED
        BY <4>2, <4>3
    <3>. QED
      BY <2>6, <3>1, <3>2
  <2>9. EntriesAreCuts'
    <3>. SUFFICES ASSUME NEW k \in 1 .. Len(entries')
                  PROVE  /\ entries'[k].number = Rank(trak, entries'[k].from)
                         /\ entries'[k].to = Cut(trak, entries'[k].from, length)
      BY DEF EntriesAreCuts
    <3>1. CASE k \in 1 .. Len(entries)
      BY <2>6, <3>1 DEF EntriesAreCuts
    <3>2. CASE k = Len(entries) + 1
      BY <2>1, <2>6, <3>2 DEF CountersAreRanks
    <3>. QED
      BY <2>6, <3>1, <3>2
  <2>. QED
    BY <2>2, <2>3, <2>7, <2>8, <2>9
<1>4. CASE UNCHANGED vars
  BY <1>4 DEF vars, CountersAreRanks, NoCutMissed, PrevIsLastCut, EntriesTile,
              EntriesAreCuts, last
<1>. QED
  BY <1>1, <1>2, <1>3, <1>4 DEF Next

\* At every moment of the loop the entries written are the cuts of the track,
\* one after the other, and the loop variables describe the next one.
THEOREM LoopCorrect == Spec => []LoopInvariant
<1>1. Init => LoopInvariant
  BY LoopInvariantInit
<1>2. TypeOK /\ TypeOK' /\ LoopInvariant /\ [Next]_vars => LoopInvariant'
  BY LoopInvariantNext
<1>. QED
  BY <1>1, <1>2, TypeCorrect, PTL DEF Spec

\* Inside the promise the operators on tracks mean what they mean here.
LEMMA SamePromise ==
  /\ \A x : Promise!IsTrak(x) <=> IsTrak(x)
  /\ \A x, n : Promise!Rank(x, n) = Rank(x, n)
  /\ \A x, a, seconds : Promise!Cut(x, a, seconds) = Cut(x, a, seconds)
<1>1. \A x : Promise!IsTrak(x) <=> IsTrak(x)
  BY DEF Promise!IsTrak, IsTrak, Promise!Kinds, Kinds
<1>2. \A x, n : Promise!Rank(x, n) = Rank(x, n)
  BY DEF Promise!Rank, Rank, Promise!Cardinality, Cardinality, Promise!IsFiniteSet, IsFiniteSet
<1>3. \A x, a, seconds : Promise!CutPoints(x, a, seconds) = CutPoints(x, a, seconds)
  BY DEF Promise!CutPoints, CutPoints, Promise!Smooth, Smooth,
         Promise!LongEnough, LongEnough
<1>4. \A x, a, seconds : Promise!Cut(x, a, seconds) = Cut(x, a, seconds)
  BY <1>3 DEF Promise!Cut, Cut, Promise!Min, Min
<1>. QED
  BY <1>1, <1>2, <1>4

\* Every step of the loop extends the promised tiling by one segment or
\* leaves it alone.
LEMMA StepKeepsPromise ==
  TypeOK /\ LoopInvariant /\ [Next]_vars => [Promise!Next]_Promise!vars
<1>. SUFFICES ASSUME TypeOK, LoopInvariant, [Next]_vars
              PROVE  [Promise!Next]_Promise!vars
  OBVIOUS
<1>1. CASE SkipSample \/ PassSync
  BY <1>1 DEF SkipSample, PassSync, Promise!vars
<1>2. CASE CutSegment
  <2>1. trak.size \in Nat /\ cur \in Nat /\ prev \in Nat
    BY DEF TypeOK, IsTrak, last
  <2>2. prev <= cur
    BY <2>1 DEF LoopInvariant, PrevIsLastCut
  <2>3. cur \in prev + 1 .. trak.size /\ Cut(trak, prev, length) = cur
    BY <1>2, <2>2, CutHereIsCut DEF CutSegment, LoopInvariant
  <2>4. Promise!Covered = prev
    BY DEF LoopInvariant, PrevIsLastCut, Promise!Covered
  <2>5. prev # trak.size
    BY <2>1, <2>3
  <2>6. prev_i = Rank(trak, prev)
    BY DEF LoopInvariant, CountersAreRanks
  <2>7. entries' = Append(entries, Promise!Tile(Promise!Covered,
                             Promise!Cut(trak, Promise!Covered, length)))
    BY <1>2, <2>3, <2>4, <2>6, SamePromise DEF CutSegment, Promise!Tile
  <2>. QED
    BY <1>2, <2>4, <2>5, <2>7 DEF CutSegment, Promise!Next, Promise!Extend
<1>3. CASE UNCHANGED vars
  BY <1>3 DEF vars, Promise!vars
<1>. QED
  BY <1>1, <1>2, <1>3 DEF Next

\* The loop of mp4_create_m3u8 implements what a media playlist promises.
THEOREM PlaylistImplementsTiling == Spec => ImplementsTiling
<1>1. Init => Promise!Init
  BY TraksAssumption, LengthsAssumption, SamePromise DEF Init, Promise!Init
<1>2. TypeOK /\ LoopInvariant /\ [Next]_vars => [Promise!Next]_Promise!vars
  BY StepKeepsPromise
<1>. QED
  BY <1>1, <1>2, TypeCorrect, LoopCorrect, PTL DEF Spec, Promise!Spec, ImplementsTiling

\* The loop does not stop before the entries reach the end of the track: no
\* sample of the file is missing from the playlist.
THEOREM PlaylistCoversTrack == Spec => [](Done => Promise!Covered = trak.size)
<1>1. TypeOK /\ LoopInvariant => (Done => Promise!Covered = trak.size)
  <2>. SUFFICES ASSUME TypeOK, LoopInvariant, Done
                PROVE  Promise!Covered = trak.size
    OBVIOUS
  <2>1. trak.size \in Nat /\ cur = trak.size + 1 /\ prev \in 0 .. trak.size
    BY DEF TypeOK, IsTrak, Done, last
  <2>2. Promise!Covered = prev
    BY DEF LoopInvariant, PrevIsLastCut, Promise!Covered
  <2>3. CASE prev # trak.size
    <3>1. trak.size \in prev + 1 .. trak.size /\ trak.size < cur
      BY <2>1, <2>3
    <3>2. Smooth(trak, trak.size)
      BY DEF Smooth
    <3>. QED
      BY <3>1, <3>2 DEF LoopInvariant, NoCutMissed
  <2>. QED
    BY <2>2, <2>3
<1>. QED
  BY <1>1, TypeCorrect, LoopCorrect, PTL

\* The #EXTINFs stay within the #EXT-X-TARGETDURATION when the sync samples
\* are at most three seconds apart.
THEOREM TargetDurationHolds == Spec => []DurationsWithinTarget
<1>1. TypeOK /\ LoopInvariant => DurationsWithinTarget
  <2>. SUFFICES ASSUME TypeOK, LoopInvariant, SyncGapsWithin(3),
                       NEW k \in 1 .. Len(entries)
                PROVE  trak.pts[entries[k].to] - trak.pts[entries[k].from]
                         <= TargetDuration * trak.scale
    BY DEF DurationsWithinTarget
  <2>1. IsTrak(trak) /\ length \in Nat
    BY DEF TypeOK
  <2>2. entries \in Seq(Entry)
    BY DEF TypeOK, Entry
  <2>3. entries[k].from \in 0 .. trak.size /\ entries[k].to \in 0 .. trak.size
    <3>1. entries[k] \in Entry
      BY <2>2
    <3>. QED
      BY <3>1 DEF Entry
  <2>4. entries[k].to = Cut(trak, entries[k].from, length)
    BY DEF LoopInvariant, EntriesAreCuts
  <2>5. entries[k].from # trak.size
    BY <2>1, <2>3 DEF LoopInvariant, EntriesTile, IsTrak
  <2>6. entries[k].from = 0 \/ Smooth(trak, entries[k].from)
    BY <2>2 DEF LoopInvariant, EntriesTile
  <2>7. trak.pts[entries[k].to] - trak.pts[entries[k].from]
          <= (length + 3) * trak.scale
    BY <2>1, <2>3, <2>4, <2>5, <2>6, CutWithinGap DEF SyncGapsWithin
  <2>. QED
    BY <2>7 DEF TargetDuration
<1>. QED
  BY <1>1, TypeCorrect, LoopCorrect, PTL

-----------------------------------------------------------------------------
(* The chunk map.                                                          *)

\* The entry of the chunk map that is good for chunk c, and the samples it gives.
EntryFor(x, c) ==
  CHOOSE e \in DOMAIN x.stsc :
    /\ x.stsc[e].chunk <= c
    /\ \A d \in DOMAIN x.stsc : x.stsc[d].chunk <= c => d <= e
InChunkOf(x, c) == x.stsc[EntryFor(x, c)].samples

\* The entries rise.
LEMMA ChunksRise ==
  ASSUME NEW x \in Tables
  PROVE  /\ Len(x.stsc) \in Nat \ {0} /\ DOMAIN x.stsc = 1 .. Len(x.stsc)
         /\ Len(x.stco) \in Nat \ {0} /\ DOMAIN x.stco = 1 .. Len(x.stco)
         /\ \A e \in 1 .. Len(x.stsc) : x.stsc[e].chunk \in 0 .. Len(x.stco) - 1
                                        /\ x.stsc[e].samples \in Nat
         /\ \A c \in 1 .. Len(x.stco) : x.stco[c] \in Nat
         /\ x.stsc[1].chunk = 0
         /\ \A d, e \in 1 .. Len(x.stsc) : d < e => x.stsc[d].chunk < x.stsc[e].chunk
<1> DEFINE N == Len(x.stsc)
<1>1. Typed(x) /\ Consistent(x)
  BY TablesAssumption
<1>2. x.stsc \in Seq([chunk : Nat, samples : Nat]) /\ x.stco \in Seq(Nat)
      /\ x.stsc # <<>> /\ x.stco # <<>>
  BY <1>1 DEF Typed, Consistent
<1>3. /\ N \in Nat \ {0} /\ DOMAIN x.stsc = 1 .. N
      /\ Len(x.stco) \in Nat \ {0} /\ DOMAIN x.stco = 1 .. Len(x.stco)
      /\ \A c \in 1 .. Len(x.stco) : x.stco[c] \in Nat
      /\ \A e \in 1 .. N : x.stsc[e].chunk \in Nat /\ x.stsc[e].samples \in Nat
  <2>1. \A S : \A q \in Seq(S) : q # <<>> =>
          Len(q) \in Nat \ {0} /\ DOMAIN q = 1 .. Len(q) /\ \A e \in 1 .. Len(q) : q[e] \in S
    OBVIOUS
  <2>2. N \in Nat \ {0} /\ DOMAIN x.stsc = 1 .. N
        /\ \A e \in 1 .. N : x.stsc[e] \in [chunk : Nat, samples : Nat]
    BY <1>2, <2>1
  <2>3. Len(x.stco) \in Nat \ {0} /\ DOMAIN x.stco = 1 .. Len(x.stco)
        /\ \A c \in 1 .. Len(x.stco) : x.stco[c] \in Nat
    BY <1>2, <2>1
  <2> QED BY <2>2, <2>3
<1>4. x.stsc[1].chunk = 0 /\ x.stsc[N].chunk < Len(x.stco)
      /\ \A e \in 2 .. N : x.stsc[e - 1].chunk < x.stsc[e].chunk
  BY <1>1 DEF Consistent
<1> HIDE DEF N
<1>5. ASSUME NEW d \in 1 .. N
      PROVE  \A e \in 1 .. N : d < e => x.stsc[d].chunk < x.stsc[e].chunk
  <2> DEFINE S == {n \in 0 .. N : n \in 1 .. N /\ d < n => x.stsc[d].chunk < x.stsc[n].chunk}
  <2>1. 0 \in S
    BY <1>3
  <2>2. ASSUME NEW n \in 0 .. N - 1, n \in S PROVE n + 1 \in S
    <3>1. CASE d < n
      <4>1. n \in 1 .. N /\ n + 1 \in 2 .. N /\ n + 1 - 1 = n
        BY <1>3, <3>1
      <4>2. x.stsc[n].chunk < x.stsc[n + 1].chunk /\ x.stsc[d].chunk < x.stsc[n].chunk
        BY <1>4, <2>2, <3>1, <4>1
      <4>3. x.stsc[n].chunk \in Nat /\ x.stsc[n + 1].chunk \in Nat /\ x.stsc[d].chunk \in Nat
        BY <1>3, <4>1
      <4>4. x.stsc[d].chunk < x.stsc[n + 1].chunk
        BY <4>2, <4>3
      <4> QED BY <1>3, <4>4
    <3>2. CASE d = n
      <4>1. n + 1 \in 2 .. N /\ n + 1 - 1 = n
        BY <1>3, <3>2
      <4> QED BY <1>3, <1>4, <3>2, <4>1
    <3>3. CASE ~ d < n + 1
      BY <1>3, <3>3
    <3> QED BY <1>3, <3>1, <3>2, <3>3
  <2>3. 0 .. N \subseteq S
    <3> HIDE DEF S
    <3>1. N \in Nat
      BY <1>3
    <3> QED BY <2>1, <2>2, <3>1, UpTo
  <2> QED BY <2>3
<1>6. ASSUME NEW e \in 1 .. N PROVE x.stsc[e].chunk < Len(x.stco)
  <2>1. CASE e = N
    BY <1>4, <2>1
  <2>2. CASE e # N
    <3>1. N \in 1 .. N /\ e < N
      BY <1>3, <2>2
    <3>2. x.stsc[e].chunk < x.stsc[N].chunk
      BY <1>5, <3>1
    <3>3. x.stsc[e].chunk \in Nat /\ x.stsc[N].chunk \in Nat
      BY <1>3, <3>1
    <3> QED BY <1>3, <1>4, <3>2, <3>3
  <2> QED BY <2>1, <2>2
<1>7. \A e \in 1 .. N : x.stsc[e].chunk \in 0 .. Len(x.stco) - 1
  BY <1>3, <1>6
<1>8. N = Len(x.stsc)
  BY DEF N
<1> QED BY <1>3, <1>4, <1>5, <1>7, <1>8

\* An entry is good up to where the next one begins.
LEMMA EntryForIs ==
  ASSUME NEW x \in Tables, NEW e \in 1 .. Len(x.stsc), NEW c \in Nat,
         x.stsc[e].chunk <= c, e < Len(x.stsc) => c < x.stsc[e + 1].chunk
  PROVE  EntryFor(x, c) = e
<1> DEFINE N == Len(x.stsc)
           Good(n) == /\ x.stsc[n].chunk <= c
                      /\ \A d \in 1 .. N : x.stsc[d].chunk <= c => d <= n
<1>1. /\ N \in Nat \ {0} /\ DOMAIN x.stsc = 1 .. N
      /\ \A n \in 1 .. N : x.stsc[n].chunk \in Nat
      /\ \A m, n \in 1 .. N : m < n => x.stsc[m].chunk < x.stsc[n].chunk
  BY ChunksRise
<1>2. ASSUME NEW d \in 1 .. N, x.stsc[d].chunk <= c PROVE d <= e
  <2> SUFFICES ASSUME d > e PROVE FALSE
    BY <1>1
  <2>1. e + 1 \in 1 .. N /\ e < N /\ c < x.stsc[e + 1].chunk
    BY <1>1
  <2>2. x.stsc[e + 1].chunk \in Nat /\ x.stsc[d].chunk \in Nat
    BY <1>1, <2>1
  <2>3. CASE d = e + 1
    BY <1>2, <2>1, <2>2, <2>3
  <2>4. CASE d # e + 1
    <3>1. x.stsc[e + 1].chunk < x.stsc[d].chunk
      BY <1>1, <2>1, <2>4
    <3> QED BY <1>2, <2>1, <2>2, <3>1
  <2> QED BY <2>3, <2>4
<1>3. Good(e)
  BY <1>2
<1>4. \A n \in 1 .. N : Good(n) => n = e
  BY <1>1, <1>3
<1>5. EntryFor(x, c) = CHOOSE n \in 1 .. N : Good(n)
  BY <1>1 DEF EntryFor
<1> HIDE DEF Good, N
<1>6. e \in 1 .. N
  BY DEF N
<1> QED BY <1>3, <1>4, <1>5, <1>6

\* Every chunk has an entry.
LEMMA EveryChunkHasEntry ==
  ASSUME NEW x \in Tables, NEW c \in Nat
  PROVE  EntryFor(x, c) \in 1 .. Len(x.stsc) /\ InChunkOf(x, c) \in Nat
<1> DEFINE N == Len(x.stsc)
           S == {n \in 1 .. N : x.stsc[n].chunk <= c}
<1>1. N \in Nat \ {0} /\ x.stsc[1].chunk = 0
      /\ \A n \in 1 .. N : x.stsc[n].chunk \in Nat /\ x.stsc[n].samples \in Nat
  BY ChunksRise
<1>2. 1 \in S /\ S \subseteq 0 .. N
  BY <1>1
<1>3. PICK e \in S : \A n \in S : n <= e
  <2> HIDE DEF S
  <2> QED BY <1>1, <1>2, BoundedNatMax
<1>4. e \in 1 .. N /\ x.stsc[e].chunk <= c
  BY <1>3
<1>5. e < N => c < x.stsc[e + 1].chunk
  BY <1>1, <1>3, <1>4
<1>6. EntryFor(x, c) = e
  <2> HIDE DEF S
  <2> QED BY <1>4, <1>5, EntryForIs
<1> QED BY <1>1, <1>4, <1>6 DEF InChunkOf

\* The first sample of each chunk: as many as those before it have.
Firsts(x) ==
  LET before[c \in 0 .. Len(x.stco)] ==
        IF c = 0 THEN 0 ELSE before[c - 1] + x.stsc[EntryFor(x, c - 1)].samples
  IN  before

\* These are sums, of what the entries give.
LEMMA FirstsAre ==
  ASSUME NEW x \in Tables
  PROVE  SumsUp(Firsts(x), [c \in 0 .. Len(x.stco) - 1 |-> InChunkOf(x, c)], Len(x.stco))
<1> DEFINE N == Len(x.stco)
           w == [c \in 0 .. N - 1 |-> InChunkOf(x, c)]
           Body(f) == [c \in 0 .. N |->
                         IF c = 0 THEN 0 ELSE f[c - 1] + x.stsc[EntryFor(x, c - 1)].samples]
           from == CHOOSE f : f = Body(f)
<1>1. N \in Nat
  BY ChunksRise
<1>2. \A c \in 0 .. N - 1 : w[c] \in Nat /\ w[c] = x.stsc[EntryFor(x, c)].samples
  <2> SUFFICES ASSUME NEW c \in 0 .. N - 1
               PROVE  w[c] \in Nat /\ w[c] = x.stsc[EntryFor(x, c)].samples
    OBVIOUS
  <2>1. c \in Nat
    BY <1>1
  <2>2. InChunkOf(x, c) \in Nat
    BY <2>1, EveryChunkHasEntry
  <2> QED BY <2>2 DEF InChunkOf
<1>3. Firsts(x) = from
  BY DEF Firsts
<1> HIDE DEF w, N
<1>4. PICK g : SumsUp(g, w, N)
  BY <1>1, <1>2, SumExists
<1>5. g = Body(g)
  <2>1. g \in [0 .. N -> Nat] /\ g[0] = 0 /\ \A n \in 0 .. N - 1 : g[n + 1] = g[n] + w[n]
    BY <1>4 DEF SumsUp
  <2>2. ASSUME NEW c \in 1 .. N PROVE g[c] = g[c - 1] + x.stsc[EntryFor(x, c - 1)].samples
    <3>1. c - 1 \in 0 .. N - 1 /\ c - 1 + 1 = c
      BY <1>1
    <3> QED BY <1>2, <2>1, <3>1
  <2>3. \A c \in 0 .. N : Body(g)[c] = g[c]
    BY <1>1, <2>1, <2>2
  <2>4. Body(g) = [c \in 0 .. N |-> Body(g)[c]] /\ g = [c \in 0 .. N |-> g[c]]
    BY <2>1
  <2> HIDE DEF Body
  <2> QED BY <2>3, <2>4
<1>6. from = Body(from)
  <2> HIDE DEF Body
  <2> QED BY <1>5
<1> HIDE DEF from
<1>7. from[0] = 0 /\ DOMAIN from = 0 .. N
  BY <1>1, <1>6
<1>8. ASSUME NEW c \in 0 .. N - 1 PROVE from[c + 1] = from[c] + w[c]
  <2>1. c + 1 \in 0 .. N /\ c + 1 # 0 /\ c + 1 - 1 = c
    BY <1>1
  <2>2. from[c + 1] = Body(from)[c + 1]
    BY <1>6
  <2>3. Body(from)[c + 1] = from[c] + x.stsc[EntryFor(x, c)].samples
    BY <2>1
  <2> QED BY <1>2, <2>2, <2>3
<1>9. \A c \in 0 .. N : from[c] \in Nat
  <2> DEFINE S == {c \in 0 .. N : from[c] \in Nat}
  <2>1. 0 \in S
    BY <1>1, <1>7
  <2>2. \A n \in 0 .. N - 1 : n \in S => n + 1 \in S
    BY <1>1, <1>2, <1>8
  <2>3. 0 .. N \subseteq S
    <3> HIDE DEF S
    <3> QED BY <1>1, <2>1, <2>2, UpTo
  <2> QED BY <2>3
<1>10. from = [c \in 0 .. N |-> from[c]]
  BY <1>6
<1>11. from \in [0 .. N -> Nat]
  BY <1>9, <1>10
<1>12. SumsUp(from, w, N)
  BY <1>7, <1>8, <1>11 DEF SumsUp
<1> QED BY <1>3, <1>12 DEF w, N

\* The same in single facts.
LEMMA FirstsRise ==
  ASSUME NEW x \in Tables
  PROVE  /\ Firsts(x)[0] = 0
         /\ \A c \in 0 .. Len(x.stco) : Firsts(x)[c] \in Nat
         /\ \A c \in 0 .. Len(x.stco) - 1 : Firsts(x)[c + 1] = Firsts(x)[c] + InChunkOf(x, c)
         /\ \A c, d \in 0 .. Len(x.stco) : c <= d => Firsts(x)[c] <= Firsts(x)[d]
<1> DEFINE N == Len(x.stco)
           w == [c \in 0 .. N - 1 |-> InChunkOf(x, c)]
           f == Firsts(x)
<1>1. SumsUp(f, w, N)
  BY FirstsAre
<1>2. N \in Nat
  BY ChunksRise
<1>3. \A c \in 0 .. N - 1 : w[c] = InChunkOf(x, c) /\ w[c] \in Nat
  <2> SUFFICES ASSUME NEW c \in 0 .. N - 1 PROVE w[c] = InChunkOf(x, c) /\ w[c] \in Nat
    OBVIOUS
  <2>1. c \in Nat
    BY <1>2
  <2> QED BY <2>1, EveryChunkHasEntry
<1> HIDE DEF w, N, f
<1>4. \A c, d \in 0 .. N : c <= d => f[c] <= f[d]
  BY <1>1, <1>2, <1>3, SumRises
<1>5. f[0] = 0 /\ (\A c \in 0 .. N : f[c] \in Nat) /\ \A c \in 0 .. N - 1 : f[c + 1] = f[c] + w[c]
  BY <1>1 DEF SumsUp
<1> QED BY <1>3, <1>4, <1>5 DEF N, f

(* The samples, and their bytes.                                           *)

\* How many samples there are, how large they are, and how many bytes are before each.
CountOf(x) ==
  IF x.stsz.sample_size = 0 THEN Len(x.stsz.sizes) ELSE Firsts(x)[Len(x.stco)]
SizeIn(x, n) ==
  IF x.stsz.sample_size = 0 THEN x.stsz.sizes[n + 1] ELSE x.stsz.sample_size
SizesOf(x) == [n \in 0 .. CountOf(x) - 1 |-> SizeIn(x, n)]
BytesUpTo(x) == CHOOSE f : SumsUp(f, SizesOf(x), CountOf(x))

\* There are such sums, and they rise.
LEMMA BytesRise ==
  ASSUME NEW x \in Tables
  PROVE  /\ CountOf(x) \in Nat /\ x.stsz.sample_size \in Nat
         /\ \A n \in 0 .. CountOf(x) - 1 : SizeIn(x, n) \in Nat
         /\ \A n \in 0 .. CountOf(x) : BytesUpTo(x)[n] \in Nat
         /\ \A n \in 0 .. CountOf(x) - 1 : BytesUpTo(x)[n + 1] = BytesUpTo(x)[n] + SizeIn(x, n)
         /\ \A m, n \in 0 .. CountOf(x) : m <= n => BytesUpTo(x)[m] <= BytesUpTo(x)[n]
<1> DEFINE N == CountOf(x)
           w == SizesOf(x)
           f == BytesUpTo(x)
<1>1. x.stsz.sample_size \in Nat /\ x.stsz.sizes \in Seq(Nat)
  BY TablesAssumption DEF Typed
<1>2. N \in Nat
  <2>1. Firsts(x)[Len(x.stco)] \in Nat
    BY ChunksRise, FirstsRise
  <2> QED BY <1>1, <2>1 DEF CountOf
<1>3. \A n \in 0 .. N - 1 : SizeIn(x, n) \in Nat
  <2> SUFFICES ASSUME NEW n \in 0 .. N - 1 PROVE SizeIn(x, n) \in Nat
    OBVIOUS
  <2>1. CASE x.stsz.sample_size = 0
    <3>1. N = Len(x.stsz.sizes)
      BY <2>1 DEF CountOf
    <3>2. n + 1 \in 1 .. Len(x.stsz.sizes)
      BY <1>2, <3>1
    <3>3. x.stsz.sizes[n + 1] \in Nat
      BY <1>1, <3>2
    <3> QED BY <2>1, <3>3 DEF SizeIn
  <2>2. CASE x.stsz.sample_size # 0
    BY <1>1, <2>2 DEF SizeIn
  <2> QED BY <2>1, <2>2
<1>4. \A n \in 0 .. N - 1 : w[n] = SizeIn(x, n) /\ w[n] \in Nat
  BY <1>3 DEF SizesOf
<1> HIDE DEF N, w
<1>5. \E g : SumsUp(g, w, N)
  BY <1>2, <1>4, SumExists
<1>6. SumsUp(f, w, N)
  BY <1>5 DEF BytesUpTo, N, w
<1> HIDE DEF f
<1>7. \A m, n \in 0 .. N : m <= n => f[m] <= f[n]
  BY <1>2, <1>4, <1>6, SumRises
<1>8. (\A n \in 0 .. N : f[n] \in Nat) /\ \A n \in 0 .. N - 1 : f[n + 1] = f[n] + w[n]
  BY <1>6 DEF SumsUp
<1> QED BY <1>1, <1>2, <1>3, <1>4, <1>7, <1>8 DEF N, f

\* What BytesOf adds up is the difference.
LEMMA BytesAre ==
  ASSUME t \in Tables, \A n \in 0 .. CountOf(t) - 1 : samples[n].size = SizeIn(t, n),
         NEW a \in 0 .. CountOf(t), NEW b \in 0 .. CountOf(t)
  PROVE  BytesOf(a, b) = IF b < a THEN 0 ELSE BytesUpTo(t)[b] - BytesUpTo(t)[a]
<1> DEFINE N == CountOf(t)
           u == BytesUpTo(t)
           Body(f) == [n \in a .. b |-> IF n = a THEN 0 ELSE f[n - 1] + samples[n - 1].size]
           sum == CHOOSE f : f = Body(f)
<1>1. BytesOf(a, b) = IF b < a THEN 0 ELSE sum[b]
  BY DEF BytesOf
<1>2. N \in Nat /\ (\A n \in 0 .. N - 1 : SizeIn(t, n) \in Nat)
      /\ (\A n \in 0 .. N : u[n] \in Nat)
      /\ \A n \in 0 .. N - 1 : u[n + 1] = u[n] + SizeIn(t, n)
  BY BytesRise
<1>3. \A n \in 0 .. N - 1 : samples[n].size = SizeIn(t, n)
  OBVIOUS
<1>4. a \in 0 .. N /\ b \in 0 .. N
  OBVIOUS
<1> HIDE DEF N, u
<1>5. ASSUME ~ b < a PROVE sum[b] = u[b] - u[a]
  <2> DEFINE g == [n \in a .. b |-> u[n] - u[a]]
  <2>1. ASSUME NEW n \in a .. b PROVE g[n] = Body(g)[n]
    <3>1. CASE n = a
      BY <1>2, <1>4, <3>1
    <3>2. CASE n # a
      <4>1. n - 1 \in a .. b /\ n - 1 \in 0 .. N - 1 /\ n - 1 + 1 = n
        BY <1>2, <1>4, <3>2
      <4>2. u[n] = u[n - 1] + SizeIn(t, n - 1)
        BY <1>2, <4>1
      <4>3. Body(g)[n] = u[n - 1] - u[a] + samples[n - 1].size
        BY <3>2, <4>1
      <4>4. samples[n - 1].size = SizeIn(t, n - 1) /\ SizeIn(t, n - 1) \in Nat
        BY <1>2, <1>3, <4>1
      <4>5. u[n - 1] \in Nat /\ u[a] \in Nat /\ g[n] = u[n] - u[a]
        BY <1>2, <1>4, <4>1
      <4> QED BY <4>2, <4>3, <4>4, <4>5
    <3> QED BY <3>1, <3>2
  <2>2. g = [n \in a .. b |-> g[n]] /\ Body(g) = [n \in a .. b |-> Body(g)[n]]
    OBVIOUS
  <2>3. g = Body(g)
    <3> HIDE DEF g, Body
    <3> QED BY <2>1, <2>2
  <2>4. sum = Body(sum)
    <3> HIDE DEF g, Body
    <3> QED BY <2>3
  <2> HIDE DEF sum, g
  <2> DEFINE S == {k \in 0 .. b - a : sum[a + k] = u[a + k] - u[a]}
  <2>5. 0 \in S
    <3>1. a \in a .. b /\ a + 0 = a /\ 0 \in 0 .. b - a
      BY <1>2, <1>4, <1>5
    <3>2. sum[a] = Body(sum)[a]
      BY <2>4
    <3>3. sum[a] = 0
      BY <3>1, <3>2
    <3>4. u[a] \in Nat
      BY <1>2, <1>4
    <3> QED BY <3>1, <3>3, <3>4
  <2>6. ASSUME NEW k \in 0 .. (b - a) - 1, k \in S PROVE k + 1 \in S
    <3> DEFINE n == a + k
    <3>1. n + 1 \in a .. b /\ n \in 0 .. N - 1 /\ n + 1 # a /\ n + 1 - 1 = n /\ a + (k + 1) = n + 1
          /\ k + 1 \in 0 .. b - a
      BY <1>2, <1>4, <1>5
    <3>2. sum[n] = u[n] - u[a]
      BY <2>6
    <3> HIDE DEF n, Body, S
    <3>3. sum[n + 1] = Body(sum)[n + 1]
      BY <2>4
    <3>4. sum[n + 1] = sum[n] + samples[n].size
      BY <3>1, <3>3 DEF Body
    <3>5. samples[n].size = SizeIn(t, n) /\ SizeIn(t, n) \in Nat /\ u[n + 1] = u[n] + SizeIn(t, n)
          /\ u[n] \in Nat /\ u[a] \in Nat
      BY <1>2, <1>3, <1>4, <3>1
    <3>6. sum[n + 1] = u[n + 1] - u[a]
      BY <3>2, <3>4, <3>5
    <3> QED BY <3>1, <3>6 DEF S
  <2>7. b - a \in 0 .. b - a /\ b - a \in Nat /\ a + (b - a) = b
    BY <1>2, <1>4, <1>5
  <2>8. b - a \in S
    <3> HIDE DEF S
    <3> QED BY <2>5, <2>6, <2>7, UpTo
  <2>9. sum[a + (b - a)] = u[a + (b - a)] - u[a]
    BY <2>8
  <2> QED BY <2>7, <2>9
<1> HIDE DEF sum
<1> QED BY <1>1, <1>5 DEF u

(* Times.                                                                  *)

\* The samples that the first entries of stts are for.
CountsOf(x) == [e \in 0 .. Len(x.stts) - 1 |-> x.stts[e + 1].count]
CountedTo(x) == CHOOSE f : SumsUp(f, CountsOf(x), Len(x.stts))

\* The same of the counts.
LEMMA CountedRises ==
  ASSUME NEW x \in Tables
  PROVE  /\ Len(x.stts) \in Nat /\ DOMAIN x.stts = 1 .. Len(x.stts)
         /\ \A e \in 1 .. Len(x.stts) : x.stts[e].count \in Nat /\ x.stts[e].duration \in Nat
         /\ CountedTo(x)[0] = 0
         /\ \A e \in 0 .. Len(x.stts) : CountedTo(x)[e] \in Nat
         /\ \A e \in 1 .. Len(x.stts) : CountedTo(x)[e] = CountedTo(x)[e - 1] + x.stts[e].count
         /\ \A d, e \in 0 .. Len(x.stts) : d <= e => CountedTo(x)[d] <= CountedTo(x)[e]
<1> DEFINE N == Len(x.stts)
           w == CountsOf(x)
           f == CountedTo(x)
<1>1. x.stts \in Seq([count : Nat, duration : Nat])
  BY TablesAssumption DEF Typed
<1>2. N \in Nat /\ DOMAIN x.stts = 1 .. N
      /\ \A e \in 1 .. N : x.stts[e] \in [count : Nat, duration : Nat]
  <2>1. \A S : \A q \in Seq(S) :
          Len(q) \in Nat /\ DOMAIN q = 1 .. Len(q) /\ \A e \in 1 .. Len(q) : q[e] \in S
    OBVIOUS
  <2> QED BY <1>1, <2>1
<1>3. \A e \in 1 .. N : x.stts[e].count \in Nat /\ x.stts[e].duration \in Nat
  BY <1>2
<1> HIDE DEF N
<1>4. \A e \in 0 .. N - 1 : w[e] = x.stts[e + 1].count /\ w[e] \in Nat
  <2> SUFFICES ASSUME NEW e \in 0 .. N - 1 PROVE w[e] = x.stts[e + 1].count /\ w[e] \in Nat
    OBVIOUS
  <2>1. e + 1 \in 1 .. N
    BY <1>2
  <2>2. w[e] = x.stts[e + 1].count
    BY DEF CountsOf, N
  <2> QED BY <1>3, <2>1, <2>2
<1> HIDE DEF w
<1>5. \E g : SumsUp(g, w, N)
  BY <1>2, <1>4, SumExists
<1>6. SumsUp(f, w, N)
  BY <1>5 DEF CountedTo, N, w
<1> HIDE DEF f
<1>7. \A d, e \in 0 .. N : d <= e => f[d] <= f[e]
  BY <1>2, <1>4, <1>6, SumRises
<1>8. f[0] = 0 /\ (\A n \in 0 .. N : f[n] \in Nat) /\ \A n \in 0 .. N - 1 : f[n + 1] = f[n] + w[n]
  BY <1>6 DEF SumsUp
<1>9. ASSUME NEW e \in 1 .. N PROVE f[e] = f[e - 1] + x.stts[e].count
  <2>1. e - 1 \in 0 .. N - 1 /\ e - 1 + 1 = e
    BY <1>2
  <2> QED BY <1>4, <1>8, <2>1
<1> QED BY <1>2, <1>3, <1>7, <1>8, <1>9 DEF N, f

\* One duration per sample.
DurationsOf(x) ==
  FlattenSeq([e \in DOMAIN x.stts |-> [n \in 1 .. x.stts[e].count |-> x.stts[e].duration]])

\* Each entry gives its duration to its samples.
LEMMA DurationsAre ==
  ASSUME NEW x \in Tables
  PROVE  /\ DurationsOf(x) \in Seq(Nat)
         /\ Len(DurationsOf(x)) = CountedTo(x)[Len(x.stts)]
         /\ \A e \in 1 .. Len(x.stts) : \A n \in 1 .. x.stts[e].count :
              DurationsOf(x)[CountedTo(x)[e - 1] + n] = x.stts[e].duration
<1> DEFINE N == Len(x.stts)
           C == CountedTo(x)
           count(e) == x.stts[e].count
           duration(e) == x.stts[e].duration
           Part(e) == [n \in 1 .. count(e) |-> duration(e)]
           seqs == [e \in DOMAIN x.stts |-> [n \in 1 .. x.stts[e].count |-> x.stts[e].duration]]
           Step(f, e) == IF e = 1 THEN seqs[e] ELSE f[e - 1] \o seqs[e]
           flatten == CHOOSE f : f = [e \in 1 .. Len(seqs) |-> Step(f, e)]
<1>1. N \in Nat /\ DOMAIN x.stts = 1 .. N
      /\ (\A e \in 1 .. N : count(e) \in Nat /\ duration(e) \in Nat)
      /\ C[0] = 0 /\ (\A e \in 0 .. N : C[e] \in Nat)
      /\ (\A e \in 1 .. N : C[e] = C[e - 1] + count(e))
  BY CountedRises
<1>2. DurationsOf(x) = IF Len(seqs) = 0 THEN seqs ELSE flatten[Len(seqs)]
  BY DEF DurationsOf, FlattenSeq
<1>3. \A e \in 1 .. N : seqs[e] = Part(e)
  BY <1>1
<1> HIDE DEF count, duration, C
<1>4. ASSUME NEW e \in 1 .. N
      PROVE  Part(e) \in Seq(Nat) /\ Len(Part(e)) = count(e)
             /\ \A n \in 1 .. count(e) : Part(e)[n] = duration(e)
  <2>1. count(e) \in Nat /\ duration(e) \in Nat
    BY <1>1
  <2> QED BY <2>1
<1>5. seqs \in Seq(Seq(Nat)) /\ Len(seqs) = N
  <2>1. seqs = [e \in 1 .. N |-> seqs[e]]
    BY <1>1
  <2>2. \A e \in 1 .. N : seqs[e] \in Seq(Nat)
    BY <1>3, <1>4
  <2> HIDE DEF seqs
  <2> QED BY <1>1, <2>1, <2>2
<1> HIDE DEF seqs, Part, N
<1>6. CASE N = 0
  <2>1. DurationsOf(x) = <<>>
    BY <1>2, <1>5, <1>6
  <2> QED BY <1>1, <1>6, <2>1 DEF N, C, count, duration
<1>7. CASE N # 0
  <2> DEFINE Defined == {n \in 0 .. N : \E f : f = [e \in 1 .. n |-> Step(f, e)]}
  <2>1. 0 \in Defined
    <3> DEFINE g == [e \in 1 .. 0 |-> 0]
    <3> HIDE DEF Step
    <3>1. g = [e \in 1 .. 0 |-> Step(g, e)]
      OBVIOUS
    <3>2. 0 \in 0 .. N
      BY <1>1
    <3> HIDE DEF g
    <3> QED BY <3>1, <3>2
  <2>2. ASSUME NEW n \in 0 .. N - 1, n \in Defined PROVE n + 1 \in Defined
    <3>1. PICK f : f = [e \in 1 .. n |-> Step(f, e)]
      BY <2>2
    <3> DEFINE g == [e \in 1 .. n + 1 |-> IF e = n + 1 THEN Step(f, n + 1) ELSE f[e]]
    <3>2. ASSUME NEW e \in 1 .. n + 1 PROVE g[e] = Step(g, e)
      <4>1. e # 1 => e - 1 \in 1 .. n /\ g[e - 1] = f[e - 1]
        OBVIOUS
      <4>2. Step(g, e) = Step(f, e)
        <5> HIDE DEF g
        <5> QED BY <4>1
      <4>3. CASE e = n + 1
        <5>1. g[e] = Step(f, n + 1)
          BY <4>3
        <5> QED BY <4>2, <4>3, <5>1
      <4>4. CASE e # n + 1
        <5>1. e \in 1 .. n /\ g[e] = f[e]
          BY <4>4
        <5> HIDE DEF g
        <5>2. f[e] = Step(f, e)
          BY <3>1, <5>1
        <5> QED BY <4>2, <5>1, <5>2
      <4> QED BY <4>3, <4>4
    <3>3. g = [e \in 1 .. n + 1 |-> g[e]]
      OBVIOUS
    <3> HIDE DEF g, Step
    <3>4. g = [e \in 1 .. n + 1 |-> Step(g, e)]
      BY <3>2, <3>3
    <3> QED BY <1>1, <3>4
  <2>3. N \in Defined
    <3>1. 0 .. N \subseteq Defined
      <4> HIDE DEF Defined
      <4> QED BY <1>1, <2>1, <2>2, UpTo
    <3>2. N \in 0 .. N
      BY <1>1
    <3> HIDE DEF Defined
    <3> QED BY <3>1, <3>2
  <2>4. flatten = [e \in 1 .. N |-> Step(flatten, e)]
    <3> HIDE DEF Step
    <3> QED BY <1>5, <2>3
  <2> HIDE DEF flatten
  <2> DEFINE Right(q, k) ==
               /\ q \in Seq(Nat) /\ Len(q) = C[k]
               /\ \A e \in 1 .. k : \A n \in 1 .. count(e) : q[C[e - 1] + n] = duration(e)
             S == {k \in 0 .. N : k # 0 => Right(flatten[k], k)}
  <2>5. 0 \in S
    BY <1>1
  <2>6. ASSUME NEW k \in 0 .. N - 1, k \in S PROVE k + 1 \in S
    <3>0. k + 1 \in 1 .. N
      BY <1>1
    <3>1. Part(k + 1) \in Seq(Nat) /\ Len(Part(k + 1)) = count(k + 1)
          /\ \A n \in 1 .. count(k + 1) : Part(k + 1)[n] = duration(k + 1)
      BY <1>4, <3>0
    <3>2. flatten[k + 1] = IF k = 0 THEN Part(k + 1) ELSE flatten[k] \o Part(k + 1)
      <4>1. flatten[k + 1] = Step(flatten, k + 1)
        BY <2>4, <3>0
      <4>2. k + 1 - 1 = k /\ (k + 1 = 1 <=> k = 0)
        BY <1>1
      <4>3. seqs[k + 1] = Part(k + 1)
        BY <1>3, <3>0
      <4> QED BY <4>1, <4>2, <4>3
    <3>3. C[k] \in Nat /\ C[k + 1] = C[k] + count(k + 1) /\ count(k + 1) \in Nat
      BY <1>1, <3>0
    <3>4. CASE k = 0
      <4>1. flatten[1] = Part(1) /\ C[1] = count(1) /\ C[0] = 0
        BY <1>1, <3>2, <3>3, <3>4
      <4>2. \A n \in 1 .. count(1) : C[1 - 1] + n = n
        BY <3>3, <3>4, <4>1
      <4>3. Right(flatten[1], 1)
        BY <3>1, <3>4, <4>1, <4>2
      <4> QED BY <3>0, <3>4, <4>3
    <3>5. CASE k # 0
      <4> DEFINE q == flatten[k]
                 r == Part(k + 1)
      <4>1. q \in Seq(Nat) /\ Len(q) = C[k]
            /\ \A e \in 1 .. k : \A n \in 1 .. count(e) : q[C[e - 1] + n] = duration(e)
        BY <2>6, <3>5
      <4>2. r \in Seq(Nat) /\ Len(r) = count(k + 1) /\ \A n \in 1 .. count(k + 1) : r[n] = duration(k + 1)
        BY <3>1
      <4>3. flatten[k + 1] = q \o r
        BY <3>2, <3>5
      <4> HIDE DEF q, r
      <4>4. q \o r \in Seq(Nat) /\ Len(q \o r) = C[k + 1]
            /\ (\A n \in 1 .. Len(q) : (q \o r)[n] = q[n])
            /\ \A n \in 1 .. Len(r) : (q \o r)[Len(q) + n] = r[n]
        <5>1. q \o r \in Seq(Nat) /\ Len(q \o r) = Len(q) + Len(r)
              /\ (\A n \in 1 .. Len(q) : (q \o r)[n] = q[n])
              /\ \A n \in 1 .. Len(r) : (q \o r)[Len(q) + n] = r[n]
          <6>1. q \in Seq(Nat) /\ r \in Seq(Nat)
            BY <4>1, <4>2
          <6> QED BY <6>1
        <5>2. Len(q) + Len(r) = C[k + 1]
          BY <3>3, <4>1, <4>2
        <5> QED BY <5>1, <5>2
      <4>5. ASSUME NEW e \in 1 .. k + 1, NEW n \in 1 .. count(e)
            PROVE  (q \o r)[C[e - 1] + n] = duration(e)
        <5>1. CASE e = k + 1
          <6>1. C[e - 1] = Len(q) /\ n \in 1 .. Len(r)
            BY <4>1, <4>2, <5>1
          <6>2. r[n] = duration(e)
            BY <4>2, <5>1
          <6> QED BY <4>4, <6>1, <6>2
        <5>2. CASE e # k + 1
          <6>1. e \in 1 .. k /\ e \in 1 .. N
            <7>1. k \in Nat /\ k + 1 <= N
              BY <1>1
            <7> QED BY <1>1, <5>2, <7>1
          <6>2. C[e] = C[e - 1] + count(e) /\ C[e] <= C[k] /\ C[e - 1] \in Nat /\ C[e] \in Nat
            <7>1. e \in 0 .. N /\ k \in 0 .. N /\ e <= k /\ e - 1 \in 0 .. N
              BY <1>1, <3>0, <6>1
            <7>2. C[e] <= C[k]
              <8>1. \A d, f \in 0 .. Len(x.stts) : d <= f => CountedTo(x)[d] <= CountedTo(x)[f]
                BY <1>1, CountedRises
              <8> QED BY <7>1, <8>1 DEF C, N
            <7>3. C[e] = C[e - 1] + count(e)
              BY <1>1, <6>1
            <7>4. C[e - 1] \in Nat /\ C[e] \in Nat
              BY <1>1, <7>1
            <7> QED BY <7>2, <7>3, <7>4
          <6>3. C[e - 1] + n \in 1 .. Len(q)
            <7>1. count(e) \in Nat
              BY <1>1, <6>1
            <7>2. Len(q) = C[k] /\ C[k] \in Nat
              BY <3>3, <4>1
            <7>3. n \in 1 .. count(e)
              OBVIOUS
            <7> HIDE DEF C, count
            <7> QED BY <6>2, <7>1, <7>2, <7>3
          <6>4. (q \o r)[C[e - 1] + n] = q[C[e - 1] + n]
            BY <4>4, <6>3
          <6> QED BY <4>1, <6>1, <6>4
        <5> QED BY <5>1, <5>2
      <4>6. Right(flatten[k + 1], k + 1)
        BY <4>3, <4>4, <4>5
      <4> QED BY <3>0, <4>6
    <3> QED BY <3>4, <3>5
  <2>7. N \in S
    <3>1. 0 .. N \subseteq S
      <4> HIDE DEF S
      <4> QED BY <1>1, <2>5, <2>6, UpTo
    <3> QED BY <1>1, <3>1
  <2>8. Right(flatten[N], N)
    BY <1>7, <2>7
  <2>9. DurationsOf(x) = flatten[N]
    BY <1>2, <1>5, <1>7
  <2>10. Right(DurationsOf(x), N)
    BY <2>8, <2>9
  <2> HIDE DEF S, Defined
  <2> QED BY <2>10 DEF N, C, count, duration
<1> QED BY <1>6, <1>7

\* The decoding times are the sums of the durations.
LEMMA PtsAre ==
  ASSUME NEW delta \in Seq(Nat)
  PROVE  /\ Pts(delta)[0] = 0
         /\ \A n \in 0 .. Len(delta) : Pts(delta)[n] \in Nat
         /\ \A n \in 0 .. Len(delta) - 1 : Pts(delta)[n + 1] = Pts(delta)[n] + delta[n + 1]
<1> DEFINE N == Len(delta)
           w == [n \in 0 .. N - 1 |-> delta[n + 1]]
           Body(f) == [n \in 0 .. N |-> IF n = 0 THEN 0 ELSE f[n - 1] + delta[n]]
           time == CHOOSE f : f = Body(f)
<1>1. N \in Nat /\ \A n \in 1 .. N : delta[n] \in Nat
  OBVIOUS
<1>2. Pts(delta) = time
  BY DEF Pts
<1> HIDE DEF N
<1>3. \A n \in 0 .. N - 1 : w[n] \in Nat /\ w[n] = delta[n + 1]
  BY <1>1
<1> HIDE DEF w
<1>4. PICK g : SumsUp(g, w, N)
  BY <1>1, <1>3, SumExists
<1>5. g = Body(g)
  <2>1. g \in [0 .. N -> Nat] /\ g[0] = 0 /\ \A n \in 0 .. N - 1 : g[n + 1] = g[n] + w[n]
    BY <1>4 DEF SumsUp
  <2>2. ASSUME NEW n \in 1 .. N PROVE g[n] = g[n - 1] + delta[n]
    <3>1. n - 1 \in 0 .. N - 1 /\ n - 1 + 1 = n
      BY <1>1
    <3> QED BY <1>3, <2>1, <3>1
  <2>3. \A n \in 0 .. N : Body(g)[n] = g[n]
    BY <1>1, <2>1, <2>2
  <2>4. Body(g) = [n \in 0 .. N |-> Body(g)[n]] /\ g = [n \in 0 .. N |-> g[n]]
    BY <2>1
  <2> HIDE DEF Body
  <2> QED BY <2>3, <2>4
<1>6. time = Body(time)
  <2> HIDE DEF Body
  <2> QED BY <1>5
<1> HIDE DEF time
<1>7. time[0] = 0
  BY <1>1, <1>6
<1>8. ASSUME NEW n \in 0 .. N - 1 PROVE time[n + 1] = time[n] + delta[n + 1]
  <2>1. n + 1 \in 0 .. N /\ n + 1 # 0 /\ n + 1 - 1 = n
    BY <1>1
  <2>2. time[n + 1] = Body(time)[n + 1]
    BY <1>6
  <2> QED BY <2>1, <2>2
<1>9. \A n \in 0 .. N : time[n] \in Nat
  <2> DEFINE S == {n \in 0 .. N : time[n] \in Nat}
  <2>1. 0 \in S
    BY <1>1, <1>7
  <2>2. ASSUME NEW n \in 0 .. N - 1, n \in S PROVE n + 1 \in S
    <3>1. n + 1 \in 1 .. N /\ n + 1 \in 0 .. N /\ time[n] \in Nat
      BY <1>1, <2>2
    <3>2. delta[n + 1] \in Nat /\ time[n + 1] = time[n] + delta[n + 1]
      BY <1>1, <1>8, <3>1
    <3> QED BY <3>1, <3>2
  <2>3. 0 .. N \subseteq S
    <3> HIDE DEF S
    <3> QED BY <1>1, <2>1, <2>2, UpTo
  <2> QED BY <2>3
<1> QED BY <1>2, <1>7, <1>8, <1>9 DEF N

\* Within an entry they go on by its duration.
LEMMA PtsWithin ==
  ASSUME NEW x \in Tables, NEW e \in 1 .. Len(x.stts), NEW n \in 0 .. x.stts[e].count
  PROVE  Pts(DurationsOf(x))[CountedTo(x)[e - 1] + n]
           = Pts(DurationsOf(x))[CountedTo(x)[e - 1]] + n * x.stts[e].duration
<1> DEFINE D == DurationsOf(x)
           P == Pts(D)
           N == x.stts[e].count
           a == CountedTo(x)[e - 1]
           dur == x.stts[e].duration
<1>1. N \in Nat /\ dur \in Nat /\ a \in Nat /\ a + N <= Len(D) /\ Len(D) \in Nat
  <2>1. e - 1 \in 0 .. Len(x.stts) /\ e \in 0 .. Len(x.stts) /\ Len(x.stts) \in 0 .. Len(x.stts)
        /\ e <= Len(x.stts)
    BY CountedRises
  <2>2. CountedTo(x)[e] <= CountedTo(x)[Len(x.stts)]
    BY <2>1, CountedRises
  <2> QED BY <2>1, <2>2, CountedRises, DurationsAre
<1>2. \A m \in 1 .. N : D[a + m] = dur
  BY DurationsAre
<1>3. D \in Seq(Nat)
  BY DurationsAre
<1> HIDE DEF D
<1>4. (\A m \in 0 .. Len(D) : P[m] \in Nat) /\ \A m \in 0 .. Len(D) - 1 : P[m + 1] = P[m] + D[m + 1]
  BY <1>3, PtsAre
<1> HIDE DEF N, a, dur, P
<1> DEFINE S == {m \in 0 .. N : P[a + m] = P[a] + m * dur}
<1>5. 0 \in S
  <2>1. a + 0 = a /\ 0 * dur = 0 /\ P[a] \in Nat
    BY <1>1, <1>4
  <2> QED BY <1>1, <2>1
<1>6. ASSUME NEW m \in 0 .. N - 1, m \in S PROVE m + 1 \in S
  <2>1. a + m \in 0 .. Len(D) - 1 /\ a + (m + 1) = a + m + 1 /\ m + 1 \in 1 .. N
    BY <1>1
  <2>2. P[a + m + 1] = P[a + m] + D[a + (m + 1)]
    BY <1>4, <2>1
  <2>3. D[a + (m + 1)] = dur
    BY <1>2, <2>1
  <2>4. (m + 1) * dur = m * dur + dur
    BY <1>1
  <2>5. P[a + m] = P[a] + m * dur
    BY <1>6
  <2>6. P[a] \in Nat /\ m * dur \in Int
    BY <1>1, <1>4
  <2>7. P[a + (m + 1)] = P[a] + (m + 1) * dur
    BY <1>1, <2>1, <2>2, <2>3, <2>4, <2>5, <2>6
  <2> QED BY <1>1, <2>1, <2>7
<1>7. 0 .. N \subseteq S
  <2> HIDE DEF S
  <2> QED BY <1>1, <1>5, <1>6, UpTo
<1>8. n \in S
  BY <1>7 DEF N
<1> QED BY <1>8 DEF P, D, a, dur

Sample == [pts : Nat, cto : Nat, pos : Nat, is_smooth_ss : BOOLEAN, size : Nat]

\* The chunks have their places; those the map has been read for have their sizes,
\* and those that are numbered their first samples.
ChunksMapped ==
  /\ chunks \in [Chunks -> [pos : Nat, size : Nat, sample : Nat]]
  /\ \A c \in Chunks : chunks[c].pos = t.stco[c + 1]
  /\ pc = "map" =>
       /\ row \in 0 .. Len(t.stsc)
       /\ bound = IF row = Len(t.stsc) THEN Len(t.stco) ELSE t.stsc[row + 1].chunk
  /\ \A c \in Chunks : pc # "map" \/ bound <= c => chunks[c].size = InChunkOf(t, c)

ChunksNumbered ==
  /\ pc = "number" => j \in 0 .. Len(t.stco) /\ s = Firsts(t)[j]
  /\ pc # "map" => \A c \in Chunks :
       pc # "number" \/ c < j => chunks[c].sample = Firsts(t)[c]

\* The samples have their sizes.
SamplesSized ==
  pc \notin {"map", "number"} =>
    /\ size = CountOf(t)
    /\ samples \in [0 .. size -> Sample]
    /\ \A n \in 0 .. size - 1 : samples[n].size = SizeIn(t, n)

\* Those that stts has been read for have their times.
SamplesTimed ==
  /\ pc = "times" =>
       /\ j \in 1 .. Len(t.stts) + 1
       /\ s = CountedTo(t)[j - 1] /\ pts = Pts(DurationsOf(t))[s]
       /\ \A n \in 0 .. size : n < s => samples[n].pts = Pts(DurationsOf(t))[n]
  /\ pc \in {"offsets", "places", "sync", "done"} =>
       \A n \in 0 .. size : n <= Len(DurationsOf(t)) => samples[n].pts = Pts(DurationsOf(t))[n]

\* The samples in the first k chunks have their places.
Placed(k) ==
  \A c \in Chunks : c < k =>
    \A n \in 0 .. size - 1 : Firsts(t)[c] <= n /\ n < Firsts(t)[c + 1] =>
      samples[n].pos = t.stco[c + 1] + (BytesUpTo(t)[n] - BytesUpTo(t)[Firsts(t)[c]])

\* How many samples the first k chunks have, when there are so many.
UpToChunk(k) == IF Firsts(t)[k] <= size THEN Firsts(t)[k] ELSE size

SamplesPlaced ==
  /\ pc = "offsets" => j \in Nat \ {0} /\ s \in 0 .. size /\ cto \in Nat
  /\ pc = "places" => j \in 0 .. Len(t.stco) /\ s = UpToChunk(j) /\ Placed(j)
  /\ pc \in {"sync", "done"} =>
       LET end  == UpToChunk(Len(t.stco))
           from == Firsts(t)[Len(t.stco) - 1]
       IN  /\ Placed(Len(t.stco))
           /\ samples[end].pos = t.stco[Len(t.stco)]
                + IF end < from THEN 0 ELSE BytesUpTo(t)[end] - BytesUpTo(t)[from]

\* The markers come last.
SamplesMarked ==
  pc \notin {"map", "number"} =>
    \A n \in 0 .. size :
      samples[n].is_smooth_ss <=> pc = "done" /\ (n = size \/ n + 1 \in t.stss)

IndexInv ==
  /\ t \in Tables
  /\ pc \in {"map", "number", "times", "offsets", "places", "sync", "done"}
  /\ ChunksMapped /\ ChunksNumbered /\ SamplesSized /\ SamplesTimed /\ SamplesPlaced
  /\ SamplesMarked

\* At first the invariant holds.
LEMMA InitIndexInv == IndexInit => IndexInv
<1> SUFFICES ASSUME IndexInit PROVE IndexInv
  OBVIOUS
<1> USE DEF IndexInit
<1>1. t \in Tables /\ pc = "map" /\ row = Len(t.stsc) /\ bound = Len(t.stco)
  OBVIOUS
<1>2. Len(t.stco) \in Nat /\ Len(t.stsc) \in Nat \ {0}
      /\ \A c \in 1 .. Len(t.stco) : t.stco[c] \in Nat
  BY <1>1, ChunksRise
<1>3. \A c \in Chunks : c \in Nat /\ c < Len(t.stco) /\ c + 1 \in 1 .. Len(t.stco)
  BY <1>2 DEF Chunks
<1>4. ChunksMapped
  <2>1. chunks = [c \in Chunks |-> [pos |-> t.stco[c + 1], size |-> 0, sample |-> 0]]
    OBVIOUS
  <2>2. \A c \in Chunks : t.stco[c + 1] \in Nat
    BY <1>2, <1>3
  <2>3. chunks \in [Chunks -> [pos : Nat, size : Nat, sample : Nat]]
        /\ \A c \in Chunks : chunks[c].pos = t.stco[c + 1]
    BY <2>1, <2>2
  <2>4. \A c \in Chunks : ~ bound <= c
    BY <1>1, <1>2, <1>3
  <2> QED BY <1>1, <1>2, <2>3, <2>4 DEF ChunksMapped
<1>5. ChunksNumbered /\ SamplesSized /\ SamplesTimed /\ SamplesPlaced /\ SamplesMarked
  BY <1>1 DEF ChunksNumbered, SamplesSized, SamplesTimed, SamplesPlaced, SamplesMarked
<1> QED BY <1>1, <1>4, <1>5 DEF IndexInv

\* What is known of the tables while they are read.
LEMMA TablesKnown ==
  ASSUME IndexInv
  PROVE  /\ t \in Tables
         /\ Len(t.stsc) \in Nat \ {0} /\ Len(t.stco) \in Nat \ {0}
         /\ \A e \in 1 .. Len(t.stsc) : t.stsc[e].chunk \in Nat /\ t.stsc[e].samples \in Nat
         /\ t.stsc[1].chunk = 0
         /\ Chunks = 0 .. Len(t.stco) - 1
         /\ DOMAIN chunks = Chunks
         /\ \A c \in Chunks : /\ chunks[c] \in [pos : Nat, size : Nat, sample : Nat]
                              /\ chunks[c].pos = t.stco[c + 1]
<1>1. t \in Tables
  BY DEF IndexInv
<1>2. ChunksMapped
  BY DEF IndexInv
<1>3. chunks \in [Chunks -> [pos : Nat, size : Nat, sample : Nat]]
      /\ \A c \in Chunks : chunks[c].pos = t.stco[c + 1]
  BY <1>2 DEF ChunksMapped
<1>4. DOMAIN chunks = Chunks
      /\ \A c \in Chunks : chunks[c] \in [pos : Nat, size : Nat, sample : Nat]
  BY <1>3
<1>5. Len(t.stsc) \in Nat \ {0} /\ Len(t.stco) \in Nat \ {0} /\ t.stsc[1].chunk = 0
      /\ \A e \in 1 .. Len(t.stsc) : t.stsc[e].chunk \in Nat /\ t.stsc[e].samples \in Nat
  <2>1. Len(t.stco) \in Nat
    BY <1>1, ChunksRise
  <2>2. \A m : m \in 0 .. Len(t.stco) - 1 => m \in Nat
    BY <2>1
  <2> QED BY <1>1, <2>2, ChunksRise
<1>6. Chunks = 0 .. Len(t.stco) - 1
  BY DEF Chunks
<1> QED BY <1>1, <1>3, <1>4, <1>5, <1>6

\* Each step keeps it.  An entry is good for the chunks up to the one behind it.
LEMMA MapChunksKeeps ==
  ASSUME IndexInv, MapChunks
  PROVE  IndexInv'
<1>1. pc = "map" /\ pc' = "map" /\ row > 0 /\ row' = row - 1 /\ bound' = t.stsc[row].chunk
      /\ t' = t
  BY DEF MapChunks
<1>2. row \in 0 .. Len(t.stsc)
      /\ bound = (IF row = Len(t.stsc) THEN Len(t.stco) ELSE t.stsc[row + 1].chunk)
      /\ \A c \in Chunks : bound <= c => chunks[c].size = InChunkOf(t, c)
  BY <1>1 DEF IndexInv, ChunksMapped
<1>3. Len(t.stsc) \in Nat /\ row \in 1 .. Len(t.stsc) /\ row' \in 0 .. Len(t.stsc)
      /\ row' # Len(t.stsc) /\ row' + 1 = row
  BY <1>1, <1>2, TablesKnown
<1>4. Chunks' = Chunks
  BY <1>1 DEF Chunks
<1>5. chunks' = [c \in Chunks |->
                  IF t.stsc[row].chunk <= c /\ c < bound
                  THEN [chunks[c] EXCEPT !.size = t.stsc[row].samples] ELSE chunks[c]]
  BY DEF MapChunks
<1>6. t.stsc[row].samples \in Nat /\ t.stsc[row].chunk \in Nat
  BY <1>3, TablesKnown
<1>7. \A c \in Chunks : /\ chunks[c] \in [pos : Nat, size : Nat, sample : Nat]
                        /\ chunks[c].pos = t.stco[c + 1]
  BY TablesKnown
<1>8. \A c \in Chunks : /\ chunks'[c] \in [pos : Nat, size : Nat, sample : Nat]
                        /\ chunks'[c].pos = t.stco[c + 1]
  BY <1>5, <1>6, <1>7
<1>9. ASSUME NEW c \in Chunks, bound' <= c PROVE chunks'[c].size = InChunkOf(t, c)
  <2>1. c \in Nat /\ bound \in Nat
    <3>1. c \in Nat
      BY TablesKnown
    <3>2. row # Len(t.stsc) => row + 1 \in 1 .. Len(t.stsc)
      BY <1>3
    <3>3. row # Len(t.stsc) => t.stsc[row + 1].chunk \in Nat
      BY <3>2, TablesKnown
    <3> QED BY <1>2, <3>1, <3>3, TablesKnown
  <2>2. CASE c < bound
    <3>1. t.stsc[row].chunk <= c /\ (row < Len(t.stsc) => c < t.stsc[row + 1].chunk)
      BY <1>1, <1>2, <1>9, <2>2
    <3>2. EntryFor(t, c) = row
      BY <1>3, <2>1, <3>1, TablesKnown, EntryForIs
    <3>3. chunks'[c].size = t.stsc[row].samples
      BY <1>5, <1>7, <2>2, <3>1
    <3> QED BY <3>2, <3>3 DEF InChunkOf
  <2>3. CASE ~ c < bound
    <3>1. chunks'[c] = chunks[c]
      BY <1>5, <2>3
    <3>2. bound <= c
      BY <2>1, <2>3
    <3> QED BY <1>2, <3>1, <3>2
  <2> QED BY <2>2, <2>3
<1>10. ChunksMapped'
  <2>1. chunks' \in [Chunks -> [pos : Nat, size : Nat, sample : Nat]]
    BY <1>5, <1>8
  <2> QED BY <1>1, <1>3, <1>4, <1>8, <1>9, <2>1 DEF ChunksMapped
<1>11. (ChunksNumbered /\ SamplesSized /\ SamplesTimed /\ SamplesPlaced /\ SamplesMarked)'
  BY <1>1 DEF ChunksNumbered, SamplesSized, SamplesTimed, SamplesPlaced, SamplesMarked
<1> QED BY <1>1, <1>10, <1>11, TablesKnown DEF IndexInv

\* After the first entry all chunks have their sizes.
LEMMA MappedKeeps ==
  ASSUME IndexInv, Mapped
  PROVE  IndexInv'
<1>1. pc = "map" /\ pc' = "number" /\ row = 0 /\ j' = 0 /\ s' = 0 /\ t' = t /\ chunks' = chunks
  BY DEF Mapped
<1>2. Chunks' = Chunks
  BY <1>1 DEF Chunks
<1>3. \A c \in Chunks : c \in Nat
  BY TablesKnown
<1>4. bound = 0
  <2>1. row # Len(t.stsc) /\ row + 1 = 1
    BY <1>1, TablesKnown
  <2>2. bound = t.stsc[row + 1].chunk
    BY <1>1, <2>1 DEF IndexInv, ChunksMapped
  <2> QED BY <2>1, <2>2, TablesKnown
<1>5. \A c \in Chunks : chunks[c].size = InChunkOf(t, c)
  BY <1>3, <1>4 DEF IndexInv, ChunksMapped
<1>6. ChunksMapped'
  BY <1>1, <1>2, <1>5 DEF IndexInv, ChunksMapped
<1>7. ChunksNumbered'
  <2>1. Firsts(t)[0] = 0 /\ 0 \in 0 .. Len(t.stco) /\ \A c \in Chunks : ~ c < 0
    BY <1>3, TablesKnown, FirstsRise
  <2> QED BY <1>1, <1>2, <2>1 DEF ChunksNumbered
<1>8. (SamplesSized /\ SamplesTimed /\ SamplesPlaced /\ SamplesMarked)'
  BY <1>1 DEF SamplesSized, SamplesTimed, SamplesPlaced, SamplesMarked
<1> QED BY <1>1, <1>6, <1>7, <1>8, TablesKnown DEF IndexInv

\* A chunk begins where those before it have their samples.
LEMMA NumberChunkKeeps ==
  ASSUME IndexInv, NumberChunk
  PROVE  IndexInv'
<1>1. pc = "number" /\ pc' = "number" /\ j \in Chunks /\ s' = s + chunks[j].size /\ j' = j + 1
      /\ t' = t /\ chunks' = [chunks EXCEPT ![j].sample = s]
  BY DEF NumberChunk
<1>2. Chunks' = Chunks
  BY <1>1 DEF Chunks
<1>3. /\ s = Firsts(t)[j] /\ chunks[j].size = InChunkOf(t, j)
      /\ \A c \in Chunks : chunks[c].size = InChunkOf(t, c)
      /\ \A c \in Chunks : c < j => chunks[c].sample = Firsts(t)[c]
  BY <1>1 DEF IndexInv, ChunksMapped, ChunksNumbered
<1>4. j \in 0 .. Len(t.stco) - 1 /\ j + 1 \in 0 .. Len(t.stco) /\ j \in 0 .. Len(t.stco)
      /\ \A c \in Chunks : c \in Int
  BY <1>1, TablesKnown
<1>5. Firsts(t)[j + 1] = s + chunks[j].size /\ s \in Nat
  BY <1>3, <1>4, TablesKnown, FirstsRise
<1>6. \A c \in Chunks : chunks[c] \in [pos : Nat, size : Nat, sample : Nat]
                        /\ chunks[c].pos = t.stco[c + 1]
  BY TablesKnown
<1>7. \A c \in Chunks : chunks'[c] = IF c = j THEN [chunks[c] EXCEPT !.sample = s] ELSE chunks[c]
  BY <1>1, TablesKnown
<1>8. DOMAIN chunks' = Chunks /\ chunks' = [c \in Chunks |-> chunks'[c]]
  BY <1>1, TablesKnown
<1>9. \A c \in Chunks : /\ chunks'[c] \in [pos : Nat, size : Nat, sample : Nat]
                        /\ chunks'[c].pos = chunks[c].pos /\ chunks'[c].size = chunks[c].size
                        /\ chunks'[c].sample = IF c = j THEN s ELSE chunks[c].sample
  BY <1>5, <1>6, <1>7
<1>10. chunks' \in [Chunks -> [pos : Nat, size : Nat, sample : Nat]]
  BY <1>8, <1>9
<1>11. pc = "number" /\ pc' = "number" /\ j' = j + 1 /\ t' = t /\ s' = Firsts(t)[j + 1]
  BY <1>1, <1>5
<1>12. ChunksMapped'
  BY <1>2, <1>3, <1>6, <1>9, <1>10, <1>11 DEF ChunksMapped
<1>13. ChunksNumbered'
  <2>1. ASSUME NEW c \in Chunks, c < j + 1 PROVE chunks'[c].sample = Firsts(t)[c]
    <3>1. CASE c = j
      BY <1>3, <1>9, <3>1
    <3>2. CASE c # j
      <4>1. c < j
        BY <1>4, <2>1, <3>2
      <4> QED BY <1>3, <1>9, <3>2, <4>1
    <3> QED BY <3>1, <3>2
  <2> QED BY <1>2, <1>4, <1>11, <2>1 DEF ChunksNumbered
<1>14. (SamplesSized /\ SamplesTimed /\ SamplesPlaced /\ SamplesMarked)'
  BY <1>11 DEF SamplesSized, SamplesTimed, SamplesPlaced, SamplesMarked
<1> QED BY <1>11, <1>12, <1>13, <1>14, TablesKnown DEF IndexInv

\* There are as many samples as the tables say.
LEMMA SizesKeeps ==
  ASSUME IndexInv, Sizes
  PROVE  IndexInv'
<1>1. pc = "number" /\ pc' = "times" /\ j \notin Chunks /\ t' = t /\ chunks' = chunks
      /\ j' = 1 /\ s' = 0 /\ pts' = 0
      /\ size' = (IF t.stsz.sample_size = 0 THEN Len(t.stsz.sizes) ELSE s)
  BY DEF Sizes
<1>2. samples' = [n \in 0 .. size' |->
       [pts |-> 0, cto |-> 0, pos |-> 0, is_smooth_ss |-> FALSE,
        size |-> IF n = size' THEN 0
                 ELSE IF t.stsz.sample_size = 0 THEN t.stsz.sizes[n + 1]
                 ELSE t.stsz.sample_size]]
  BY DEF Sizes
<1>3. Chunks' = Chunks
  BY <1>1 DEF Chunks
<1>4. /\ j \in 0 .. Len(t.stco) /\ s = Firsts(t)[j]
      /\ \A c \in Chunks : chunks[c].size = InChunkOf(t, c)
      /\ \A c \in Chunks : c < j => chunks[c].sample = Firsts(t)[c]
  BY <1>1 DEF IndexInv, ChunksMapped, ChunksNumbered
<1>5. j = Len(t.stco) /\ \A c \in Chunks : c < j
  BY <1>1, <1>4, TablesKnown
<1>6. size' = CountOf(t) /\ size' \in Nat /\ \A n \in 0 .. size' - 1 : SizeIn(t, n) \in Nat
  BY <1>1, <1>4, <1>5, TablesKnown, BytesRise DEF CountOf
<1>7. ASSUME NEW n \in 0 .. size'
      PROVE  samples'[n] = [pts |-> 0, cto |-> 0, pos |-> 0, is_smooth_ss |-> FALSE,
                            size |-> IF n = size' THEN 0 ELSE SizeIn(t, n)]
  BY <1>2 DEF SizeIn
<1>8. ASSUME NEW n \in 0 .. size'
      PROVE  samples'[n] \in Sample /\ samples'[n].is_smooth_ss = FALSE
  <2>1. n # size' => n \in 0 .. size' - 1
    BY <1>6
  <2>2. n # size' => SizeIn(t, n) \in Nat
    BY <1>6, <2>1
  <2> DEFINE sz == IF n = size' THEN 0 ELSE SizeIn(t, n)
  <2>3. sz \in Nat
    BY <2>2
  <2>4. samples'[n] = [pts |-> 0, cto |-> 0, pos |-> 0, is_smooth_ss |-> FALSE, size |-> sz]
    BY <1>7
  <2> HIDE DEF sz
  <2>5. samples'[n] \in Sample
    BY <2>3, <2>4 DEF Sample
  <2>6. samples'[n].is_smooth_ss = FALSE
    BY <2>4
  <2> QED BY <2>5, <2>6
<1>9. samples' = [n \in 0 .. size' |-> samples'[n]]
  BY <1>2
<1>10. samples' \in [0 .. size' -> Sample]
  BY <1>8, <1>9
<1>11. \A n \in 0 .. size' - 1 : samples'[n].size = SizeIn(t, n)
  <2> SUFFICES ASSUME NEW n \in 0 .. size' - 1 PROVE samples'[n].size = SizeIn(t, n)
    OBVIOUS
  <2>1. n \in 0 .. size' /\ n # size'
    BY <1>6
  <2> DEFINE z == SizeIn(t, n)
  <2>2. samples'[n] = [pts |-> 0, cto |-> 0, pos |-> 0, is_smooth_ss |-> FALSE, size |-> z]
    BY <1>7, <2>1
  <2> HIDE DEF z
  <2>3. samples'[n].size = z
    BY <2>2
  <2> QED BY <2>3 DEF z
<1>12. ChunksMapped' /\ ChunksNumbered'
  BY <1>1, <1>3, <1>4, <1>5 DEF IndexInv, ChunksMapped, ChunksNumbered
<1>13. SamplesSized'
  BY <1>1, <1>6, <1>10, <1>11 DEF SamplesSized
<1>14. SamplesTimed'
  <2>1. 1 \in 1 .. Len(t.stts) + 1 /\ CountedTo(t)[0] = 0 /\ 1 - 1 = 0
    <3>1. t \in Tables
      BY TablesKnown
    <3>2. Len(t.stts) \in Nat /\ CountedTo(t)[0] = 0
      BY <3>1, CountedRises
    <3> QED BY <3>2
  <2>2. Pts(DurationsOf(t))[0] = 0
    BY TablesKnown, DurationsAre, PtsAre
  <2>3. \A n \in 0 .. size' : ~ n < 0
    BY <1>6
  <2> QED BY <1>1, <2>1, <2>2, <2>3 DEF SamplesTimed
<1>15. SamplesPlaced' /\ SamplesMarked'
  <2>1. SamplesPlaced'
    BY <1>1 DEF SamplesPlaced
  <2>2. SamplesMarked'
    <3>1. pc' # "done"
      BY <1>1
    <3> QED BY <1>8, <3>1 DEF SamplesMarked
  <2> QED BY <2>1, <2>2
<1> QED BY <1>1, <1>12, <1>13, <1>14, <1>15, TablesKnown DEF IndexInv

\* What is known once there are samples.
LEMMA SamplesKnown ==
  ASSUME IndexInv, pc \notin {"map", "number"}
  PROVE  /\ t \in Tables /\ size = CountOf(t) /\ size \in Nat
         /\ DOMAIN samples = 0 .. size
         /\ \A n \in 0 .. size : samples[n] \in Sample
         /\ \A n \in 0 .. size - 1 : samples[n].size = SizeIn(t, n)
         /\ \A c \in Chunks : chunks[c].size = InChunkOf(t, c) /\ chunks[c].sample = Firsts(t)[c]
<1>1. t \in Tables /\ ChunksMapped /\ ChunksNumbered /\ SamplesSized
  BY DEF IndexInv
<1>2. size = CountOf(t) /\ samples \in [0 .. size -> Sample]
      /\ \A n \in 0 .. size - 1 : samples[n].size = SizeIn(t, n)
  BY <1>1 DEF SamplesSized
<1>3. size \in Nat
  BY <1>1, <1>2, BytesRise
<1>4. DOMAIN samples = 0 .. size /\ \A n \in 0 .. size : samples[n] \in Sample
  BY <1>2
<1>5. \A c \in Chunks : chunks[c].size = InChunkOf(t, c) /\ chunks[c].sample = Firsts(t)[c]
  BY <1>1 DEF ChunksMapped, ChunksNumbered
<1> QED BY <1>1, <1>2, <1>3, <1>4, <1>5

\* A step that leaves the chunks, and the sizes of the samples.
LEMMA SamplesStep ==
  ASSUME IndexInv, pc \notin {"map", "number"},
         pc' \in {"times", "offsets", "places", "sync", "done"},
         t' = t, chunks' = chunks, size' = size, DOMAIN samples' = 0 .. size,
         samples' = [n \in 0 .. size |-> samples'[n]],
         \A n \in 0 .. size : samples'[n] \in Sample /\ samples'[n].size = samples[n].size,
         SamplesTimed', SamplesPlaced', SamplesMarked'
  PROVE  IndexInv'
<1>1. t \in Tables /\ ChunksMapped /\ ChunksNumbered /\ SamplesSized
  BY DEF IndexInv
<1>2. Chunks' = Chunks
  BY DEF Chunks
<1>3. pc' \notin {"map", "number"}
  OBVIOUS
<1>4. chunks \in [Chunks -> [pos : Nat, size : Nat, sample : Nat]]
      /\ \A c \in Chunks : /\ chunks[c].pos = t.stco[c + 1] /\ chunks[c].size = InChunkOf(t, c)
                           /\ chunks[c].sample = Firsts(t)[c]
  BY <1>1 DEF ChunksMapped, ChunksNumbered
<1>5. ChunksMapped' /\ ChunksNumbered'
  BY <1>2, <1>3, <1>4 DEF ChunksMapped, ChunksNumbered
<1>6. samples' \in [0 .. size -> Sample]
  OBVIOUS
<1>7. SamplesSized'
  <2>1. size \in Nat
    BY SamplesKnown
  <2>2. \A n \in 0 .. size - 1 : n \in 0 .. size
    BY <2>1
  <2>3. \A n \in 0 .. size - 1 : samples[n].size = SizeIn(t, n)
    BY SamplesKnown
  <2>4. \A n \in 0 .. size - 1 : samples'[n].size = SizeIn(t, n)
    BY <2>2, <2>3
  <2> QED BY <1>6, <2>4, SamplesKnown DEF SamplesSized
<1> QED BY <1>1, <1>5, <1>7 DEF IndexInv

\* A sample of which one field is written.
LEMMA PtsWritten ==
  ASSUME NEW r \in Sample, NEW v \in Nat, NEW q, q = [r EXCEPT !.pts = v]
  PROVE  /\ q \in Sample /\ q.pts = v
         /\ q.size = r.size /\ q.is_smooth_ss = r.is_smooth_ss
  BY DEF Sample

\* Another one.
LEMMA CtoWritten ==
  ASSUME NEW r \in Sample, NEW v \in Nat, NEW q, q = [r EXCEPT !.cto = v]
  PROVE  /\ q \in Sample /\ q.pts = r.pts
         /\ q.size = r.size /\ q.is_smooth_ss = r.is_smooth_ss
  BY DEF Sample

\* The next.
LEMMA PosWritten ==
  ASSUME NEW r \in Sample, NEW v \in Nat, NEW q, q = [r EXCEPT !.pos = v]
  PROVE  /\ q \in Sample /\ q.pos = v /\ q.pts = r.pts
         /\ q.size = r.size /\ q.is_smooth_ss = r.is_smooth_ss
  BY DEF Sample

\* And the marker.
LEMMA SmoothWritten ==
  ASSUME NEW r \in Sample, NEW q, q = [r EXCEPT !.is_smooth_ss = TRUE]
  PROVE  /\ q \in Sample /\ q.is_smooth_ss = TRUE /\ q.pts = r.pts
         /\ q.size = r.size /\ q.pos = r.pos
  BY DEF Sample

\* What is known while stts is read.
LEMMA TimesKnown ==
  ASSUME IndexInv, pc = "times"
  PROVE  /\ Len(t.stts) \in Nat /\ DOMAIN t.stts = 1 .. Len(t.stts)
         /\ j \in 1 .. Len(t.stts) + 1 /\ s = CountedTo(t)[j - 1] /\ s \in Nat
         /\ s <= Len(DurationsOf(t)) /\ Len(DurationsOf(t)) = CountedTo(t)[Len(t.stts)]
         /\ DurationsOf(t) \in Seq(Nat)
         /\ pts = Pts(DurationsOf(t))[s] /\ pts \in Nat
         /\ \A n \in 0 .. size : n < s => samples[n].pts = Pts(DurationsOf(t))[n]
         /\ \A n \in 0 .. size : samples[n].is_smooth_ss = FALSE
<1>1. t \in Tables /\ SamplesTimed /\ SamplesMarked
  BY DEF IndexInv
<1>2. /\ j \in 1 .. Len(t.stts) + 1 /\ s = CountedTo(t)[j - 1] /\ pts = Pts(DurationsOf(t))[s]
      /\ \A n \in 0 .. size : n < s => samples[n].pts = Pts(DurationsOf(t))[n]
  BY <1>1 DEF SamplesTimed
<1>3. \A n \in 0 .. size : ~ samples[n].is_smooth_ss
  BY <1>1 DEF SamplesMarked
<1>4. \A n \in 0 .. size : samples[n].is_smooth_ss = FALSE
  <2>1. \A n \in 0 .. size : samples[n].is_smooth_ss \in BOOLEAN
    BY SamplesKnown DEF Sample
  <2> QED BY <1>3, <2>1
<1>5. Len(t.stts) \in Nat /\ DOMAIN t.stts = 1 .. Len(t.stts)
  BY <1>1, CountedRises
<1>6. j - 1 \in 0 .. Len(t.stts) /\ Len(t.stts) \in 0 .. Len(t.stts) /\ j - 1 <= Len(t.stts)
  BY <1>2, <1>5
<1>7. s \in Nat /\ s <= CountedTo(t)[Len(t.stts)]
  BY <1>1, <1>2, <1>6, CountedRises
<1>8. DurationsOf(t) \in Seq(Nat) /\ Len(DurationsOf(t)) = CountedTo(t)[Len(t.stts)]
  BY <1>1, DurationsAre
<1>9. pts \in Nat
  <2>1. s \in 0 .. Len(DurationsOf(t))
    BY <1>7, <1>8
  <2> QED BY <1>2, <1>8, <2>1, PtsAre
<1> QED BY <1>2, <1>4, <1>5, <1>7, <1>8, <1>9

\* An entry of stts gives its samples their times.
LEMMA TimesKeeps ==
  ASSUME IndexInv, Times
  PROVE  IndexInv'
<1> DEFINE P == Pts(DurationsOf(t))
           count == t.stts[j].count
           dur == t.stts[j].duration
<1>1. pc = "times" /\ pc' = "times" /\ j \in DOMAIN t.stts /\ t' = t /\ chunks' = chunks
      /\ size' = size /\ s' = s + count /\ pts' = pts + count * dur /\ j' = j + 1
  BY DEF Times
<1>2. samples' = [n \in DOMAIN samples |->
              IF s <= n /\ n < s + count
              THEN [samples[n] EXCEPT !.pts = pts + (n - s) * dur] ELSE samples[n]]
  BY DEF Times
<1>3. /\ Len(t.stts) \in Nat /\ j \in 1 .. Len(t.stts) /\ s = CountedTo(t)[j - 1] /\ s \in Nat
      /\ pts = P[s] /\ pts \in Nat /\ DurationsOf(t) \in Seq(Nat)
      /\ Len(DurationsOf(t)) = CountedTo(t)[Len(t.stts)]
      /\ \A n \in 0 .. size : n < s => samples[n].pts = P[n]
      /\ \A n \in 0 .. size : samples[n].is_smooth_ss = FALSE
  BY <1>1, TimesKnown
<1>4. t \in Tables /\ size \in Nat /\ DOMAIN samples = 0 .. size
      /\ \A n \in 0 .. size : samples[n] \in Sample
  BY <1>1, SamplesKnown
<1>5. count \in Nat /\ dur \in Nat /\ CountedTo(t)[j] = s + count
      /\ CountedTo(t)[j] <= Len(DurationsOf(t))
  <2>1. j \in 0 .. Len(t.stts) /\ Len(t.stts) \in 0 .. Len(t.stts) /\ j <= Len(t.stts)
    BY <1>3
  <2>2. CountedTo(t)[j] <= CountedTo(t)[Len(t.stts)]
    BY <1>4, <2>1, CountedRises
  <2> QED BY <1>3, <1>4, <2>2, CountedRises
<1>6. \A m \in 0 .. count : P[s + m] = pts + m * dur
  BY <1>3, <1>4, PtsWithin
<1>7. \A m \in 0 .. count : P[s + m] \in Nat
  <2> SUFFICES ASSUME NEW m \in 0 .. count PROVE P[s + m] \in Nat
    OBVIOUS
  <2>1. s + m \in 0 .. Len(DurationsOf(t))
    <3>1. PICK N : N = Len(DurationsOf(t))
      OBVIOUS
    <3>2. N \in Nat
      <4>1. Len(DurationsOf(t)) \in Nat
        BY <1>3
      <4> QED BY <3>1, <4>1
    <3>3. s + count <= N
      BY <1>5, <3>1
    <3>4. s \in Nat /\ count \in Nat
      BY <1>3, <1>5
    <3> HIDE DEF count
    <3>5. s + m \in 0 .. N
      BY <3>2, <3>3, <3>4
    <3> QED BY <3>1, <3>5
  <2> QED BY <1>3, <2>1, PtsAre
<1> HIDE DEF P, count, dur
<1>14. s \in Nat /\ size \in Nat /\ count \in Nat
  BY <1>3, <1>4, <1>5
<1>8. ASSUME NEW n \in 0 .. size
      PROVE  /\ samples'[n] \in Sample /\ samples'[n].size = samples[n].size
             /\ samples'[n].is_smooth_ss = FALSE
             /\ n < s + count => samples'[n].pts = P[n]
  <2>0. samples[n] \in Sample /\ samples[n].is_smooth_ss = FALSE
    BY <1>3, <1>4
  <2>1. CASE s <= n /\ n < s + count
    <3>1. n - s \in 0 .. count /\ s + (n - s) = n
      BY <1>14, <2>1
    <3>2. P[n] = pts + (n - s) * dur /\ P[n] \in Nat
      <4>1. P[s + (n - s)] = pts + (n - s) * dur /\ P[s + (n - s)] \in Nat
        BY <1>6, <1>7, <3>1
      <4> QED BY <3>1, <4>1
    <3>3. samples'[n] = [samples[n] EXCEPT !.pts = P[n]]
      BY <1>2, <1>4, <2>1, <3>2
    <3>4. P[n] \in Nat
      BY <3>2
    <3>5. samples'[n] \in Sample /\ samples'[n].size = samples[n].size
          /\ samples'[n].pts = P[n] /\ samples'[n].is_smooth_ss = samples[n].is_smooth_ss
      BY <2>0, <3>3, <3>4, PtsWritten
    <3> QED BY <2>0, <3>5
  <2>2. CASE ~ (s <= n /\ n < s + count)
    <3>1. samples'[n] = samples[n]
      BY <1>2, <1>4, <2>2
    <3>2. n < s + count => n < s
      BY <1>14, <2>2
    <3>3. n < s => samples[n].pts = P[n]
      BY <1>3
    <3> QED BY <2>0, <3>1, <3>2, <3>3
  <2> QED BY <2>1, <2>2
<1>9. DOMAIN samples' = 0 .. size /\ samples' = [n \in 0 .. size |-> samples'[n]]
  BY <1>2, <1>4
<1>10. SamplesTimed'
  <2>1. j + 1 \in 1 .. Len(t.stts) + 1 /\ j + 1 - 1 = j
    BY <1>3
  <2>2. s' = CountedTo(t)[j' - 1]
    <3>1. j' - 1 = j /\ s' = s + count
      <4>1. j' = j + 1 /\ s' = s + count
        BY <1>1
      <4>2. j \in Nat
        BY <1>3
      <4>3. j' - 1 = j
        BY <4>1, <4>2
      <4> QED BY <4>1, <4>3
    <3>2. CountedTo(t)[j] = s + count
      BY <1>5
    <3> QED BY <3>1, <3>2
  <2>3. pts' = P[s']
    <3>1. count \in 0 .. count
      BY <1>5
    <3> QED BY <1>1, <1>6, <3>1 DEF count, dur
  <2>4. \A n \in 0 .. size : n < s' => samples'[n].pts = P[n]
    BY <1>1, <1>8 DEF count
  <2>5. j' \in 1 .. Len(t.stts) + 1
    BY <1>1, <2>1
  <2>6. P = Pts(DurationsOf(t))
    BY DEF P
  <2> QED BY <1>1, <2>2, <2>3, <2>4, <2>5, <2>6 DEF SamplesTimed
<1>11. SamplesPlaced'
  BY <1>1 DEF SamplesPlaced
<1>12. SamplesMarked'
  BY <1>1, <1>8 DEF SamplesMarked
<1>13. pc \notin {"map", "number"} /\ pc' \in {"times", "offsets", "places", "sync", "done"}
  BY <1>1
<1> QED BY <1>1, <1>8, <1>9, <1>10, <1>11, <1>12, <1>13, SamplesStep

\* The end has its time as well.
LEMMA EndTimeKeeps ==
  ASSUME IndexInv, EndTime
  PROVE  IndexInv'
<1> DEFINE P == Pts(DurationsOf(t))
<1>1. pc = "times" /\ pc' = "offsets" /\ j \notin DOMAIN t.stts /\ t' = t /\ chunks' = chunks
      /\ size' = size /\ j' = 1 /\ s' = 0 /\ cto' = 0
  BY DEF EndTime
<1>2. samples' = [samples EXCEPT ![s].pts = pts]
  BY DEF EndTime
<1>3. /\ s \in Nat /\ pts = P[s] /\ pts \in Nat /\ s = Len(DurationsOf(t))
      /\ \A n \in 0 .. size : n < s => samples[n].pts = P[n]
      /\ \A n \in 0 .. size : samples[n].is_smooth_ss = FALSE
  <2>1. j - 1 = Len(t.stts)
    BY <1>1, TimesKnown
  <2> QED BY <1>1, <2>1, TimesKnown
<1>4. size \in Nat /\ DOMAIN samples = 0 .. size /\ \A n \in 0 .. size : samples[n] \in Sample
  BY <1>1, SamplesKnown
<1>5. s \in Nat /\ size \in Nat /\ pts \in Nat /\ pts = P[s]
  BY <1>3, <1>4
<1> HIDE DEF P
<1>6. ASSUME NEW n \in 0 .. size
      PROVE  /\ samples'[n] \in Sample /\ samples'[n].size = samples[n].size
             /\ samples'[n].is_smooth_ss = FALSE
             /\ n <= s => samples'[n].pts = P[n]
  <2>0. samples[n] \in Sample /\ samples[n].is_smooth_ss = FALSE
    BY <1>3, <1>4
  <2>1. CASE n = s
    <3>1. samples'[n] = [samples[n] EXCEPT !.pts = pts]
      BY <1>2, <1>4, <2>1
    <3>2. samples'[n] \in Sample /\ samples'[n].size = samples[n].size
          /\ samples'[n].pts = pts /\ samples'[n].is_smooth_ss = samples[n].is_smooth_ss
      BY <1>5, <2>0, <3>1, PtsWritten
    <3> QED BY <1>5, <2>0, <2>1, <3>2
  <2>2. CASE n # s
    <3>1. samples'[n] = samples[n]
      BY <1>2, <1>4, <2>2
    <3>2. n <= s => n < s
      BY <1>5, <2>2
    <3>3. n < s => samples[n].pts = P[n]
      BY <1>3
    <3> QED BY <2>0, <3>1, <3>2, <3>3
  <2> QED BY <2>1, <2>2
<1>7. DOMAIN samples' = 0 .. size /\ samples' = [n \in 0 .. size |-> samples'[n]]
  BY <1>2, <1>4
<1>8. SamplesTimed'
  <2>1. pc' # "times"
    BY <1>1
  <2>2. \A n \in 0 .. size : n <= Len(DurationsOf(t)) => samples'[n].pts = P[n]
    BY <1>3, <1>6
  <2> QED BY <1>1, <2>1, <2>2 DEF SamplesTimed, P
<1>9. SamplesPlaced'
  <2>1. 1 \in Nat \ {0} /\ 0 \in 0 .. size /\ 0 \in Nat
    BY <1>5
  <2> QED BY <1>1, <2>1 DEF SamplesPlaced
<1>10. SamplesMarked'
  BY <1>1, <1>6 DEF SamplesMarked
<1>11. pc \notin {"map", "number"} /\ pc' \in {"times", "offsets", "places", "sync", "done"}
  BY <1>1
<1> QED BY <1>1, <1>6, <1>7, <1>8, <1>9, <1>10, <1>11, SamplesStep

\* What is known once stts has been read, until the markers come.
LEMMA LaterKnown ==
  ASSUME IndexInv, pc \in {"offsets", "places", "sync"}
  PROVE  /\ size \in Nat /\ DOMAIN samples = 0 .. size
         /\ \A n \in 0 .. size : /\ samples[n] \in Sample /\ samples[n].is_smooth_ss = FALSE
                                 /\ n <= Len(DurationsOf(t)) =>
                                      samples[n].pts = Pts(DurationsOf(t))[n]
<1>1. size \in Nat /\ DOMAIN samples = 0 .. size /\ \A n \in 0 .. size : samples[n] \in Sample
  BY SamplesKnown
<1>2. \A n \in 0 .. size : ~ samples[n].is_smooth_ss
  BY DEF IndexInv, SamplesMarked
<1>3. \A n \in 0 .. size : samples[n].is_smooth_ss \in BOOLEAN
  BY <1>1 DEF Sample
<1>4. \A n \in 0 .. size : n <= Len(DurationsOf(t)) => samples[n].pts = Pts(DurationsOf(t))[n]
  BY DEF IndexInv, SamplesTimed
<1> QED BY <1>1, <1>2, <1>3, <1>4

\* A step of these that leaves the times and the markers as well.
LEMMA LaterStep ==
  ASSUME IndexInv, pc \in {"offsets", "places", "sync"}, pc' \in {"offsets", "places", "sync"},
         t' = t, chunks' = chunks, size' = size, DOMAIN samples' = 0 .. size,
         samples' = [n \in 0 .. size |-> samples'[n]],
         \A n \in 0 .. size : /\ samples'[n] \in Sample /\ samples'[n].size = samples[n].size
                              /\ samples'[n].pts = samples[n].pts
                              /\ samples'[n].is_smooth_ss = samples[n].is_smooth_ss,
         SamplesPlaced'
  PROVE  IndexInv'
<1>1. \A n \in 0 .. size : /\ samples[n].is_smooth_ss = FALSE
                           /\ n <= Len(DurationsOf(t)) =>
                                samples[n].pts = Pts(DurationsOf(t))[n]
  BY LaterKnown
<1>2. pc' # "times" /\ pc' # "done"
  OBVIOUS
<1>3. SamplesTimed'
  <2>1. \A n \in 0 .. size : n <= Len(DurationsOf(t)) => samples'[n].pts = Pts(DurationsOf(t))[n]
    BY <1>1
  <2> QED BY <1>2, <2>1 DEF SamplesTimed
<1>4. SamplesMarked'
  BY <1>1, <1>2 DEF SamplesMarked
<1>5. pc \notin {"map", "number"} /\ pc' \in {"times", "offsets", "places", "sync", "done"}
      /\ \A n \in 0 .. size : samples'[n] \in Sample /\ samples'[n].size = samples[n].size
  OBVIOUS
<1> QED BY <1>3, <1>4, <1>5, SamplesStep

\* An entry of ctts leaves all else.
LEMMA OffsetsKeeps ==
  ASSUME IndexInv, Offsets
  PROVE  IndexInv'
<1> DEFINE run == t.ctts[j]
           upto == IF s + run.count > size THEN size ELSE s + run.count
           offset == run.offset
           count == run.count
<1>1. pc = "offsets" /\ pc' = "offsets" /\ j \in DOMAIN t.ctts /\ t' = t /\ chunks' = chunks
      /\ size' = size /\ s' = upto /\ cto' = offset /\ j' = j + 1
  BY DEF Offsets
<1>2. samples' = [n \in DOMAIN samples |->
              IF s <= n /\ n < upto THEN [samples[n] EXCEPT !.cto = offset] ELSE samples[n]]
  BY DEF Offsets
<1>3. size \in Nat /\ DOMAIN samples = 0 .. size /\ \A n \in 0 .. size : samples[n] \in Sample
  BY <1>1, LaterKnown
<1>4. s \in 0 .. size /\ j \in Nat \ {0}
  BY <1>1 DEF IndexInv, SamplesPlaced
<1>5. count \in Nat /\ offset \in Nat
  <2>1. t.ctts \in Seq([count : Nat, offset : Nat])
    BY TablesKnown, TablesAssumption DEF Typed
  <2>2. \A S : \A q \in Seq(S) : \A e \in DOMAIN q : q[e] \in S
    OBVIOUS
  <2>3. run \in [count : Nat, offset : Nat]
    BY <1>1, <2>1, <2>2
  <2> HIDE DEF run
  <2> QED BY <2>3
<1>6. upto \in 0 .. size
  <2>1. upto = IF s + count > size THEN size ELSE s + count
    OBVIOUS
  <2> HIDE DEF upto, count
  <2> QED BY <1>3, <1>4, <1>5, <2>1
<1> HIDE DEF run, upto, offset, count
<1>7. ASSUME NEW n \in 0 .. size
      PROVE  /\ samples'[n] \in Sample /\ samples'[n].size = samples[n].size
             /\ samples'[n].pts = samples[n].pts
             /\ samples'[n].is_smooth_ss = samples[n].is_smooth_ss
  <2>1. samples[n] \in Sample
    BY <1>3
  <2>2. samples'[n] = [samples[n] EXCEPT !.cto = offset] \/ samples'[n] = samples[n]
    BY <1>2, <1>3
  <2>3. ASSUME samples'[n] = [samples[n] EXCEPT !.cto = offset]
        PROVE  /\ samples'[n] \in Sample /\ samples'[n].size = samples[n].size
               /\ samples'[n].pts = samples[n].pts
               /\ samples'[n].is_smooth_ss = samples[n].is_smooth_ss
    BY <1>5, <2>1, <2>3, CtoWritten
  <2> QED BY <2>1, <2>2, <2>3
<1>8. DOMAIN samples' = 0 .. size /\ samples' = [n \in 0 .. size |-> samples'[n]]
  BY <1>2, <1>3
<1>9. SamplesPlaced'
  <2>1. j + 1 \in Nat \ {0}
    BY <1>4
  <2> QED BY <1>1, <1>5, <1>6, <2>1 DEF SamplesPlaced
<1>10. pc \in {"offsets", "places", "sync"} /\ pc' \in {"offsets", "places", "sync"}
  BY <1>1
<1> QED BY <1>1, <1>7, <1>8, <1>9, <1>10, LaterStep

\* So does its end.
LEMMA EndOffsetKeeps ==
  ASSUME IndexInv, EndOffset
  PROVE  IndexInv'
<1>1. pc = "offsets" /\ pc' = "places" /\ t' = t /\ chunks' = chunks
      /\ size' = size /\ s' = 0 /\ j' = 0
  BY DEF EndOffset
<1>2. samples' = [samples EXCEPT ![s].cto = cto]
  BY DEF EndOffset
<1>3. t \in Tables /\ size \in Nat /\ DOMAIN samples = 0 .. size
      /\ \A n \in 0 .. size : samples[n] \in Sample
  BY <1>1, LaterKnown, TablesKnown
<1>4. s \in 0 .. size /\ cto \in Nat
  BY <1>1 DEF IndexInv, SamplesPlaced
<1>5. ASSUME NEW n \in 0 .. size
      PROVE  /\ samples'[n] \in Sample /\ samples'[n].size = samples[n].size
             /\ samples'[n].pts = samples[n].pts
             /\ samples'[n].is_smooth_ss = samples[n].is_smooth_ss
  <2>1. samples[n] \in Sample
    BY <1>3
  <2>2. samples'[n] = [samples[n] EXCEPT !.cto = cto] \/ samples'[n] = samples[n]
    BY <1>2, <1>3
  <2>3. ASSUME samples'[n] = [samples[n] EXCEPT !.cto = cto]
        PROVE  /\ samples'[n] \in Sample /\ samples'[n].size = samples[n].size
               /\ samples'[n].pts = samples[n].pts
               /\ samples'[n].is_smooth_ss = samples[n].is_smooth_ss
    BY <1>4, <2>1, <2>3, CtoWritten
  <2> QED BY <2>1, <2>2, <2>3
<1>6. DOMAIN samples' = 0 .. size /\ samples' = [n \in 0 .. size |-> samples'[n]]
  BY <1>2, <1>3
<1>7. SamplesPlaced'
  <2>1. 0 \in 0 .. Len(t.stco) /\ Firsts(t)[0] = 0 /\ 0 <= size
    BY <1>3, TablesKnown, FirstsRise
  <2>2. (0 = UpToChunk(0))'
    BY <1>1, <2>1 DEF UpToChunk
  <2>3. Placed(0)'
    <3>1. Chunks' = Chunks /\ \A c \in Chunks : ~ c < 0
      BY <1>1, TablesKnown DEF Chunks
    <3> QED BY <3>1 DEF Placed
  <2> QED BY <1>1, <2>1, <2>2, <2>3 DEF SamplesPlaced
<1>8. pc \in {"offsets", "places", "sync"} /\ pc' \in {"offsets", "places", "sync"}
  BY <1>1
<1> QED BY <1>1, <1>5, <1>6, <1>7, <1>8, LaterStep

\* How far the first chunks reach.
LEMMA UpToChunkIs ==
  ASSUME t \in Tables, size \in Nat, NEW k \in 0 .. Len(t.stco)
  PROVE  /\ UpToChunk(k) \in 0 .. size /\ Firsts(t)[k] \in Nat
         /\ Firsts(t)[k] <= size => UpToChunk(k) = Firsts(t)[k]
         /\ Firsts(t)[k] > size => UpToChunk(k) = size
  BY FirstsRise DEF UpToChunk

\* A chunk gives its samples their places.
LEMMA PlacesKeeps ==
  ASSUME IndexInv, Places
  PROVE  IndexInv'
<1> DEFINE F == Firsts(t)
           u == BytesUpTo(t)
           upto == PlacedUpTo
           Pos(n) == chunks[j].pos + BytesOf(s, n)
<1>1. pc = "places" /\ pc' = "places" /\ j \in Chunks /\ t' = t /\ chunks' = chunks
      /\ size' = size /\ s' = upto /\ j' = j + 1
  BY DEF Places
<1>2. samples' = [n \in DOMAIN samples |->
       IF s <= n /\ n < upto THEN [samples[n] EXCEPT !.pos = Pos(n)] ELSE samples[n]]
  BY DEF Places
<1>3. t \in Tables /\ size \in Nat /\ size = CountOf(t) /\ DOMAIN samples = 0 .. size
      /\ \A n \in 0 .. size : samples[n] \in Sample
  BY <1>1, SamplesKnown
<1>4. s = UpToChunk(j) /\ Placed(j)
  BY <1>1 DEF IndexInv, SamplesPlaced
<1>5. j \in 0 .. Len(t.stco) - 1 /\ j \in 0 .. Len(t.stco) /\ j + 1 \in 0 .. Len(t.stco)
      /\ j + 1 \in 1 .. Len(t.stco) /\ \A c \in Chunks : c \in 0 .. Len(t.stco) - 1
  BY <1>1, TablesKnown
<1>6. chunks[j].pos = t.stco[j + 1] /\ chunks[j].pos \in Nat
  BY <1>1, TablesKnown
<1>7. chunks[j].size = InChunkOf(t, j)
  BY <1>1, SamplesKnown
<1>8. F[j] \in Nat /\ F[j + 1] \in Nat /\ F[j + 1] = F[j] + chunks[j].size /\ F[j] <= F[j + 1]
  <2>1. j <= j + 1
    BY <1>5
  <2> QED BY <1>3, <1>5, <1>7, <2>1, FirstsRise
<1>9. s \in 0 .. size /\ (F[j] <= size => s = F[j]) /\ (F[j] > size => s = size)
  BY <1>3, <1>4, <1>5, UpToChunkIs
<1>10. chunks[j].size \in Nat
  BY <1>1, TablesKnown
<1>11. upto = UpToChunk(j + 1)
  <2>1. upto = IF s + chunks[j].size > size THEN size ELSE s + chunks[j].size
    BY DEF PlacedUpTo
  <2>2. UpToChunk(j + 1) = IF F[j + 1] <= size THEN F[j + 1] ELSE size
    BY DEF UpToChunk
  <2> HIDE DEF upto, F
  <2> QED BY <1>3, <1>8, <1>9, <1>10, <2>1, <2>2
<1>12. ASSUME NEW n \in s .. size PROVE Pos(n) = t.stco[j + 1] + (u[n] - u[s]) /\ Pos(n) \in Nat
  <2>1. n \in 0 .. CountOf(t) /\ s \in 0 .. CountOf(t) /\ s <= n /\ ~ n < s
    BY <1>3, <1>9
  <2>2. \A m \in 0 .. CountOf(t) - 1 : samples[m].size = SizeIn(t, m)
    BY <1>1, <1>3, SamplesKnown
  <2>3. BytesOf(s, n) = u[n] - u[s]
    BY <1>3, <2>1, <2>2, BytesAre
  <2>4. u[s] \in Nat /\ u[n] \in Nat /\ u[s] <= u[n]
    BY <1>3, <2>1, BytesRise
  <2> HIDE DEF u
  <2> QED BY <1>6, <2>3, <2>4
<1> HIDE DEF F, u, upto, Pos
<1>13. ASSUME NEW n \in 0 .. size
      PROVE  /\ samples'[n] \in Sample /\ samples'[n].size = samples[n].size
             /\ samples'[n].pts = samples[n].pts
             /\ samples'[n].is_smooth_ss = samples[n].is_smooth_ss
             /\ s <= n /\ n < upto => samples'[n].pos = t.stco[j + 1] + (u[n] - u[s])
             /\ n < s => samples'[n].pos = samples[n].pos
  <2>0. samples[n] \in Sample
    BY <1>3
  <2>1. CASE s <= n /\ n < upto
    <3>1. n \in s .. size /\ ~ n < s
      BY <1>3, <1>9, <2>1
    <3>2. Pos(n) = t.stco[j + 1] + (u[n] - u[s]) /\ Pos(n) \in Nat
      BY <1>12, <3>1
    <3>3. samples'[n] = [samples[n] EXCEPT !.pos = Pos(n)]
      BY <1>2, <1>3, <2>1
    <3>4. samples'[n] \in Sample /\ samples'[n].size = samples[n].size
          /\ samples'[n].pts = samples[n].pts /\ samples'[n].pos = Pos(n)
          /\ samples'[n].is_smooth_ss = samples[n].is_smooth_ss
      BY <2>0, <3>2, <3>3, PosWritten
    <3> QED BY <3>1, <3>2, <3>4
  <2>2. CASE ~ (s <= n /\ n < upto)
    <3>1. samples'[n] = samples[n]
      BY <1>2, <1>3, <2>2
    <3> QED BY <2>0, <2>2, <3>1
  <2> QED BY <2>1, <2>2
<1>14. DOMAIN samples' = 0 .. size /\ samples' = [n \in 0 .. size |-> samples'[n]]
  BY <1>2, <1>3
<1>15. ASSUME NEW c \in Chunks, c < j + 1, NEW n \in 0 .. size - 1, F[c] <= n, n < F[c + 1]
       PROVE  samples'[n].pos = t.stco[c + 1] + (u[n] - u[F[c]])
  <2>1. c \in 0 .. Len(t.stco) - 1 /\ c \in 0 .. Len(t.stco) /\ c + 1 \in 0 .. Len(t.stco)
    BY <1>5, TablesKnown
  <2>2. F[c] \in Nat /\ F[c + 1] \in Nat
    BY <1>3, <2>1, FirstsRise DEF F
  <2>3. n \in 0 .. size /\ n < size
    BY <1>3
  <2>4. CASE c < j
    <3>1. c + 1 <= j
      BY <1>5, <2>1, <2>4
    <3>2. F[c + 1] <= F[j]
      BY <1>3, <1>5, <2>1, <3>1, FirstsRise DEF F
    <3>3. n < s
      <4>1. n < F[j]
        BY <1>8, <1>15, <2>2, <2>3, <3>2
      <4>2. n \in Nat /\ size \in Nat /\ F[j] \in Nat
        BY <1>3, <1>8
      <4> QED BY <1>9, <2>3, <4>1, <4>2
    <3>4. samples[n].pos = t.stco[c + 1] + (u[n] - u[F[c]])
      BY <1>4, <1>15, <2>4 DEF Placed, F, u
    <3> QED BY <1>13, <2>3, <3>3, <3>4
  <2>5. CASE ~ c < j
    <3>1. c = j
      BY <1>5, <1>15, <2>1, <2>5
    <3>2. F[j] <= n /\ n < F[j + 1]
      BY <1>15, <3>1
    <3>3. s = F[j] /\ s <= n
      BY <1>3, <1>8, <1>9, <2>3, <3>2
    <3>4. upto = IF F[j + 1] <= size THEN F[j + 1] ELSE size
      BY <1>11 DEF UpToChunk, F
    <3>5. n < upto
      BY <2>3, <3>2, <3>4
    <3>6. samples'[n].pos = t.stco[j + 1] + (u[n] - u[s])
      BY <1>13, <2>3, <3>3, <3>5
    <3> QED BY <3>1, <3>3, <3>6
  <2> QED BY <2>4, <2>5
<1>16. SamplesPlaced'
  <2>1. PICK k : k = j + 1
    OBVIOUS
  <2>2. \A c \in Chunks : c < k =>
          \A n \in 0 .. size - 1 : F[c] <= n /\ n < F[c + 1] =>
            samples'[n].pos = t.stco[c + 1] + (u[n] - u[F[c]])
    BY <1>15, <2>1
  <2>3. Placed(k)'
    BY <1>1, <2>2 DEF Placed, F, u, Chunks
  <2>4. UpToChunk(k)' = UpToChunk(k)
    BY <1>1 DEF UpToChunk
  <2>5. j' = k /\ s' = UpToChunk(k) /\ k \in 0 .. Len(t.stco)
    BY <1>1, <1>5, <1>11, <2>1
  <2> QED BY <1>1, <2>3, <2>4, <2>5 DEF SamplesPlaced
<1>17. pc \in {"offsets", "places", "sync"} /\ pc' \in {"offsets", "places", "sync"}
  BY <1>1
<1> QED BY <1>1, <1>13, <1>14, <1>16, <1>17, LaterStep

\* The end lies behind the last sample.
LEMMA EndPlaceKeeps ==
  ASSUME IndexInv, EndPlace
  PROVE  IndexInv'
<1> DEFINE F == Firsts(t)
           u == BytesUpTo(t)
           L == Len(t.stco)
           from == chunks[j - 1].sample
           place == chunks[j - 1].pos + BytesOf(from, s)
<1>1. pc = "places" /\ pc' = "sync" /\ j \notin Chunks /\ t' = t /\ chunks' = chunks
      /\ size' = size /\ s' = s /\ j' = j
  BY DEF EndPlace
<1>2. samples' = [samples EXCEPT ![s].pos = place]
  BY DEF EndPlace
<1>3. t \in Tables /\ size \in Nat /\ size = CountOf(t) /\ DOMAIN samples = 0 .. size
      /\ \A n \in 0 .. size : samples[n] \in Sample
  BY <1>1, SamplesKnown
<1>4. j \in 0 .. L /\ s = UpToChunk(j) /\ Placed(j)
  BY <1>1 DEF IndexInv, SamplesPlaced
<1>5. j = L /\ L - 1 \in Chunks /\ L - 1 + 1 = L /\ L \in 0 .. L /\ L - 1 \in 0 .. L /\ L - 1 <= L
  BY <1>1, <1>4, TablesKnown
<1>6. chunks[L - 1].pos = t.stco[L] /\ chunks[L - 1].pos \in Nat /\ from = F[L - 1]
  <2>1. chunks[L - 1].pos = t.stco[L - 1 + 1] /\ chunks[L - 1].pos \in Nat
    BY <1>5, TablesKnown
  <2>2. chunks[L - 1].sample = F[L - 1]
    BY <1>1, <1>5, SamplesKnown
  <2> QED BY <1>5, <2>1, <2>2
<1>7. F[L - 1] \in Nat /\ F[L] \in Nat /\ s \in 0 .. size
      /\ s = IF F[L] <= size THEN F[L] ELSE size
  BY <1>3, <1>4, <1>5, FirstsRise, UpToChunkIs DEF UpToChunk
<1>8. place = t.stco[L] + (IF s < from THEN 0 ELSE u[s] - u[from]) /\ place \in Nat
  <2>1. CASE s < from
    <3>1. BytesOf(from, s) = 0
      BY <2>1 DEF BytesOf
    <3> HIDE DEF from
    <3>2. place = t.stco[L] + 0 /\ place \in Nat
      BY <1>5, <1>6, <3>1
    <3> HIDE DEF place
    <3> QED BY <2>1, <3>2
  <2>2. CASE ~ s < from
    <3>1. from \in 0 .. CountOf(t) /\ s \in 0 .. CountOf(t) /\ from <= s
      BY <1>3, <1>6, <1>7, <2>2
    <3>2. \A m \in 0 .. CountOf(t) - 1 : samples[m].size = SizeIn(t, m)
      BY <1>1, <1>3, SamplesKnown
    <3> HIDE DEF from
    <3>3. BytesOf(from, s) = u[s] - u[from]
      BY <1>3, <2>2, <3>1, <3>2, BytesAre
    <3>4. u[s] \in Nat /\ u[from] \in Nat /\ u[from] <= u[s]
      BY <1>3, <3>1, BytesRise
    <3> HIDE DEF u
    <3>5. place = t.stco[L] + (u[s] - u[from]) /\ place \in Nat
      BY <1>5, <1>6, <3>3, <3>4
    <3> HIDE DEF place
    <3> QED BY <2>2, <3>5
  <2> QED BY <2>1, <2>2
<1> HIDE DEF place
<1>9. ASSUME NEW n \in 0 .. size
      PROVE  /\ samples'[n] \in Sample /\ samples'[n].size = samples[n].size
             /\ samples'[n].pts = samples[n].pts
             /\ samples'[n].is_smooth_ss = samples[n].is_smooth_ss
             /\ n = s => samples'[n].pos = place
             /\ n # s => samples'[n].pos = samples[n].pos
  <2>0. samples[n] \in Sample
    BY <1>3
  <2>1. CASE n = s
    <3>1. samples'[n] = [samples[n] EXCEPT !.pos = place]
      BY <1>2, <1>3, <2>1
    <3>2. place \in Nat
      BY <1>8
    <3>3. samples'[n] \in Sample /\ samples'[n].size = samples[n].size
          /\ samples'[n].pts = samples[n].pts /\ samples'[n].pos = place
          /\ samples'[n].is_smooth_ss = samples[n].is_smooth_ss
      BY <2>0, <3>1, <3>2, PosWritten
    <3> QED BY <2>1, <3>3
  <2>2. CASE n # s
    <3>1. samples'[n] = samples[n]
      BY <1>2, <1>3, <2>2
    <3> QED BY <2>0, <2>2, <3>1
  <2> QED BY <2>1, <2>2
<1>10. DOMAIN samples' = 0 .. size /\ samples' = [n \in 0 .. size |-> samples'[n]]
  BY <1>2, <1>3
<1>11. ASSUME NEW c \in Chunks, c < L, NEW n \in 0 .. size - 1, F[c] <= n, n < F[c + 1]
       PROVE  samples'[n].pos = t.stco[c + 1] + (u[n] - u[F[c]])
  <2>1. c \in 0 .. L - 1 /\ c + 1 \in 0 .. L /\ c + 1 <= L
    BY <1>5, TablesKnown
  <2>2. F[c + 1] <= F[L] /\ F[c + 1] \in Nat
    BY <1>3, <1>5, <2>1, FirstsRise
  <2>3. n \in 0 .. size /\ n < size
    BY <1>3
  <2>4. n # s
    <3>1. n < F[L]
      BY <1>7, <1>11, <2>2, <2>3
    <3> HIDE DEF F, L
    <3> QED BY <1>7, <2>3, <3>1
  <2>5. samples[n].pos = t.stco[c + 1] + (u[n] - u[F[c]])
    BY <1>4, <1>5, <1>11 DEF Placed
  <2> HIDE DEF F, u
  <2> QED BY <1>9, <2>3, <2>4, <2>5
<1>12. SamplesPlaced'
  <2>1. Placed(L)'
    BY <1>1, <1>11 DEF Placed, Chunks
  <2>2. UpToChunk(L)' = s
    BY <1>1, <1>4, <1>5 DEF UpToChunk
  <2>3. samples'[s].pos = t.stco[L] + (IF s < F[L - 1] THEN 0 ELSE u[s] - u[F[L - 1]])
    <3>1. samples'[s].pos = place
      BY <1>7, <1>9
    <3> HIDE DEF F, u, L, from
    <3> QED BY <1>6, <1>8, <3>1
  <2>4. pc' # "offsets" /\ pc' # "places"
    BY <1>1
  <2> QED BY <1>1, <2>1, <2>2, <2>3, <2>4 DEF SamplesPlaced
<1>13. pc \in {"offsets", "places", "sync"} /\ pc' \in {"offsets", "places", "sync"}
  BY <1>1
<1> QED BY <1>1, <1>9, <1>10, <1>12, <1>13, LaterStep

\* The markers are those of stss, and one at the end.
LEMMA SyncKeeps ==
  ASSUME IndexInv, Sync
  PROVE  IndexInv'
<1> DEFINE Marked(n) == n = size \/ n + 1 \in t.stss
<1>1. pc = "sync" /\ pc' = "done" /\ t' = t /\ chunks' = chunks /\ size' = size
  BY DEF Sync
<1>2. samples' = [n \in DOMAIN samples |->
       IF Marked(n) THEN [samples[n] EXCEPT !.is_smooth_ss = TRUE] ELSE samples[n]]
  BY DEF Sync
<1>3. t \in Tables /\ size \in Nat /\ DOMAIN samples = 0 .. size
      /\ \A n \in 0 .. size : /\ samples[n] \in Sample /\ samples[n].is_smooth_ss = FALSE
                              /\ n <= Len(DurationsOf(t)) =>
                                   samples[n].pts = Pts(DurationsOf(t))[n]
  BY <1>1, LaterKnown, TablesKnown
<1> HIDE DEF Marked
<1>4. ASSUME NEW n \in 0 .. size
      PROVE  /\ samples'[n] \in Sample /\ samples'[n].size = samples[n].size
             /\ samples'[n].pts = samples[n].pts /\ samples'[n].pos = samples[n].pos
             /\ samples'[n].is_smooth_ss <=> Marked(n)
  <2>0. samples[n] \in Sample /\ samples[n].is_smooth_ss = FALSE
    BY <1>3
  <2>1. CASE Marked(n)
    <3>1. samples'[n] = [samples[n] EXCEPT !.is_smooth_ss = TRUE]
      BY <1>2, <1>3, <2>1
    <3>2. /\ samples'[n] \in Sample /\ samples'[n].is_smooth_ss = TRUE
          /\ samples'[n].pts = samples[n].pts
          /\ samples'[n].size = samples[n].size /\ samples'[n].pos = samples[n].pos
      BY <2>0, <3>1, SmoothWritten
    <3> QED BY <2>1, <3>2
  <2>2. CASE ~ Marked(n)
    <3>1. samples'[n] = samples[n]
      BY <1>2, <1>3, <2>2
    <3> QED BY <2>0, <2>2, <3>1
  <2> QED BY <2>1, <2>2
<1>5. DOMAIN samples' = 0 .. size /\ samples' = [n \in 0 .. size |-> samples'[n]]
  BY <1>2, <1>3
<1>6. SamplesTimed'
  <2>1. \A n \in 0 .. size : n <= Len(DurationsOf(t)) => samples'[n].pts = Pts(DurationsOf(t))[n]
    BY <1>3, <1>4
  <2>2. pc' # "times"
    BY <1>1
  <2> QED BY <1>1, <2>1, <2>2 DEF SamplesTimed
<1>7. SamplesPlaced'
  <2>1. Placed(Len(t.stco))
    BY <1>1 DEF IndexInv, SamplesPlaced
  <2>2. \A n \in 0 .. size - 1 : n \in 0 .. size
    BY <1>3
  <2>3. Placed(Len(t.stco))'
    BY <1>1, <1>4, <2>1, <2>2 DEF Placed, Chunks
  <2>4. UpToChunk(Len(t.stco)) \in 0 .. size
    <3>1. Len(t.stco) \in 0 .. Len(t.stco)
      BY TablesKnown
    <3> QED BY <1>3, <3>1, UpToChunkIs
  <2>5. samples'[UpToChunk(Len(t.stco))].pos = samples[UpToChunk(Len(t.stco))].pos
    BY <1>4, <2>4
  <2>6. UpToChunk(Len(t.stco))' = UpToChunk(Len(t.stco))
    BY <1>1 DEF UpToChunk
  <2> DEFINE end == UpToChunk(Len(t.stco))
             from == Firsts(t)[Len(t.stco) - 1]
             behind == t.stco[Len(t.stco)]
                         + IF end < from THEN 0 ELSE BytesUpTo(t)[end] - BytesUpTo(t)[from]
  <2>7. samples[end].pos = behind
    BY <1>1 DEF IndexInv, SamplesPlaced
  <2>8. samples'[end].pos = behind
    BY <2>5, <2>7
  <2>9. pc' # "offsets" /\ pc' # "places"
    BY <1>1
  <2> QED BY <1>1, <2>3, <2>6, <2>8, <2>9 DEF SamplesPlaced
<1>8. SamplesMarked'
  BY <1>1, <1>4 DEF SamplesMarked, Marked
<1>9. pc \notin {"map", "number"} /\ pc' \in {"times", "offsets", "places", "sync", "done"}
  BY <1>1
<1> QED BY <1>1, <1>4, <1>5, <1>6, <1>7, <1>8, <1>9, SamplesStep

\* The invariant is kept.
LEMMA IndexInvKept == IndexInv /\ [IndexNext]_indexVars => IndexInv'
<1> SUFFICES ASSUME IndexInv, [IndexNext]_indexVars PROVE IndexInv'
  OBVIOUS
<1>1. CASE UNCHANGED indexVars
  BY <1>1 DEF indexVars, IndexInv, ChunksMapped, ChunksNumbered, SamplesSized, SamplesTimed,
              SamplesPlaced, SamplesMarked, Placed, UpToChunk, Chunks
<1>2. CASE IndexNext
  BY <1>2, MapChunksKeeps, MappedKeeps, NumberChunkKeeps, SizesKeeps, TimesKeeps, EndTimeKeeps,
     OffsetsKeeps, EndOffsetKeeps, PlacesKeeps, EndPlaceKeeps, SyncKeeps DEF IndexNext
<1> QED BY <1>1, <1>2

\* After every entry, chunk and sample each table is spread over as much as has been read
\* of it, and what earlier tables gave is left alone.
THEOREM IndexIsRead == IndexSpec => []IndexInv
<1> QED BY InitIndexInv, IndexInvKept, PTL DEF IndexSpec

\* Samples lie in their chunks.
LEMMA InvPlaces == IndexInv => PlacedInChunks
<1> SUFFICES ASSUME IndexInv, pc = "done",
                    NEW n \in 0 .. size - 1, NEW c \in Chunks,
                    Firsts(t)[c] <= n /\ n < Firsts(t)[c + 1]
             PROVE  samples[n].pos = t.stco[c + 1] + BytesOf(Firsts(t)[c], n)
  BY DEF PlacedInChunks, Firsts, EntryFor
<1>1. t \in Tables /\ size = CountOf(t) /\ size \in Nat
      /\ \A m \in 0 .. size - 1 : samples[m].size = SizeIn(t, m)
  BY SamplesKnown
<1>2. Placed(Len(t.stco))
  BY DEF IndexInv, SamplesPlaced
<1>3. c \in 0 .. Len(t.stco) - 1 /\ c < Len(t.stco) /\ c \in 0 .. Len(t.stco)
  BY TablesKnown
<1>4. samples[n].pos = t.stco[c + 1] + (BytesUpTo(t)[n] - BytesUpTo(t)[Firsts(t)[c]])
  BY <1>2, <1>3 DEF Placed
<1>5. Firsts(t)[c] \in Nat
  BY <1>1, <1>3, FirstsRise
<1>6. Firsts(t)[c] \in 0 .. size /\ n \in 0 .. size /\ ~ n < Firsts(t)[c]
  BY <1>1, <1>5
<1>7. BytesOf(Firsts(t)[c], n) = BytesUpTo(t)[n] - BytesUpTo(t)[Firsts(t)[c]]
  BY <1>1, <1>6, BytesAre
<1> QED BY <1>4, <1>7

\* Whatever the tables of a track, trak_build_index puts each of its samples into the
\* chunk it belongs to, behind those that come before it there.
THEOREM IndexPlacesSamples == IndexSpec => []PlacedInChunks
<1> QED BY IndexIsRead, InvPlaces, PTL

\* Times and markers are those of Media.
LEMMA InvAgrees == IndexInv => AgreesWithMedia
<1> SUFFICES ASSUME IndexInv, pc = "done", Len(Durations) = size PROVE AgreesWithMedia
  BY DEF AgreesWithMedia
<1>0. Durations = DurationsOf(t)
  BY DEF Durations, DurationsOf
<1> DEFINE index == TrakBuildIndex("vide", 1, DurationsOf(t), t.stss)
           marked == {n \in 0 .. size : samples[n].is_smooth_ss}
<1>1. index.pts = Pts(DurationsOf(t)) /\ index.size = size
      /\ index.sync = {m - 1 : m \in t.stss}
  BY <1>0 DEF TrakBuildIndex
<1>2. size \in Nat
  BY SamplesKnown
<1>3. \A n \in 0 .. size : samples[n].pts = index.pts[n]
  BY <1>0, <1>1, <1>2 DEF IndexInv, SamplesTimed
<1>4. \A n \in 0 .. size : samples[n].is_smooth_ss <=> n = size \/ n + 1 \in t.stss
  BY DEF IndexInv, SamplesMarked
<1>5. t.stss \subseteq Nat \ {0}
  BY TablesKnown, TablesAssumption DEF Typed
<1>6. ASSUME NEW n \in 0 .. size PROVE n \in index.sync <=> n + 1 \in t.stss
  <2>1. n \in {m - 1 : m \in t.stss} <=> \E m \in t.stss : n = m - 1
    OBVIOUS
  <2>2. \A m \in t.stss : n = m - 1 <=> m = n + 1
    BY <1>2, <1>5
  <2> QED BY <1>1, <2>1, <2>2
<1> HIDE DEF index
<1>7. marked = {n \in 0 .. size : Smooth(index, n)}
  BY <1>1, <1>4, <1>6 DEF Smooth
<1>8. t.stss = {} => marked = {size}
  BY <1>2, <1>4
<1> QED BY <1>0, <1>3, <1>7, <1>8 DEF index, AgreesWithMedia

\* When stts has a time for each sample, the times and markers that trak_build_index
\* writes are those from which playlists and segments are computed: none where stss
\* lists no sample.
THEOREM IndexAgreesWithMedia == IndexSpec => []AgreesWithMedia
<1> QED BY IndexIsRead, InvAgrees, PTL

\* Where a chunk would begin, did it hold all samples before it as well.
Base(c) == t.stco[c + 1] - BytesUpTo(t)[Firsts(t)[c]]

\* What Ordered says of the tables.
LEMMA OrderedChunks ==
  ASSUME IndexInv, pc = "done", Ordered
  PROVE  /\ Firsts(t)[Len(t.stco)] = size
         /\ \A c \in 0 .. Len(t.stco) - 1 :
              Firsts(t)[c] \in 0 .. size /\ BytesUpTo(t)[Firsts(t)[c]] \in Nat /\ Base(c) \in Int
         /\ \A c \in 1 .. Len(t.stco) - 1 : Base(c) >= Base(c - 1)
<1> DEFINE F == Firsts(t)
           u == BytesUpTo(t)
           L == Len(t.stco)
<1>1. /\ t \in Tables /\ size = CountOf(t) /\ size \in Nat
      /\ \A m \in 0 .. size - 1 : samples[m].size = SizeIn(t, m)
      /\ \A c \in Chunks : chunks[c].size = InChunkOf(t, c) /\ chunks[c].sample = F[c]
  BY SamplesKnown
<1>2. L \in Nat \ {0} /\ Chunks = 0 .. L - 1 /\ \A c \in Chunks : chunks[c].pos = t.stco[c + 1]
  BY TablesKnown
<1>3. L - 1 \in Chunks /\ L - 1 \in 0 .. L - 1 /\ L - 1 + 1 = L /\ L \in 0 .. L
  BY <1>2
<1>4. F[L] = size
  <2>1. chunks[L - 1].sample + chunks[L - 1].size = size
    BY DEF Ordered
  <2>2. F[L - 1 + 1] = F[L - 1] + InChunkOf(t, L - 1)
    BY <1>1, <1>3, FirstsRise
  <2> QED BY <1>1, <1>3, <2>1, <2>2
<1>5. \A c \in 0 .. L - 1 : c \in 0 .. L /\ c <= L /\ c + 1 \in 1 .. L
  BY <1>2
<1>6. ASSUME NEW c \in 0 .. L - 1
      PROVE  F[c] \in 0 .. size /\ u[F[c]] \in Nat /\ Base(c) \in Int
  <2>1. F[c] \in Nat /\ F[c] <= F[L]
    BY <1>1, <1>3, <1>5, FirstsRise
  <2>2. F[c] \in 0 .. size
    BY <1>1, <1>4, <2>1
  <2>3. u[F[c]] \in Nat
    BY <1>1, <2>2, BytesRise
  <2>4. t.stco[c + 1] \in Nat
    BY <1>1, <1>5, ChunksRise
  <2> QED BY <2>2, <2>3, <2>4 DEF Base
<1>7. ASSUME NEW c \in 1 .. L - 1 PROVE Base(c) >= Base(c - 1)
  <2>1. c \in 0 .. L - 1 /\ c - 1 \in 0 .. L - 1 /\ c - 1 + 1 = c /\ c - 1 \in 0 .. L
        /\ c \in 0 .. L /\ c - 1 <= c
    BY <1>2
  <2>2. chunks[c].pos >= chunks[c - 1].pos + BytesOf(chunks[c - 1].sample, chunks[c].sample)
    BY DEF Ordered
  <2>3. chunks[c].pos = t.stco[c + 1] /\ chunks[c - 1].pos = t.stco[c]
        /\ chunks[c].sample = F[c] /\ chunks[c - 1].sample = F[c - 1]
    BY <1>1, <1>2, <2>1
  <2>4. F[c] \in 0 .. size /\ F[c - 1] \in 0 .. size /\ F[c - 1] <= F[c] /\ ~ F[c] < F[c - 1]
    <3>1. F[c - 1] <= F[c]
      BY <1>1, <2>1, FirstsRise
    <3>2. F[c] \in 0 .. size /\ F[c - 1] \in 0 .. size
      BY <1>6, <2>1
    <3> HIDE DEF F
    <3> QED BY <1>1, <3>1, <3>2
  <2>5. BytesOf(F[c - 1], F[c]) = u[F[c]] - u[F[c - 1]]
    BY <1>1, <2>4, BytesAre
  <2>6. t.stco[c + 1] >= t.stco[c] + (u[F[c]] - u[F[c - 1]])
    BY <2>2, <2>3, <2>5
  <2>7. t.stco[c + 1] \in Nat /\ t.stco[c] \in Nat
    BY <1>1, <1>5, <2>1, ChunksRise
  <2>8. u[F[c]] \in Nat /\ u[F[c - 1]] \in Nat
    BY <1>6, <2>1
  <2>9. Base(c) = t.stco[c + 1] - u[F[c]] /\ Base(c - 1) = t.stco[c] - u[F[c - 1]]
    BY <2>1 DEF Base
  <2> HIDE DEF F, u, L
  <2> QED BY <2>6, <2>7, <2>8, <2>9
<1> QED BY <1>4, <1>6, <1>7

\* So they rise.
LEMMA BasesRise ==
  ASSUME IndexInv, pc = "done", Ordered,
         NEW c \in 0 .. Len(t.stco) - 1, NEW d \in c .. Len(t.stco) - 1
  PROVE  Base(c) <= Base(d)
<1> DEFINE S == {m \in 0 .. d - c : Base(c) <= Base(c + m)}
<1>1. Len(t.stco) \in Nat \ {0}
  BY TablesKnown
<1>2. c \in Nat /\ d \in Nat /\ d - c \in Nat /\ c + 0 = c /\ c + (d - c) = d
  BY <1>1
<1>3. Base(c) \in Int
  BY OrderedChunks
<1>4. 0 \in S
  BY <1>2, <1>3
<1>5. ASSUME NEW m \in 0 .. d - c - 1, m \in S PROVE m + 1 \in S
  <2>1. c + m \in 0 .. Len(t.stco) - 1 /\ c + m + 1 \in 1 .. Len(t.stco) - 1
        /\ c + m + 1 \in 0 .. Len(t.stco) - 1 /\ c + m + 1 - 1 = c + m
        /\ c + (m + 1) = c + m + 1 /\ m + 1 \in 0 .. d - c
    BY <1>1, <1>2
  <2>2. Base(c + m + 1) >= Base(c + m + 1 - 1) /\ Base(c + m) \in Int /\ Base(c + m + 1) \in Int
    BY <2>1, OrderedChunks
  <2>3. Base(c) <= Base(c + m)
    BY <1>5
  <2>4. Base(c + m + 1 - 1) = Base(c + m) /\ Base(c + (m + 1)) = Base(c + m + 1)
    BY <2>1
  <2>5. Base(c) <= Base(c + (m + 1))
    BY <1>3, <2>2, <2>3, <2>4
  <2> QED BY <2>1, <2>5
<1> HIDE DEF S
<1>6. 0 .. d - c \subseteq S
  BY <1>2, <1>4, <1>5, UpTo
<1>7. d - c \in S
  BY <1>2, <1>6
<1>8. Base(c) <= Base(c + (d - c))
  BY <1>7 DEF S
<1> QED BY <1>2, <1>8

\* Every sample, and the end, has its chunk.
LEMMA ChunkOfSample ==
  ASSUME IndexInv, pc = "done", Ordered, NEW n \in 0 .. size
  PROVE  \E c \in 0 .. Len(t.stco) - 1 :
           /\ Firsts(t)[c] <= n
           /\ n < Firsts(t)[c + 1] \/ c = Len(t.stco) - 1
           /\ samples[n].pos = Base(c) + BytesUpTo(t)[n]
<1> DEFINE F == Firsts(t)
           u == BytesUpTo(t)
           L == Len(t.stco)
           S == {c \in 0 .. L - 1 : F[c] <= n}
<1>1. t \in Tables /\ size = CountOf(t) /\ size \in Nat
  BY SamplesKnown
<1>2. L \in Nat \ {0} /\ Chunks = 0 .. L - 1 /\ L - 1 \in 0 .. L - 1 /\ L - 1 + 1 = L
      /\ 0 \in 0 .. L - 1
  BY TablesKnown
<1>3. F[L] = size /\ \A c \in 0 .. L - 1 : F[c] \in 0 .. size /\ u[F[c]] \in Nat
  BY OrderedChunks
<1>4. Placed(L) /\ F[0] = 0
  BY <1>1, FirstsRise DEF IndexInv, SamplesPlaced
<1>5. u[n] \in Nat
  BY <1>1, BytesRise
<1>6. \A c \in 0 .. L - 1 : t.stco[c + 1] \in Nat
  <2>1. \A c \in 0 .. L - 1 : c + 1 \in 1 .. L
    BY <1>2
  <2> QED BY <1>1, <2>1, ChunksRise
<1>7. ASSUME NEW c \in 0 .. L - 1, samples[n].pos = t.stco[c + 1] + (u[n] - u[F[c]])
      PROVE  samples[n].pos = Base(c) + u[n]
  <2>1. u[F[c]] \in Nat /\ t.stco[c + 1] \in Nat
    BY <1>3, <1>6
  <2>2. Base(c) = t.stco[c + 1] - u[F[c]]
    BY DEF Base
  <2> HIDE DEF u, F, L
  <2> QED BY <1>5, <1>7, <2>1, <2>2
<1>8. CASE n = size
  <2>1. F[L - 1] \in 0 .. size
    BY <1>2, <1>3
  <2>2. UpToChunk(L) = size
    BY <1>1, <1>3 DEF UpToChunk
  <2>3. samples[UpToChunk(L)].pos = t.stco[L]
          + IF UpToChunk(L) < F[L - 1] THEN 0 ELSE u[UpToChunk(L)] - u[F[L - 1]]
    BY DEF IndexInv, SamplesPlaced
  <2>4. ~ size < F[L - 1] /\ F[L - 1] <= size
    BY <1>1, <2>1
  <2>5. samples[n].pos = t.stco[L - 1 + 1] + (u[n] - u[F[L - 1]])
    BY <1>2, <1>8, <2>2, <2>3, <2>4
  <2> QED BY <1>2, <1>7, <1>8, <2>4, <2>5
<1>9. CASE n # size
  <2>1. n \in 0 .. size - 1 /\ n < size /\ 0 <= n
    BY <1>1, <1>9
  <2>2. S # {} /\ S \subseteq 0 .. L /\ L \in Nat
    <3>1. 0 \in S
      BY <1>2, <1>4, <2>1
    <3>2. \A c \in S : c \in 0 .. L
      BY <1>2
    <3> QED BY <1>2, <3>1, <3>2
  <2>3. \E c \in S : \A d \in S : d <= c
    <3> HIDE DEF S, L
    <3> QED BY <2>2, BoundedNatMax
  <2>4. PICK c \in S : \A d \in S : d <= c
    BY <2>3
  <2>5. c \in 0 .. L - 1 /\ F[c] <= n
    BY <2>4
  <2>6. n < F[c + 1]
    <3>1. CASE c = L - 1
      BY <1>2, <1>3, <2>1, <3>1
    <3>2. CASE c # L - 1
      <4>1. c + 1 \in 0 .. L - 1 /\ ~ c + 1 <= c
        BY <1>2, <2>5, <3>2
      <4>2. c + 1 \notin S
        BY <2>4, <4>1
      <4>3. ~ F[c + 1] <= n /\ F[c + 1] \in 0 .. size
        BY <1>3, <4>1, <4>2
      <4> HIDE DEF F, S
      <4> QED BY <1>1, <4>3
    <3> QED BY <3>1, <3>2
  <2>7. c \in Chunks /\ c < L
    BY <1>2, <2>5
  <2>8. samples[n].pos = t.stco[c + 1] + (u[n] - u[F[c]])
    BY <1>4, <2>1, <2>5, <2>6, <2>7 DEF Placed
  <2> QED BY <1>7, <2>5, <2>6, <2>8
<1> QED BY <1>8, <1>9

\* A sample behind another lies behind it by the bytes between them, or more.
LEMMA PlacesRise ==
  ASSUME IndexInv, pc = "done", Ordered, NEW m \in 0 .. size, NEW n \in m .. size
  PROVE  /\ samples[m].pos \in Nat /\ samples[n].pos \in Nat
         /\ BytesUpTo(t)[m] \in Nat /\ BytesUpTo(t)[n] \in Nat
         /\ samples[n].pos >= samples[m].pos + (BytesUpTo(t)[n] - BytesUpTo(t)[m])
<1> DEFINE F == Firsts(t)
           u == BytesUpTo(t)
           L == Len(t.stco)
<1>1. t \in Tables /\ size = CountOf(t) /\ size \in Nat
      /\ \A k \in 0 .. size : samples[k] \in Sample
  BY SamplesKnown
<1>2. n \in 0 .. size /\ m <= n
  BY <1>1
<1>3. samples[m].pos \in Nat /\ samples[n].pos \in Nat
  BY <1>1, <1>2 DEF Sample
<1>4. u[m] \in Nat /\ u[n] \in Nat
  BY <1>1, <1>2, BytesRise
<1>5. PICK c \in 0 .. L - 1 : F[c] <= m /\ samples[m].pos = Base(c) + u[m]
  BY ChunkOfSample
<1>6. PICK d \in 0 .. L - 1 : /\ n < F[d + 1] \/ d = L - 1
                              /\ samples[n].pos = Base(d) + u[n]
  BY <1>2, ChunkOfSample
<1>7. L \in Nat \ {0} /\ c \in 0 .. L /\ d + 1 \in 0 .. L
  BY TablesKnown
<1>8. c <= d
  <2> SUFFICES ASSUME ~ c <= d PROVE FALSE
    OBVIOUS
  <2>1. d + 1 <= c /\ d # L - 1
    BY <1>7
  <2>2. F[d + 1] <= F[c] /\ F[d + 1] \in Nat /\ F[c] \in Nat
    BY <1>1, <1>7, <2>1, FirstsRise
  <2>3. n < F[d + 1]
    BY <1>6, <2>1
  <2>4. F[c] <= m
    BY <1>5
  <2>5. n \in Nat /\ m \in Nat
    BY <1>1, <1>2
  <2> HIDE DEF F, L
  <2> QED BY <1>2, <2>2, <2>3, <2>4, <2>5
<1>9. Base(c) <= Base(d)
  <2>1. d \in c .. L - 1
    BY <1>7, <1>8
  <2> QED BY <2>1, BasesRise
<1>10. Base(c) \in Int /\ Base(d) \in Int
  BY OrderedChunks
<1>11. samples[m].pos = Base(c) + u[m] /\ samples[n].pos = Base(d) + u[n]
  BY <1>5, <1>6
<1> HIDE DEF u, F, L
<1>12. samples[n].pos >= samples[m].pos + (u[n] - u[m])
  BY <1>3, <1>4, <1>9, <1>10, <1>11
<1> QED BY <1>3, <1>4, <1>12 DEF u

\* The bytes of a range are those of its samples.
LEMMA InvRanges == IndexInv => RangeHoldsSamples
<1> SUFFICES ASSUME IndexInv, pc = "done", Ordered,
                    NEW b \in 0 .. size, NEW a \in 0 .. b - 1, NEW n \in a .. b - 1
             PROVE  samples[n].pos .. samples[n].pos + samples[n].size - 1 \subseteq SegmentRange(a, b)
  BY DEF RangeHoldsSamples
<1> DEFINE u == BytesUpTo(t)
<1>1. t \in Tables /\ size = CountOf(t) /\ size \in Nat
      /\ \A m \in 0 .. size - 1 : samples[m].size = SizeIn(t, m)
  BY SamplesKnown
<1>2. /\ a \in 0 .. size /\ n \in a .. size /\ n \in 0 .. size /\ b \in n + 1 .. size
      /\ n \in 0 .. size - 1 /\ n + 1 \in 0 .. size /\ a <= n /\ n + 1 <= b
      /\ b \in n .. size /\ n <= b
  BY <1>1
<1>3. /\ samples[a].pos \in Nat /\ samples[n].pos \in Nat /\ u[a] \in Nat /\ u[n] \in Nat
      /\ samples[n].pos >= samples[a].pos + (u[n] - u[a])
  BY <1>2, PlacesRise
<1>4. samples[b].pos \in Nat /\ u[b] \in Nat
      /\ samples[b].pos >= samples[n].pos + (u[b] - u[n])
  BY <1>2, PlacesRise
<1>5. u[a] <= u[n]
  BY <1>1, <1>2, BytesRise
<1>6. u[n + 1] \in Nat /\ u[n + 1] <= u[b] /\ u[n + 1] = u[n] + SizeIn(t, n)
  BY <1>1, <1>2, BytesRise
<1>7. samples[n].size = SizeIn(t, n) /\ SizeIn(t, n) \in Nat
  BY <1>1, <1>2, BytesRise
<1> HIDE DEF u
<1>8. samples[a].pos <= samples[n].pos
  BY <1>3, <1>5
<1>9. samples[n].pos + samples[n].size <= samples[b].pos
  BY <1>3, <1>4, <1>6, <1>7
<1>10. ASSUME NEW k \in samples[n].pos .. samples[n].pos + samples[n].size - 1
       PROVE  k \in samples[a].pos .. samples[b].pos - 1
  BY <1>3, <1>4, <1>7, <1>8, <1>9
<1> QED BY <1>10 DEF SegmentRange

\* What output_ts reads for a range of samples, from the place of the first up to that of
\* the one behind the last, holds all of them when the chunks lie one behind the other.
THEOREM IndexRangesHold == IndexSpec => []RangeHoldsSamples
<1> QED BY IndexIsRead, InvRanges, PTL

-----------------------------------------------------------------------------
(* Composition offsets.                                                    *)

Ctts == [count : Nat, offset : Nat]

\* The samples that the first k entries of ctts reach up to have their offsets.
OffsetsGiven(k) ==
  \A n \in 0 .. size - 1 :
    n < Sum(Counts(t.ctts), k) => samples[n].cto = RunAt(t.ctts, n).offset
NoOffsets == \A n \in 0 .. size - 1 : samples[n].cto = 0
CoveredTo(k) == IF Sum(Counts(t.ctts), k) <= size THEN Sum(Counts(t.ctts), k) ELSE size

SamplesDelayed ==
  /\ pc = "times" => NoOffsets
  /\ pc = "offsets" =>
       /\ j \in 1 .. Len(t.ctts) + 1 /\ s = CoveredTo(j - 1) /\ OffsetsGiven(j - 1)
       /\ t.ctts = <<>> => cto = 0 /\ NoOffsets
  /\ pc \in {"places", "sync", "done"} =>
       OffsetsGiven(Len(t.ctts)) /\ (t.ctts = <<>> => NoOffsets)

\* What is known of ctts.
LEMMA OffsetsKnown ==
  ASSUME t \in Tables
  PROVE  /\ t.ctts \in Seq(Ctts) /\ \A x \in Ctts : x.count \in Nat
         /\ Len(t.ctts) \in Nat /\ DOMAIN t.ctts = 1 .. Len(t.ctts)
         /\ Counts(t.ctts) \in Seq(Nat) /\ Len(Counts(t.ctts)) = Len(t.ctts)
         /\ \A e \in 1 .. Len(t.ctts) : /\ t.ctts[e].count \in Nat /\ t.ctts[e].offset \in Nat
                                        /\ Counts(t.ctts)[e] = t.ctts[e].count
         /\ t.ctts = <<>> <=> Len(t.ctts) = 0
<1>1. t.ctts \in Seq(Ctts)
  BY TablesAssumption DEF Typed, Ctts
<1>2. \A x \in Ctts : x.count \in Nat /\ x.offset \in Nat
  BY DEF Ctts
<1>3. \A x \in Ctts : x.count \in Nat
  BY <1>2
<1> DEFINE r == t.ctts
<1>4. r \in Seq(Ctts)
  BY <1>1
<1> HIDE DEF r
<1>5. /\ Len(r) \in Nat /\ DOMAIN r = 1 .. Len(r) /\ \A e \in 1 .. Len(r) : r[e] \in Ctts
      /\ Counts(r) \in Seq(Nat) /\ Len(Counts(r)) = Len(r)
      /\ \A e \in 1 .. Len(r) : Counts(r)[e] = r[e].count
  BY <1>3, <1>4, CountsKnown
<1>6. r = <<>> <=> Len(r) = 0
  BY <1>4
<1>7. \A e \in 1 .. Len(r) : r[e].count \in Nat /\ r[e].offset \in Nat
  BY <1>2, <1>5
<1> QED BY <1>2, <1>4, <1>5, <1>6, <1>7 DEF r

\* A step that leaves the offsets, and the tables.
LEMMA DelayKeeps ==
  ASSUME size \in Nat, t' = t, size' = size,
         \A n \in 0 .. size : samples'[n].cto = samples[n].cto
  PROVE  /\ NoOffsets => NoOffsets'
         /\ \A k : OffsetsGiven(k) => \A n \in 0 .. size - 1 :
              n < Sum(Counts(t.ctts), k) => samples'[n].cto = RunAt(t.ctts, n).offset
<1>1. \A n \in 0 .. size - 1 : n \in 0 .. size
  OBVIOUS
<1>2. \A n \in 0 .. size - 1 : samples'[n].cto = samples[n].cto
  BY <1>1
<1> QED BY <1>2 DEF NoOffsets, OffsetsGiven

\* A field that is not cto.
LEMMA CtoKept ==
  ASSUME NEW x \in Sample, NEW y,
         y = x \/ (\E v : y = [x EXCEPT !.pts = v]) \/ (\E v : y = [x EXCEPT !.pos = v])
           \/ y = [x EXCEPT !.is_smooth_ss = TRUE]
  PROVE  y.cto = x.cto
BY DEF Sample

\* The offsets of the samples remain until another table is read.
LEMMA DelayedKept ==
  ASSUME IndexInv, SamplesDelayed, [IndexNext]_indexVars
  PROVE  SamplesDelayed'
<1>1. CASE UNCHANGED indexVars
  BY <1>1 DEF indexVars, SamplesDelayed, OffsetsGiven, NoOffsets, CoveredTo
<1>2. CASE MapChunks \/ Mapped \/ NumberChunk
  BY <1>2 DEF MapChunks, Mapped, NumberChunk, SamplesDelayed
<1>3. CASE Sizes
  <2>1. pc' = "times" /\ samples' = [n \in 0 .. size' |->
       [pts |-> 0, cto |-> 0, pos |-> 0, is_smooth_ss |-> FALSE,
        size |-> IF n = size' THEN 0
                 ELSE IF t.stsz.sample_size = 0 THEN t.stsz.sizes[n + 1]
                 ELSE t.stsz.sample_size]]
    BY <1>3 DEF Sizes
  <2>2. \A n \in 0 .. size' : samples'[n].cto = 0
    BY <2>1
  <2>3. size' \in Nat
    <3>1. IndexInv'
      BY <1>3, SizesKeeps
    <3>2. (size = CountOf(t) /\ t \in Tables)'
      BY <2>1, <3>1 DEF IndexInv, SamplesSized
    <3>3. CountOf(t') \in Nat
      BY <3>2, BytesRise
    <3>4. CountOf(t)' = CountOf(t')
      BY DEF CountOf
    <3> QED BY <3>2, <3>3, <3>4
  <2>4. NoOffsets'
    <3>1. PICK z \in Nat : z = size'
      BY <2>3
    <3>2. \A n \in 0 .. z - 1 : n \in 0 .. z
      OBVIOUS
    <3>3. \A n \in 0 .. size' - 1 : samples'[n].cto = 0
      BY <2>2, <3>1, <3>2
    <3> QED BY <3>3 DEF NoOffsets
  <2> QED BY <2>1, <2>4 DEF SamplesDelayed
<1>4. ASSUME pc \notin {"map", "number"}
      PROVE  /\ t \in Tables /\ size \in Nat /\ DOMAIN samples = 0 .. size
             /\ \A n \in 0 .. size : samples[n] \in Sample
  BY <1>4, SamplesKnown
<1>5. CASE Times
  <2>1. pc = "times" /\ pc' = "times" /\ t' = t /\ size' = size
        /\ samples' = [n \in DOMAIN samples |->
              IF s <= n /\ n < s + t.stts[j].count
              THEN [samples[n] EXCEPT !.pts = pts + (n - s) * t.stts[j].duration] ELSE samples[n]]
    BY <1>5 DEF Times
  <2>2. ASSUME NEW n \in 0 .. size PROVE samples'[n].cto = samples[n].cto
    <3>1. samples'[n] = samples[n] \/ \E v : samples'[n] = [samples[n] EXCEPT !.pts = v]
      BY <1>4, <2>1
    <3> QED BY <1>4, <2>1, <3>1, CtoKept
  <2>3. NoOffsets
    BY <2>1 DEF SamplesDelayed
  <2>4. NoOffsets'
    BY <1>4, <2>1, <2>2, <2>3, DelayKeeps
  <2> QED BY <2>1, <2>4 DEF SamplesDelayed
<1>6. CASE EndTime
  <2>1. pc = "times" /\ pc' = "offsets" /\ t' = t /\ size' = size /\ j' = 1 /\ s' = 0 /\ cto' = 0
        /\ samples' = [samples EXCEPT ![s].pts = pts]
    BY <1>6 DEF EndTime
  <2>2. ASSUME NEW n \in 0 .. size PROVE samples'[n].cto = samples[n].cto
    <3>1. samples'[n] = samples[n] \/ \E v : samples'[n] = [samples[n] EXCEPT !.pts = v]
      BY <1>4, <2>1
    <3> QED BY <1>4, <2>1, <3>1, CtoKept
  <2>3. NoOffsets
    BY <2>1 DEF SamplesDelayed
  <2>4. NoOffsets'
    BY <1>4, <2>1, <2>2, <2>3, DelayKeeps
  <2>5. Sum(Counts(t.ctts), 0) = 0 /\ Len(t.ctts) \in Nat
    BY <1>4, <2>1, OffsetsKnown, SeqSum
  <2>6. OffsetsGiven(0)' /\ CoveredTo(0)' = 0
    <3>1. \A n \in 0 .. size - 1 : ~ n < 0
      BY <1>4, <2>1
    <3> QED BY <1>4, <2>1, <2>5, <3>1 DEF OffsetsGiven, CoveredTo
  <2>7. j' - 1 = 0 /\ j' \in 1 .. Len(t.ctts) + 1
    BY <2>1, <2>5
  <2>8. (s = CoveredTo(j - 1) /\ OffsetsGiven(j - 1))'
    BY <2>1, <2>6, <2>7 DEF OffsetsGiven, CoveredTo
  <2> QED BY <2>1, <2>4, <2>7, <2>8 DEF SamplesDelayed
<1>7. CASE Offsets
  <2> DEFINE w == Counts(t.ctts)
             upto == IF s + t.ctts[j].count > size THEN size ELSE s + t.ctts[j].count
  <2>1. pc = "offsets" /\ pc' = "offsets" /\ t' = t /\ size' = size /\ j' = j + 1 /\ s' = upto
        /\ j \in DOMAIN t.ctts
    BY <1>7 DEF Offsets
  <2>2. samples' = [n \in DOMAIN samples |->
              IF s <= n /\ n < upto THEN [samples[n] EXCEPT !.cto = t.ctts[j].offset] ELSE samples[n]]
    BY <1>7 DEF Offsets
  <2>3. s = CoveredTo(j - 1) /\ OffsetsGiven(j - 1)
    BY <2>1 DEF SamplesDelayed
  <2>4. t \in Tables /\ size \in Nat /\ DOMAIN samples = 0 .. size
        /\ \A n \in 0 .. size : samples[n] \in Sample
    BY <1>4, <2>1
  <2>5. j \in 1 .. Len(t.ctts) /\ w \in Seq(Nat) /\ Len(w) = Len(t.ctts) /\ Len(w) \in Nat
        /\ t.ctts[j].count \in Nat /\ w[j] = t.ctts[j].count /\ t.ctts # <<>>
    <3>1. j \in 1 .. Len(t.ctts) /\ w \in Seq(Nat) /\ Len(w) = Len(t.ctts) /\ Len(w) \in Nat
      BY <2>1, <2>4, OffsetsKnown
    <3>2. t.ctts[j].count \in Nat /\ w[j] = t.ctts[j].count
      BY <2>4, <3>1, OffsetsKnown
    <3>3. Len(t.ctts) # 0
      BY <3>1
    <3>4. t.ctts # <<>>
      BY <2>4, <3>3, OffsetsKnown
    <3> QED BY <3>1, <3>2, <3>4
  <2>6. Sum(w, j) = Sum(w, j - 1) + t.ctts[j].count /\ Sum(w, j) \in Nat /\ Sum(w, j - 1) \in Nat
    <3>1. j \in 0 .. Len(w) /\ j - 1 \in 0 .. Len(w) /\ j \in 1 .. Len(w)
      BY <2>5
    <3> QED BY <2>5, <3>1, SeqSum
  <2>7. CoveredTo(j) = upto
    <3>1. s = IF Sum(w, j - 1) <= size THEN Sum(w, j - 1) ELSE size
      BY <2>3 DEF CoveredTo
    <3>2. CoveredTo(j) = IF Sum(w, j) <= size THEN Sum(w, j) ELSE size
      BY DEF CoveredTo
    <3> HIDE DEF w
    <3> QED BY <2>4, <2>5, <2>6, <3>1, <3>2
  <2>8. ASSUME NEW n \in 0 .. size - 1, n < Sum(w, j)
        PROVE  samples'[n].cto = RunAt(t.ctts, n).offset
    <3>0. n \in 0 .. size /\ n < size /\ n \in Nat
      BY <2>4
    <3>1. CASE n < Sum(w, j - 1)
      <4>1. samples[n].cto = RunAt(t.ctts, n).offset
        BY <2>3, <3>1 DEF OffsetsGiven
      <4>2. ~ s <= n
        <5>1. s = IF Sum(w, j - 1) <= size THEN Sum(w, j - 1) ELSE size
          BY <2>3 DEF CoveredTo
        <5> HIDE DEF w
        <5> QED BY <2>4, <2>6, <3>0, <3>1, <5>1
      <4>3. samples'[n] = samples[n]
        BY <2>2, <2>4, <3>0, <4>2
      <4> QED BY <4>1, <4>3
    <3>2. CASE Sum(w, j - 1) <= n
      <4>1. FirstBeyond(w, n) = j
        BY <2>5, <2>8, <3>0, <3>2, EntryIs
      <4>2. RunAt(t.ctts, n) = t.ctts[j]
        BY <4>1 DEF RunAt
      <4>3. s <= n /\ n < upto
        <5>1. s = IF Sum(w, j - 1) <= size THEN Sum(w, j - 1) ELSE size
          BY <2>3 DEF CoveredTo
        <5>2. upto = IF Sum(w, j) <= size THEN Sum(w, j) ELSE size
          BY <2>7 DEF CoveredTo
        <5> HIDE DEF w, upto
        <5> QED BY <2>4, <2>6, <2>8, <3>0, <3>2, <5>1, <5>2
      <4>4. samples'[n] = [samples[n] EXCEPT !.cto = t.ctts[j].offset]
        BY <2>2, <2>4, <3>0, <4>3
      <4>5. samples[n] \in Sample
        BY <2>4, <3>0
      <4>6. \A x \in Sample : \A v : [x EXCEPT !.cto = v].cto = v
        BY DEF Sample
      <4> QED BY <4>2, <4>4, <4>5, <4>6
    <3> QED BY <2>6, <3>0, <3>1, <3>2
  <2>9. j' - 1 = j /\ j' \in 1 .. Len(t.ctts) + 1
    BY <2>1, <2>5
  <2>10. OffsetsGiven(j - 1)' /\ (s = CoveredTo(j - 1))'
    <3>1. \A n \in 0 .. size' - 1 :
            n < Sum(Counts(t'.ctts), j' - 1) => samples'[n].cto = RunAt(t'.ctts, n).offset
      BY <2>1, <2>8, <2>9
    <3>2. OffsetsGiven(j - 1)'
      BY <3>1 DEF OffsetsGiven
    <3>3. s' = IF Sum(Counts(t'.ctts), j' - 1) <= size' THEN Sum(Counts(t'.ctts), j' - 1) ELSE size'
      BY <2>1, <2>7, <2>9 DEF CoveredTo
    <3> QED BY <3>2, <3>3 DEF CoveredTo
  <2> QED BY <2>1, <2>5, <2>9, <2>10 DEF SamplesDelayed
<1>8. CASE EndOffset
  <2>1. pc = "offsets" /\ pc' = "places" /\ t' = t /\ size' = size /\ j \notin DOMAIN t.ctts
        /\ samples' = [samples EXCEPT ![s].cto = cto]
    BY <1>8 DEF EndOffset
  <2>2. s = CoveredTo(j - 1) /\ OffsetsGiven(j - 1) /\ j \in 1 .. Len(t.ctts) + 1
        /\ (t.ctts = <<>> => cto = 0 /\ NoOffsets)
    BY <2>1 DEF SamplesDelayed
  <2>3. t \in Tables /\ size \in Nat /\ DOMAIN samples = 0 .. size
        /\ \A n \in 0 .. size : samples[n] \in Sample
    BY <1>4, <2>1
  <2>4. j = Len(t.ctts) + 1 /\ j - 1 = Len(t.ctts) /\ Len(t.ctts) \in Nat
    BY <2>1, <2>2, <2>3, OffsetsKnown
  <2>5. OffsetsGiven(Len(t.ctts)) /\ s = CoveredTo(Len(t.ctts))
    BY <2>2, <2>4
  <2> DEFINE w == Counts(t.ctts)
             L == Len(t.ctts)
  <2>6. Sum(w, L) \in Nat
    <3>1. w \in Seq(Nat) /\ Len(w) = L /\ L \in 0 .. L
      BY <2>3, OffsetsKnown
    <3> QED BY <3>1, SeqSum
  <2>7. ASSUME NEW n \in 0 .. size - 1, n < Sum(w, L) PROVE samples'[n].cto = RunAt(t.ctts, n).offset
    <3>1. n \in 0 .. size /\ n < size /\ n \in Nat
      BY <2>3
    <3>2. s = IF Sum(w, L) <= size THEN Sum(w, L) ELSE size
      BY <2>5 DEF CoveredTo
    <3>3. n # s
      <4> HIDE DEF w, L
      <4> QED BY <2>3, <2>6, <2>7, <3>1, <3>2
    <3>4. samples'[n] = samples[n]
      BY <2>1, <2>3, <3>1, <3>3
    <3> QED BY <2>5, <2>7, <3>4 DEF OffsetsGiven
  <2>8. ASSUME t.ctts = <<>>, NEW n \in 0 .. size - 1 PROVE samples'[n].cto = 0
    <3>1. n \in 0 .. size /\ samples[n] \in Sample
      BY <2>3
    <3>2. cto = 0 /\ samples[n].cto = 0
      BY <2>2, <2>8 DEF NoOffsets
    <3>3. samples'[n] = samples[n] \/ samples'[n] = [samples[n] EXCEPT !.cto = cto]
      BY <2>1, <2>3, <3>1
    <3>4. \A x \in Sample : \A v : [x EXCEPT !.cto = v].cto = v
      BY DEF Sample
    <3>5. [samples[n] EXCEPT !.cto = cto].cto = cto
      BY <3>1, <3>4
    <3> QED BY <3>2, <3>3, <3>5
  <2>9. OffsetsGiven(Len(t.ctts))'
    BY <2>1, <2>7 DEF OffsetsGiven
  <2>10. (t.ctts = <<>> => NoOffsets)'
    BY <2>1, <2>8 DEF NoOffsets
  <2> QED BY <2>1, <2>9, <2>10 DEF SamplesDelayed
<1>9. CASE Places \/ EndPlace \/ Sync
  <2>1. pc \in {"places", "sync"} /\ pc' \in {"places", "sync", "done"} /\ t' = t /\ size' = size
    BY <1>9 DEF Places, EndPlace, Sync
  <2>2. t \in Tables /\ size \in Nat /\ DOMAIN samples = 0 .. size
        /\ \A n \in 0 .. size : samples[n] \in Sample
    BY <1>4, <2>1
  <2>3. ASSUME NEW n \in 0 .. size PROVE samples'[n].cto = samples[n].cto
    <3>0. samples[n] \in Sample
      BY <2>2
    <3>1. CASE Places
      <4>1. samples'[n] = samples[n] \/ \E v : samples'[n] = [samples[n] EXCEPT !.pos = v]
        BY <2>2, <3>1 DEF Places
      <4> QED BY <3>0, <4>1, CtoKept
    <3>2. CASE EndPlace
      <4>1. samples'[n] = samples[n] \/ \E v : samples'[n] = [samples[n] EXCEPT !.pos = v]
        BY <2>2, <3>2 DEF EndPlace
      <4> QED BY <3>0, <4>1, CtoKept
    <3>3. CASE Sync
      <4>1. samples'[n] = samples[n] \/ samples'[n] = [samples[n] EXCEPT !.is_smooth_ss = TRUE]
        BY <2>2, <3>3 DEF Sync
      <4> QED BY <3>0, <4>1, CtoKept
    <3> QED BY <1>9, <3>1, <3>2, <3>3
  <2>4. OffsetsGiven(Len(t.ctts)) /\ (t.ctts = <<>> => NoOffsets)
    BY <2>1 DEF SamplesDelayed
  <2>5. OffsetsGiven(Len(t.ctts))'
    BY <2>1, <2>2, <2>3, <2>4, DelayKeeps DEF OffsetsGiven
  <2>6. (t.ctts = <<>> => NoOffsets)'
    BY <2>1, <2>2, <2>3, <2>4, DelayKeeps
  <2>7. pc' # "times" /\ pc' # "offsets"
    BY <2>1
  <2> QED BY <2>1, <2>5, <2>6, <2>7 DEF SamplesDelayed
<1> QED BY <1>1, <1>2, <1>3, <1>5, <1>6, <1>7, <1>8, <1>9 DEF IndexNext

(* The track that is cropped, and the request.                             *)

Asked ==
  /\ IndexInv /\ SamplesDelayed /\ pc = "done" /\ Croppable
  /\ start \in Nat /\ mp4_length \in Nat /\ samples[size].pts > Ticks(start)

SampleTime == [k \in 0 .. size |-> samples[k].pts]

\* The times of the samples are those of stts.
LEMMA IndexTimes ==
  ASSUME IndexInv, pc = "done", Croppable
  PROVE  /\ t \in Tables /\ size \in Nat \ {0} /\ t.stts \in Seq(Run) /\ Total(t.stts) = size
         /\ Elapses(SampleTime, t.stts)
         /\ \A n \in 0 .. size : samples[n] \in Sample
<1> DEFINE x == t
           r == x.stts
           w == Counts(r)
           D == DurationsOf(x)
           C == CountedTo(x)
           P == Pts(D)
<1>1. x \in Tables /\ size \in Nat /\ size # 0 /\ \A n \in 0 .. size : samples[n] \in Sample
  <2>1. size > 0
    BY DEF Croppable
  <2> QED BY <2>1, SamplesKnown
<1>2. r \in Seq(Run)
  BY <1>1, TablesAssumption DEF Typed, Run
<1>3. /\ Len(r) \in Nat /\ w \in Seq(Nat) /\ Len(w) = Len(r)
      /\ \A e \in 1 .. Len(r) : r[e].count \in Nat /\ w[e] = r[e].count
      /\ Total(r) = Sum(w, Len(w)) /\ Total(r) \in Nat
  <2> HIDE DEF r
  <2> QED BY <1>2, RunsKnown
<1>4. Sum(w, Len(r)) = size
  BY DEF Croppable
<1>5. /\ C[0] = 0 /\ \A e \in 1 .. Len(r) : C[e] = C[e - 1] + r[e].count
  BY <1>1, CountedRises
<1>6. /\ D \in Seq(Nat) /\ Len(D) = C[Len(r)]
      /\ \A e \in 1 .. Len(r) : \A n \in 1 .. r[e].count : D[C[e - 1] + n] = r[e].duration
  BY <1>1, DurationsAre
<1>7. \A n \in 0 .. size : n <= Len(D) => samples[n].pts = P[n]
  BY DEF IndexInv, SamplesTimed
<1>8. \A k : RunAt(r, k) = r[FirstBeyond(w, k)]
  BY DEF RunAt
<1> HIDE DEF x, r, w, D, C
<1>9. \A e \in 0 .. Len(r) : C[e] = Sum(w, e)
  <2> DEFINE S == {e \in 0 .. Len(r) : C[e] = Sum(w, e)}
  <2>1. 0 \in S
    BY <1>3, <1>5, SeqSum
  <2>2. ASSUME NEW d \in 0 .. Len(r) - 1, d \in S PROVE d + 1 \in S
    <3>1. PICK e : e = d + 1
      OBVIOUS
    <3>2. e \in 1 .. Len(r) /\ e - 1 = d /\ e \in 0 .. Len(r)
      BY <1>3, <3>1
    <3>3. Sum(w, e) = Sum(w, e - 1) + w[e]
      BY <1>3, <3>2, SeqSum
    <3>4. C[e] = Sum(w, e)
      BY <1>3, <1>5, <2>2, <3>2, <3>3
    <3> QED BY <3>1, <3>2, <3>4
  <2>3. 0 .. Len(r) \subseteq S
    <3> HIDE DEF S
    <3> QED BY <1>3, <2>1, <2>2, UpTo
  <2> QED BY <2>3
<1>10. Len(D) = size
  <2>1. Len(r) \in 0 .. Len(r)
    BY <1>3
  <2> QED BY <1>4, <1>6, <1>9, <2>1
<1>11. P[0] = 0 /\ (\A n \in 0 .. size : P[n] \in Nat) /\ \A n \in 0 .. size - 1 : P[n + 1] = P[n] + D[n + 1]
  BY <1>6, <1>10, PtsAre
<1> HIDE DEF P
<1>12. ASSUME NEW k \in 0 .. size - 1 PROVE D[k + 1] = RunAt(r, k).duration
  <2>1. k \in Nat /\ k < Sum(w, Len(w))
    BY <1>1, <1>3, <1>4
  <2>2. PICK e : e = FirstBeyond(w, k)
    OBVIOUS
  <2>3. e \in 1 .. Len(r) /\ Sum(w, e - 1) <= k /\ k < Sum(w, e)
    BY <1>3, <2>1, <2>2, EntryFound
  <2>4. Sum(w, e) = Sum(w, e - 1) + r[e].count /\ Sum(w, e - 1) \in Nat /\ C[e - 1] = Sum(w, e - 1)
        /\ r[e].count \in Nat
    <3>1. e - 1 \in 0 .. Len(r) /\ e \in 1 .. Len(w) /\ e - 1 \in 0 .. Len(w)
      BY <1>3, <2>3
    <3>2. Sum(w, e) = Sum(w, e - 1) + w[e] /\ Sum(w, e - 1) \in Nat
      BY <1>3, <3>1, SeqSum
    <3> QED BY <1>3, <1>9, <2>3, <3>1, <3>2
  <2>5. PICK n \in 1 .. r[e].count : k + 1 = Sum(w, e - 1) + n
    <3>1. k + 1 - Sum(w, e - 1) \in 1 .. r[e].count /\ k + 1 = Sum(w, e - 1) + (k + 1 - Sum(w, e - 1))
      BY <2>1, <2>3, <2>4
    <3> QED BY <3>1
  <2>6. D[k + 1] = r[e].duration
    BY <1>6, <2>3, <2>4, <2>5
  <2> QED BY <1>8, <2>2, <2>6
<1>13. Elapses(SampleTime, r)
  <2> DEFINE v == [k \in 0 .. size - 1 |-> RunAt(r, k).duration]
             f == SampleTime
  <2>1. ASSUME NEW n \in 0 .. size PROVE f[n] = P[n] /\ P[n] \in Nat
    <3>1. n <= size
      BY <1>1
    <3> QED BY <1>7, <1>10, <1>11, <3>1 DEF SampleTime
  <2>2. f \in [0 .. size -> Nat]
    <3>1. f = [n \in 0 .. size |-> f[n]]
      BY DEF SampleTime
    <3> HIDE DEF f
    <3> QED BY <2>1, <3>1
  <2>3. 0 \in 0 .. size /\ \A n \in 0 .. size - 1 : n \in 0 .. size /\ n + 1 \in 0 .. size
    BY <1>1
  <2>4. \A n \in 0 .. size - 1 : f[n + 1] = f[n] + v[n]
    <3> HIDE DEF f
    <3> SUFFICES ASSUME NEW n \in 0 .. size - 1 PROVE f[n + 1] = f[n] + v[n]
      OBVIOUS
    <3>1. v[n] = D[n + 1]
      BY <1>12
    <3>2. f[n + 1] = P[n + 1] /\ f[n] = P[n] /\ P[n + 1] = P[n] + D[n + 1]
      BY <1>11, <2>1, <2>3
    <3> QED BY <3>1, <3>2
  <2>5. f[0] = 0
    BY <1>11, <2>1, <2>3
  <2> HIDE DEF f, v
  <2>6. SumsUp(f, v, size)
    BY <2>2, <2>4, <2>5 DEF SumsUp
  <2>7. Total(r) = size
    BY <1>3, <1>4
  <2> QED BY <2>6, <2>7 DEF Elapses, f, v
<1> QED BY <1>1, <1>2, <1>3, <1>4, <1>13 DEF x, r

\* What is left of a table has the times that are left.
LEMMA LeftTimes ==
  ASSUME NEW r \in Seq(Run), NEW P, Elapses(P, r), NEW n \in 0 .. Total(r), NEW q \in Seq(Run),
         Total(q) = Total(r) - n,
         \A k \in 0 .. Total(r) - n - 1 : RunAt(q, k).duration = RunAt(r, n + k).duration
  PROVE  Elapses([k \in 0 .. Total(r) - n |-> P[n + k] - P[n]], q)
<1> DEFINE N == Total(r)
           f == [k \in 0 .. N - n |-> P[n + k] - P[n]]
           v == [k \in 0 .. Total(q) - 1 |-> RunAt(q, k).duration]
<1>1. N \in Nat /\ n \in 0 .. N /\ Total(q) = N - n /\ N - n \in Nat
  <2>1. N \in Nat
    BY RunsKnown
  <2> QED BY <2>1
<1>2. /\ \A k \in 0 .. N : P[k] \in Nat
      /\ \A k \in 0 .. N - 1 : P[k + 1] = P[k] + RunAt(r, k).duration
      /\ \A k, m \in 0 .. N : k <= m => P[k] <= P[m]
  BY ElapsesKnown
<1>3. \A k \in 0 .. N - n - 1 : RunAt(q, k).duration = RunAt(r, n + k).duration
  OBVIOUS
<1> HIDE DEF N
<1>4. ASSUME NEW k \in 0 .. N - n PROVE f[k] = P[n + k] - P[n] /\ f[k] \in Nat
  <2>1. n + k \in 0 .. N /\ n <= n + k
    BY <1>1
  <2>2. P[n + k] \in Nat /\ P[n] \in Nat /\ P[n] <= P[n + k]
    BY <1>1, <1>2, <2>1
  <2> QED BY <2>2
<1>5. f \in [0 .. N - n -> Nat]
  <2>1. f = [k \in 0 .. N - n |-> f[k]]
    OBVIOUS
  <2> HIDE DEF f
  <2> QED BY <1>4, <2>1
<1>6. f[0] = 0
  <2>1. 0 \in 0 .. N - n /\ n + 0 = n /\ P[n] \in Nat
    BY <1>1, <1>2
  <2> QED BY <1>4, <2>1
<1>7. ASSUME NEW k \in 0 .. N - n - 1 PROVE f[k + 1] = f[k] + v[k]
  <2>1. k \in 0 .. N - n /\ k + 1 \in 0 .. N - n /\ n + k \in 0 .. N - 1 /\ n + (k + 1) = n + k + 1
        /\ n + k \in 0 .. N /\ n + k + 1 \in 0 .. N
    BY <1>1
  <2>2. v[k] = RunAt(r, n + k).duration
    BY <1>1, <1>3
  <2>3. P[n + k + 1] = P[n + k] + RunAt(r, n + k).duration /\ P[n + k] \in Nat /\ P[n] \in Nat
        /\ P[n + k + 1] \in Nat
    BY <1>1, <1>2, <2>1
  <2>4. f[k + 1] = P[n + k + 1] - P[n] /\ f[k] = P[n + k] - P[n] /\ f[k] \in Nat
    BY <1>4, <2>1
  <2> QED
    <3> DEFINE a == RunAt(r, n + k).duration
               b == P[n + k]
               c == P[n + k + 1]
               d == P[n]
    <3>1. v[k] = a /\ c = b + a /\ b \in Nat /\ d \in Nat /\ c \in Nat /\ f[k + 1] = c - d /\ f[k] = b - d
      BY <2>2, <2>3, <2>4
    <3>2. a \in Nat
      <4>1. N = Total(r) /\ r \in Seq(Run)
        BY DEF N
      <4>2. FirstBeyond(Counts(r), n + k) \in 1 .. Len(r)
        <5>1. n + k \in Nat /\ n + k < N
          BY <1>1
        <5> QED BY <4>1, <5>1, RunsKnown, EntryFound
      <4>3. r[FirstBeyond(Counts(r), n + k)].duration \in Nat
        BY <4>2, RunsKnown
      <4> QED BY <4>3 DEF RunAt
    <3> HIDE DEF a, b, c, d, f, v
    <3> QED BY <3>1, <3>2
<1> HIDE DEF f, v
<1>8. SumsUp(f, v, N - n)
  BY <1>5, <1>6, <1>7 DEF SumsUp
<1> QED BY <1>1, <1>8 DEF Elapses, f, v, N

(* The tables of the track, as they are cropped one after the other.       *)

Fields == {"stts", "stss", "ctts", "stsc", "stsc_start", "stsc_end", "sample_to_chunk_entries",
  "stsz", "stco", "chunks", "size", "start_sample", "end_sample", "start_chunk", "end_chunk",
  "start_chunk_samples", "end_chunk_samples", "start_chunk_samples_size", "end_chunk_samples_size",
  "start_offset", "end_offset"}

\* Two tracks are alike, but for the fields of S.
Keeps(x, y, S) == DOMAIN x = Fields /\ DOMAIN y = Fields /\ \A f \in Fields \ S : y[f] = x[f]

\* The track that is read has all fields.
LEMMA ReadFields == DOMAIN ReadTrak = Fields
BY DEF ReadTrak, Fields

\* When a sum is divided, the quotient counts.
LEMMA TicksKnown == ASSUME NEW ms \in Nat PROVE Ticks(ms) \in Nat
<1>1. timescale \in Nat
  BY CropAssumption
<1>2. PICK a : a = ms * timescale
  OBVIOUS
<1>3. a \in Nat
  BY <1>1, <1>2
<1>4. a \div 1000 \in Nat
  BY <1>3, SMTT(20)
<1> QED BY <1>2, <1>4 DEF Ticks

\* The sample at start is found in stts.
LEMMA FirstFound ==
  ASSUME Asked, NEW e, e = FirstBeyond(Spans(t.stts), Ticks(start)),
         NEW n, n = Sum(Counts(t.stts), e - 1)
                      + (Ticks(start) - Sum(Spans(t.stts), e - 1)) \div t.stts[e].duration
  PROVE  /\ e \in 1 .. Len(t.stts) /\ e \in DOMAIN t.stts
         /\ n = FirstSample /\ n \in 0 .. size - 1
         /\ Sum(Counts(t.stts), e - 1) <= n /\ n < Sum(Counts(t.stts), e)
         /\ samples[n].pts <= Ticks(start)
<1> DEFINE r == t.stts
           at == Ticks(start)
           P == SampleTime
<1>1. /\ t \in Tables /\ size \in Nat \ {0} /\ r \in Seq(Run) /\ Total(r) = size
      /\ Elapses(P, r)
  BY IndexTimes DEF Asked
<1>2. at \in Nat
  BY TicksKnown DEF Asked
<1>3. \A k \in 0 .. size : P[k] = samples[k].pts
  BY DEF SampleTime
<1>4. P[size] > at
  <2>1. size \in 0 .. size
    BY <1>1
  <2> QED BY <1>3, <2>1 DEF Asked
<1> HIDE DEF r, at, P
<1>5. /\ Len(r) \in Nat /\ DOMAIN r = 1 .. Len(r) /\ Spans(r) \in Seq(Nat) /\ Len(Spans(r)) = Len(r)
      /\ Counts(r) \in Seq(Nat) /\ Len(Counts(r)) = Len(r)
      /\ Total(r) = Sum(Counts(r), Len(Counts(r)))
  BY <1>1, RunsKnown
<1>6. Sum(Spans(r), Len(r)) = P[size]
  <2>1. Len(r) \in 0 .. Len(r)
    BY <1>5
  <2>2. Sum(Spans(r), Len(r)) = P[Sum(Counts(r), Len(r))]
    BY <1>1, <2>1, RunTimes
  <2> QED BY <1>1, <1>5, <2>2
<1>7. /\ P[0] = 0 /\ \A k \in 0 .. size : P[k] \in Nat
      /\ \A k, m \in 0 .. size : k <= m => P[k] <= P[m]
  BY <1>1, ElapsesKnown
<1>8. e = FirstBeyond(Spans(r), at) /\ e \in 1 .. Len(r)
  <2>1. e = FirstBeyond(Spans(r), at)
    BY DEF r, at
  <2>2. at < Sum(Spans(r), Len(Spans(r)))
    <3>1. size \in 0 .. size
      BY <1>1
    <3>2. P[size] \in Nat
      BY <1>7, <3>1
    <3> QED BY <1>2, <1>4, <1>5, <1>6, <3>2
  <2> QED BY <1>2, <1>5, <2>1, <2>2, EntryFound
<1>9. n = Sum(Counts(r), e - 1) + (at - Sum(Spans(r), e - 1)) \div r[e].duration
  BY DEF r, at
<1>10. /\ n \in 0 .. Total(r) - 1 /\ P[n] <= at /\ at < P[n + 1]
       /\ Sum(Counts(r), e - 1) <= n /\ n < Sum(Counts(r), e)
  BY <1>1, <1>2, <1>8, <1>9, PositionIs
<1>11. n \in 0 .. size - 1 /\ n \in 0 .. size /\ n + 1 \in 0 .. size
  BY <1>1, <1>10
<1>12. FirstSample = n
  <2> DEFINE S == {m \in 0 .. size - 1 : samples[m].pts <= at}
  <2>1. \A m \in 0 .. size - 1 : m \in 0 .. size
    BY <1>1
  <2>2. n \in S
    BY <1>3, <1>10, <1>11
  <2>3. ASSUME NEW m \in S PROVE m <= n
    <3>1. m \in 0 .. size - 1 /\ m \in 0 .. size /\ P[m] <= at
      BY <1>3, <2>1
    <3> SUFFICES ASSUME ~ m <= n PROVE FALSE
      OBVIOUS
    <3>2. n + 1 <= m
      BY <1>11, <3>1
    <3>3. P[n + 1] <= P[m] /\ P[n + 1] \in Nat /\ P[m] \in Nat
      BY <1>7, <1>11, <3>1, <3>2
    <3> QED BY <1>2, <1>10, <3>1, <3>3
  <2>4. S \subseteq Nat
    BY <1>1
  <2> HIDE DEF S
  <2>5. Max(S) = n
    BY <2>2, <2>3, <2>4, MaxIs
  <2> QED BY <2>5 DEF FirstSample, S, at
<1> QED BY <1>3, <1>5, <1>8, <1>10, <1>11, <1>12 DEF r, at

\* The last sample that is not later than the length, in what is left from the first on.
LEMMA EndIs ==
  ASSUME Asked, mp4_length # 0, NEW n \in FirstSample .. size,
         samples[n].pts - samples[FirstSample].pts <= Ticks(mp4_length),
         n = size \/ samples[n + 1].pts - samples[FirstSample].pts > Ticks(mp4_length)
  PROVE  EndSample = n
<1> DEFINE P == SampleTime
           F == FirstSample
           at == Ticks(mp4_length)
           S == {m \in 0 .. size : m >= F /\ samples[m].pts - samples[F].pts <= at}
<1>1. /\ t \in Tables /\ size \in Nat \ {0} /\ t.stts \in Seq(Run) /\ Total(t.stts) = size
      /\ Elapses(P, t.stts)
  BY IndexTimes DEF Asked
<1>2. at \in Nat
  BY TicksKnown DEF Asked
<1>3. \A k \in 0 .. size : P[k] = samples[k].pts
  BY DEF SampleTime
<1>4. F \in 0 .. size - 1 /\ F \in 0 .. size
  <2>1. F \in 0 .. size - 1
    BY FirstFound
  <2> QED BY <1>1, <2>1
<1>5. n \in 0 .. size /\ F <= n
  BY <1>1, <1>4
<1>6. samples[n].pts - samples[F].pts <= at
      /\ (n = size \/ samples[n + 1].pts - samples[F].pts > at)
  OBVIOUS
<1>7. EndSample = Max(S)
  BY DEF Asked, EndSample
<1> HIDE DEF F, at, P
<1>8. /\ \A k \in 0 .. size : P[k] \in Nat
      /\ \A k, m \in 0 .. size : k <= m => P[k] <= P[m]
  BY <1>1, ElapsesKnown
<1>9. n \in S /\ S \subseteq Nat
  BY <1>5, <1>6
<1>10. ASSUME NEW m \in S PROVE m <= n
  <2>1. m \in 0 .. size /\ samples[m].pts - samples[F].pts <= at
    OBVIOUS
  <2> SUFFICES ASSUME ~ m <= n PROVE FALSE
    OBVIOUS
  <2>2. n # size /\ n + 1 <= m /\ n + 1 \in 0 .. size
    BY <1>1, <1>5, <2>1
  <2>3. P[n + 1] <= P[m] /\ P[n + 1] \in Nat /\ P[m] \in Nat /\ P[F] \in Nat
    BY <1>4, <1>8, <2>1, <2>2
  <2>4. P[m] = samples[m].pts /\ P[n + 1] = samples[n + 1].pts /\ P[F] = samples[F].pts
    BY <1>3, <1>4, <2>1, <2>2
  <2>5. P[m] - P[F] <= at /\ P[n + 1] - P[F] > at
    BY <1>6, <2>1, <2>2, <2>4
  <2> QED BY <1>2, <2>3, <2>5
<1> HIDE DEF S
<1>11. Max(S) = n
  BY <1>9, <1>10, MaxIs
<1> QED BY <1>7, <1>11

\* The end, in the table that is left.
LEMMA EndFound ==
  ASSUME Asked, mp4_length # 0, NEW q \in Seq(Run), Total(q) = size - FirstSample,
         Elapses([k \in 0 .. size - FirstSample |->
                    SampleTime[FirstSample + k] - SampleTime[FirstSample]], q),
         NEW e, e = FirstBeyond(Spans(q), Ticks(mp4_length)),
         NEW n, n = Sum(Counts(q), e - 1)
                      + (Ticks(mp4_length) - Sum(Spans(q), e - 1)) \div q[e].duration
  PROVE  /\ e \in 1 .. Len(q) + 1
         /\ e > Len(q) => EndSample = size
         /\ e <= Len(q) => /\ EndSample = FirstSample + n /\ n \in 0 .. Total(q) - 1
                           /\ Sum(Counts(q), e - 1) <= n /\ n < Sum(Counts(q), e)
<1> DEFINE at == Ticks(mp4_length)
           F == FirstSample
           P == SampleTime
           G == [k \in 0 .. size - F |-> P[F + k] - P[F]]
<1>1. at \in Nat
  BY TicksKnown DEF Asked
<1>2. size \in Nat \ {0} /\ Elapses(P, t.stts) /\ t.stts \in Seq(Run) /\ Total(t.stts) = size
  BY IndexTimes DEF Asked
<1>3. F \in 0 .. size - 1
  BY FirstFound
<1>4. Total(q) = size - F /\ Elapses(G, q)
  OBVIOUS
<1>5. \A k \in 0 .. size : P[k] = samples[k].pts
  BY DEF SampleTime
<1>6. e = FirstBeyond(Spans(q), at)
      /\ n = Sum(Counts(q), e - 1) + (at - Sum(Spans(q), e - 1)) \div q[e].duration
  OBVIOUS
<1>7. \A m \in F .. size : (samples[m].pts - samples[F].pts <= at
          /\ (m = size \/ samples[m + 1].pts - samples[F].pts > at)) => EndSample = m
  BY EndIs
<1>8. \A k \in 0 .. size - F : G[k] = P[F + k] - P[F]
  OBVIOUS
<1> HIDE DEF at, F, P, G
<1>9. \A k \in 0 .. size - F : G[k] = samples[F + k].pts - samples[F].pts
  <2> SUFFICES ASSUME NEW k \in 0 .. size - F PROVE G[k] = samples[F + k].pts - samples[F].pts
    OBVIOUS
  <2>1. F + k \in 0 .. size /\ F \in 0 .. size
    BY <1>2, <1>3
  <2> QED BY <1>5, <1>8, <2>1
<1>10. /\ Len(q) \in Nat /\ Spans(q) \in Seq(Nat) /\ Len(Spans(q)) = Len(q)
       /\ Counts(q) \in Seq(Nat) /\ Len(Counts(q)) = Len(q)
       /\ Total(q) = Sum(Counts(q), Len(Counts(q))) /\ Total(q) \in Nat
  BY RunsKnown
<1>11. e \in 1 .. Len(q) + 1 /\ (e = Len(q) + 1 <=> Sum(Spans(q), Len(q)) <= at)
  BY <1>1, <1>6, <1>10, EntryFound
<1>12. ASSUME e > Len(q) PROVE EndSample = size
  <2>1. e = Len(q) + 1
    BY <1>10, <1>11, <1>12
  <2>2. Len(q) \in 0 .. Len(q)
    BY <1>10
  <2>3. Sum(Spans(q), Len(q)) = G[Total(q)]
    BY <1>4, <1>10, <2>2, RunTimes
  <2>4. size - F \in 0 .. size - F /\ F + (size - F) = size
    BY <1>2, <1>3
  <2>5. samples[size].pts - samples[F].pts <= at
    BY <1>4, <1>9, <1>11, <2>1, <2>3, <2>4
  <2>6. size \in F .. size
    BY <1>2, <1>3
  <2> QED BY <1>7, <2>5, <2>6
<1>13. ASSUME e <= Len(q)
       PROVE  /\ EndSample = F + n /\ n \in 0 .. Total(q) - 1
              /\ Sum(Counts(q), e - 1) <= n /\ n < Sum(Counts(q), e)
  <2>1. e \in 1 .. Len(q)
    BY <1>10, <1>11, <1>13
  <2>2. /\ n \in 0 .. Total(q) - 1 /\ G[n] <= at /\ at < G[n + 1]
        /\ Sum(Counts(q), e - 1) <= n /\ n < Sum(Counts(q), e)
    BY <1>1, <1>4, <1>6, <2>1, PositionIs
  <2>3. n \in 0 .. size - F /\ n + 1 \in 0 .. size - F /\ F + n \in F .. size /\ F + (n + 1) = F + n + 1
    BY <1>2, <1>3, <1>4, <2>2
  <2>4. G[n] = samples[F + n].pts - samples[F].pts
        /\ G[n + 1] = samples[F + n + 1].pts - samples[F].pts
    BY <1>9, <2>3
  <2>5. G[n + 1] \in Nat
    <3>1. n + 1 \in 0 .. Total(q)
      BY <1>4, <2>3
    <3> QED BY <1>4, <3>1, ElapsesKnown
  <2>6. G[n + 1] > at
    BY <1>1, <2>2, <2>5
  <2>7. samples[F + n].pts - samples[F].pts <= at /\ samples[F + n + 1].pts - samples[F].pts > at
    BY <2>2, <2>4, <2>6
  <2>8. EndSample = F + n
    BY <1>7, <2>3, <2>7
  <2> QED BY <2>2, <2>8
<1> QED BY <1>11, <1>12, <1>13 DEF F

SttsCropped(x) == LET y == EndOfStts(StartOfStts(x)) IN Sized(y, 16, 8, Len(y.stts))

\* The durations of the samples from FirstSample up to n.
TimesFrom(r, n) ==
  /\ r \in Seq(Run) /\ Total(r) = n - FirstSample
  /\ \A k \in 0 .. n - FirstSample - 1 :
       RunAt(r, k).duration = samples[FirstSample + k + 1].pts - samples[FirstSample + k].pts

\* What Asked says of the numbers of the samples.
LEMMA RangeKnown ==
  ASSUME Asked
  PROVE  /\ size \in Nat \ {0} /\ FirstSample \in 0 .. size - 1
         /\ mp4_length = 0 => EndSample = size
         /\ mp4_length \in Nat
<1>1. size \in Nat \ {0} /\ FirstSample \in 0 .. size - 1
  BY IndexTimes, FirstFound DEF Asked
<1> QED BY <1>1 DEF EndSample, Asked

\* First the samples before start go.
LEMMA StartStage ==
  ASSUME Asked, NEW y, y = StartOfStts(ReadTrak)
  PROVE  /\ TimesFrom(y.stts, size) /\ y.start_sample = FirstSample
         /\ Elapses([k \in 0 .. size - FirstSample |->
                       SampleTime[FirstSample + k] - SampleTime[FirstSample]], y.stts)
         /\ Keeps(ReadTrak, y, {"stts", "start_sample"})
<1> DEFINE x == ReadTrak
           r == t.stts
           at == Ticks(start)
           e == FirstBeyond(Spans(r), at)
           rest == (at - Sum(Spans(r), e - 1)) \div r[e].duration
           n == Sum(Counts(r), e - 1) + rest
           F == FirstSample
           P == SampleTime
<1>1. DOMAIN x = Fields /\ x.stts = r
  BY ReadFields DEF ReadTrak
<1>2. y = [x EXCEPT !.stts = LeftCrop(r, e, rest), !.start_sample = n]
  BY <1>1 DEF StartOfStts
<1>3. /\ e \in 1 .. Len(r) /\ n = F /\ n \in 0 .. size - 1
      /\ Sum(Counts(r), e - 1) <= n /\ n < Sum(Counts(r), e)
  BY FirstFound
<1>4. size \in Nat \ {0} /\ Elapses(P, r) /\ r \in Seq(Run) /\ Total(r) = size
  BY IndexTimes DEF Asked
<1>5. \A k \in 0 .. size : P[k] = samples[k].pts
  BY DEF SampleTime
<1>6. Keeps(x, y, {"stts", "start_sample"}) /\ y.stts = LeftCrop(r, e, rest) /\ y.start_sample = n
  <2> HIDE DEF x, r, e, rest, n
  <2> QED BY <1>1, <1>2 DEF Keeps, Fields
<1> DEFINE q == y.stts
<1>7. rest = n - Sum(Counts(r), e - 1)
  <2>1. /\ Counts(r) \in Seq(Nat) /\ Len(Counts(r)) = Len(r) /\ Spans(r) \in Seq(Nat)
        /\ Len(Spans(r)) = Len(r) /\ Len(r) \in Nat
    BY <1>4, RunsKnown
  <2>2. e - 1 \in 0 .. Len(r)
    <3> HIDE DEF e, r
    <3> QED BY <1>3, <2>1
  <2>3. Sum(Counts(r), e - 1) \in Nat
    BY <2>1, <2>2, SeqSum
  <2>4. n \in Nat
    BY <1>3, <1>4
  <2>5. Sum(Spans(r), e - 1) \in Nat
    BY <2>1, <2>2, SeqSum
  <2>6. at \in Nat
    BY TicksKnown DEF Asked
  <2>7. r[e].duration \in Nat \ {0}
    <3> HIDE DEF r, at, e, n
    <3>1. e = FirstBeyond(Spans(r), at)
      BY DEF e
    <3>2. n = Sum(Counts(r), e - 1) + (at - Sum(Spans(r), e - 1)) \div r[e].duration
      BY DEF n
    <3> QED BY <1>3, <1>4, <2>6, <3>1, <3>2, PositionIs
  <2>8. rest \in Int
    <3> DEFINE a == Sum(Spans(r), e - 1)
               d == r[e].duration
    <3>1. rest = (at - a) \div d
      OBVIOUS
    <3>2. a \in Nat /\ d \in Nat \ {0}
      BY <2>5, <2>7
    <3> HIDE DEF a, d, at, rest
    <3> QED BY <2>6, <3>1, <3>2
  <2>9. n = Sum(Counts(r), e - 1) + rest
    OBVIOUS
  <2> HIDE DEF n, rest, e, r
  <2> QED BY <2>3, <2>4, <2>8, <2>9
<1> HIDE DEF x, r, at, e, rest, n, F, P
<1>8. q = LeftCrop(r, e, n - Sum(Counts(r), e - 1))
  BY <1>6, <1>7
<1>9. /\ q \in Seq(Run) /\ Total(q) = Total(r) - n
      /\ \A k \in 0 .. Total(r) - n - 1 : Alike(RunAt(q, k), RunAt(r, n + k))
  <2>1. n \in Nat
    BY <1>3, <1>4
  <2> HIDE DEF q
  <2> QED BY <1>3, <1>4, <1>8, <2>1, RunsCountable, LeftRuns
<1>10. ASSUME NEW k \in 0 .. size - n - 1 PROVE RunAt(q, k).duration = RunAt(r, n + k).duration
  <2>1. Alike(RunAt(q, k), RunAt(r, n + k))
    BY <1>4, <1>9
  <2>2. RunAt(r, n + k) \in Run
    <3>1. n + k \in Nat /\ n + k < Total(r)
      BY <1>3, <1>4
    <3>2. FirstBeyond(Counts(r), n + k) \in 1 .. Len(r)
      BY <1>4, <3>1, RunsKnown, EntryFound
    <3> QED BY <1>4, <3>2 DEF RunAt
  <2> QED BY <2>1, <2>2, RunsAlike
<1>11. Elapses([k \in 0 .. size - n |-> P[n + k] - P[n]], q)
  <2>1. n \in 0 .. Total(r)
    BY <1>3, <1>4
  <2>2. \A k \in 0 .. Total(r) - n - 1 : RunAt(q, k).duration = RunAt(r, n + k).duration
    BY <1>4, <1>10
  <2> HIDE DEF q
  <2>3. Elapses([k \in 0 .. Total(r) - n |-> P[n + k] - P[n]], q)
    BY <1>4, <1>9, <2>1, <2>2, LeftTimes
  <2> QED BY <1>4, <2>3
<1>12. ASSUME NEW k \in 0 .. size - n - 1
       PROVE  RunAt(q, k).duration = samples[n + k + 1].pts - samples[n + k].pts
  <2>1. n + k \in 0 .. size - 1 /\ n + k + 1 \in 0 .. size /\ n + k \in 0 .. size
    BY <1>3, <1>4
  <2>2. P[n + k + 1] = P[n + k] + RunAt(r, n + k).duration
        /\ P[n + k + 1] \in Nat /\ P[n + k] \in Nat
    BY <1>4, <2>1, ElapsesKnown
  <2>3. RunAt(r, n + k).duration \in Nat
    <3>1. n + k \in Nat /\ n + k < Total(r)
      BY <1>4, <2>1
    <3>2. FirstBeyond(Counts(r), n + k) \in 1 .. Len(r)
      BY <1>4, <3>1, RunsKnown, EntryFound
    <3> QED BY <1>4, <3>2, RunsKnown DEF RunAt
  <2>4. RunAt(r, n + k).duration = P[n + k + 1] - P[n + k]
    BY <2>2, <2>3
  <2> QED BY <1>5, <1>10, <2>1, <2>4
<1>13. TimesFrom(q, size)
  BY <1>3, <1>4, <1>9, <1>12 DEF TimesFrom, F
<1> QED BY <1>3, <1>6, <1>11, <1>13 DEF x, F, P

\* Then those from the end on: the table has the times of the samples that are sent.
LEMMA EndStage ==
  ASSUME Asked, NEW x, NEW y, x = StartOfStts(ReadTrak), y = EndOfStts(x)
  PROVE  /\ TimesFrom(y.stts, EndSample) /\ EndSample \in FirstSample .. size
         /\ y.start_sample = FirstSample /\ (mp4_length # 0 => y.end_sample = EndSample)
         /\ Keeps(ReadTrak, y, {"stts", "start_sample", "end_sample"})
<1> DEFINE q == x.stts
           at == Ticks(mp4_length)
           e == FirstBeyond(Spans(q), at)
           rest == (at - Sum(Spans(q), e - 1)) \div q[e].duration
           n == Sum(Counts(q), e - 1) + rest
           F == FirstSample
<1>1. /\ TimesFrom(q, size) /\ x.start_sample = F
      /\ Elapses([k \in 0 .. size - FirstSample |->
                    SampleTime[FirstSample + k] - SampleTime[FirstSample]], q)
      /\ Keeps(ReadTrak, x, {"stts", "start_sample"})
  BY StartStage
<1>2. size \in Nat \ {0} /\ F \in 0 .. size - 1
      /\ (mp4_length = 0 => EndSample = size) /\ mp4_length \in Nat
  BY RangeKnown
<1>3. DOMAIN x = Fields
  BY <1>1 DEF Keeps
<1>4. y = IF mp4_length = 0 THEN x
          ELSE IF e > Len(q) THEN [x EXCEPT !.end_sample = x.start_sample + Sum(Counts(q), Len(q))]
          ELSE [x EXCEPT !.stts = RightCrop(q, e, rest), 
                         !.end_sample = x.start_sample + Sum(Counts(q), e - 1) + rest]
  BY DEF EndOfStts
<1>5. /\ q \in Seq(Run) /\ Total(q) = size - F
      /\ \A k \in 0 .. size - F - 1 :
           RunAt(q, k).duration = samples[F + k + 1].pts - samples[F + k].pts
  BY <1>1 DEF TimesFrom
<1>6. CASE mp4_length = 0
  <2>1. y = x /\ EndSample = size
    BY <1>2, <1>4, <1>6
  <2>2. size \in F .. size
    BY <1>2
  <2>3. Keeps(ReadTrak, x, {"stts", "start_sample", "end_sample"})
    BY <1>1 DEF Keeps
  <2> QED BY <1>1, <1>6, <2>1, <2>2, <2>3
<1>7. CASE mp4_length # 0
  <2>1. /\ e \in 1 .. Len(q) + 1
        /\ e > Len(q) => EndSample = size
        /\ e <= Len(q) => /\ EndSample = F + n /\ n \in 0 .. Total(q) - 1
                          /\ Sum(Counts(q), e - 1) <= n /\ n < Sum(Counts(q), e)
    <3> DEFINE time == [k \in 0 .. size - FirstSample |->
                          SampleTime[FirstSample + k] - SampleTime[FirstSample]]
    <3>1. Total(q) = size - FirstSample /\ Elapses(time, q)
      BY <1>1, <1>5
    <3>2. q \in Seq(Run)
      BY <1>5
    <3>3. e = FirstBeyond(Spans(q), Ticks(mp4_length))
          /\ n = Sum(Counts(q), e - 1)
                   + (Ticks(mp4_length) - Sum(Spans(q), e - 1)) \div q[e].duration
      OBVIOUS
    <3> HIDE DEF q, e, n
    <3> QED BY <1>7, <3>1, <3>2, <3>3, EndFound
  <2>2. /\ Len(q) \in Nat /\ Counts(q) \in Seq(Nat) /\ Len(Counts(q)) = Len(q)
        /\ Total(q) = Sum(Counts(q), Len(q))
        /\ Spans(q) \in Seq(Nat) /\ Len(Spans(q)) = Len(q)
        /\ \A d \in 1 .. Len(q) : q[d].duration \in Nat
    <3> HIDE DEF q
    <3> QED BY <1>5, RunsKnown
  <2>3. CASE e > Len(q)
    <3>1. EndSample = size /\ y = [x EXCEPT !.end_sample = x.start_sample + Sum(Counts(q), Len(q))]
      BY <1>4, <1>7, <2>1, <2>3
    <3> HIDE DEF q, e, n, rest, F
    <3>2. x.start_sample + Sum(Counts(q), Len(q)) = size
      BY <1>1, <1>2, <1>5, <2>2
    <3>3. y = [x EXCEPT !.end_sample = size]
      BY <3>1, <3>2
    <3>4. y.end_sample = size /\ y.stts = x.stts /\ y.start_sample = x.start_sample
          /\ Keeps(ReadTrak, y, {"stts", "start_sample", "end_sample"})
      BY <1>1, <1>3, <3>3 DEF Keeps, Fields
    <3>5. size \in F .. size
      BY <1>2
    <3> QED BY <1>1, <1>7, <3>1, <3>4, <3>5 DEF q, F
  <2>4. CASE ~ e > Len(q)
    <3>1. y = [x EXCEPT !.stts = RightCrop(q, e, rest), 
                        !.end_sample = x.start_sample + Sum(Counts(q), e - 1) + rest]
      BY <1>4, <1>7, <2>4
    <3>2. n = Sum(Counts(q), e - 1) + rest
      OBVIOUS
    <3>12. rest = (at - Sum(Spans(q), e - 1)) \div q[e].duration /\ e = FirstBeyond(Spans(q), at)
      OBVIOUS
    <3>13. at \in Nat
      BY TicksKnown DEF Asked
    <3> HIDE DEF q, e, n, rest, F, at
    <3>3. e \in 1 .. Len(q) /\ e <= Len(q) /\ e - 1 \in 0 .. Len(q)
      BY <2>1, <2>2, <2>4
    <3>4. Sum(Counts(q), e - 1) \in Nat /\ n \in Nat /\ n \in 0 .. size - F - 1
      <4>1. Sum(Counts(q), e - 1) \in Nat
        BY <2>2, <3>3, SeqSum
      <4>2. n \in 0 .. size - F - 1
        BY <1>5, <2>1, <3>3
      <4>3. n \in Nat
        BY <1>2, <4>2
      <4> QED BY <4>1, <4>2, <4>3
    <3>5. rest = n - Sum(Counts(q), e - 1)
      <4>1. Sum(Spans(q), e - 1) \in Nat
        BY <2>2, <3>3, SeqSum
      <4>2. q[e].duration \in Nat \ {0}
        <5> DEFINE time == [k \in 0 .. size - FirstSample |->
                              SampleTime[FirstSample + k] - SampleTime[FirstSample]]
        <5>1. Elapses(time, q)
          BY <1>1
        <5>2. n = Sum(Counts(q), e - 1) + (at - Sum(Spans(q), e - 1)) \div q[e].duration
          BY <3>2, <3>12
        <5> HIDE DEF time
        <5> QED BY <1>5, <3>3, <3>12, <3>13, <5>1, <5>2, PositionIs
      <4> DEFINE a == Sum(Spans(q), e - 1)
                 d == q[e].duration
      <4>3. rest = (at - a) \div d /\ a \in Nat /\ d \in Nat \ {0}
        BY <3>12, <4>1, <4>2
      <4> HIDE DEF a, d
      <4>4. rest \in Int
        BY <3>13, <4>3
      <4> QED BY <3>2, <3>4, <4>4
    <3>6. y.stts = RightCrop(q, e, n - Sum(Counts(q), e - 1))
          /\ y.end_sample = x.start_sample + Sum(Counts(q), e - 1) + rest
          /\ y.start_sample = x.start_sample
          /\ Keeps(ReadTrak, y, {"stts", "start_sample", "end_sample"})
      <4>1. y.stts = RightCrop(q, e, rest)
        BY <1>3, <3>1 DEF Fields
      <4>2. y.end_sample = x.start_sample + Sum(Counts(q), e - 1) + rest /\ y.start_sample = x.start_sample
        BY <1>3, <3>1 DEF Fields
      <4>3. Keeps(ReadTrak, y, {"stts", "start_sample", "end_sample"})
        BY <1>1, <1>3, <3>1 DEF Keeps, Fields
      <4> QED BY <3>5, <4>1, <4>2, <4>3
    <3>7. EndSample = F + n
      BY <2>1, <3>3
    <3>8. y.end_sample = EndSample
      <4> DEFINE a == Sum(Counts(q), e - 1)
      <4>1. y.end_sample = F + a + rest /\ rest = n - a /\ a \in Nat
        BY <1>1, <3>4, <3>5, <3>6
      <4> HIDE DEF a
      <4> QED BY <1>2, <3>4, <3>7, <4>1
    <3> DEFINE r == y.stts
    <3>9. /\ r \in Seq(Run) /\ Total(r) = n
          /\ \A k \in 0 .. n - 1 : Alike(RunAt(r, k), RunAt(q, k))
      <4>1. r = RightCrop(q, e, n - Sum(Counts(q), e - 1))
        BY <3>6
      <4>2. Sum(Counts(q), e - 1) <= n /\ n < Sum(Counts(q), e)
        BY <2>1, <3>3
      <4> HIDE DEF r
      <4> QED BY <1>5, <3>3, <3>4, <4>1, <4>2, RunsCountable, RightRuns
    <3>10. TimesFrom(r, EndSample)
      <4>1. n = EndSample - F
        BY <1>2, <3>4, <3>7
      <4>2. ASSUME NEW k \in 0 .. n - 1
            PROVE  RunAt(r, k).duration = samples[F + k + 1].pts - samples[F + k].pts
        <5>1. k \in 0 .. size - F - 1 /\ k \in Nat /\ k < Total(q)
          BY <1>2, <1>5, <3>4
        <5>2. RunAt(q, k) \in Run
          <6>1. FirstBeyond(Counts(q), k) \in 1 .. Len(q)
            BY <2>2, <5>1, EntryFound
          <6> QED BY <1>5, <6>1 DEF RunAt
        <5>3. RunAt(r, k).duration = RunAt(q, k).duration
          BY <3>9, <5>2, RunsAlike
        <5> QED BY <1>5, <5>1, <5>3
      <4> HIDE DEF r
      <4> QED BY <3>9, <4>1, <4>2 DEF TimesFrom, F
    <3>11. EndSample \in F .. size
      BY <1>2, <3>4, <3>7
    <3> QED BY <1>1, <1>7, <3>6, <3>8, <3>10, <3>11 DEF F
  <2> QED BY <2>3, <2>4
<1> QED BY <1>6, <1>7

\* update_stts leaves the times of the range, and finds its first sample and the one behind it.
LEMMA SttsStage ==
  ASSUME Asked, NEW x, x = SttsCropped(ReadTrak)
  PROVE  /\ TimesFrom(x.stts, EndSample) /\ EndSample \in FirstSample .. size
         /\ x.start_sample = FirstSample /\ (mp4_length # 0 => x.end_sample = EndSample)
         /\ x.size = 16 + 8 * Len(x.stts)
         /\ Keeps(ReadTrak, x, {"stts", "start_sample", "end_sample", "size"})
<1>1. PICK y : y = EndOfStts(StartOfStts(ReadTrak))
  OBVIOUS
<1>2. x = [y EXCEPT !.size = @ + 16 + 8 * Len(y.stts)]
  BY <1>1 DEF SttsCropped, Sized
<1>3. /\ TimesFrom(y.stts, EndSample) /\ EndSample \in FirstSample .. size
      /\ y.start_sample = FirstSample /\ (mp4_length # 0 => y.end_sample = EndSample)
      /\ Keeps(ReadTrak, y, {"stts", "start_sample", "end_sample"})
  <2>1. PICK z : z = StartOfStts(ReadTrak)
    OBVIOUS
  <2> QED BY <1>1, <2>1, EndStage
<1>4. ReadTrak.size = 0
  BY DEF ReadTrak
<1>5. DOMAIN y = Fields /\ y.size = 0
  BY <1>3, <1>4 DEF Keeps, Fields
<1>6. /\ x.stts = y.stts /\ x.start_sample = y.start_sample /\ x.end_sample = y.end_sample
      /\ Keeps(ReadTrak, x, {"stts", "start_sample", "end_sample", "size"})
  BY <1>2, <1>3, <1>5 DEF Keeps, Fields
<1>7. x.size = y.size + 16 + 8 * Len(y.stts)
  BY <1>2, <1>5 DEF Fields
<1>8. Len(y.stts) \in Nat
  <2>1. y.stts \in Seq(Run)
    BY <1>3 DEF TimesFrom
  <2> QED BY <2>1
<1>9. x.size = 16 + 8 * Len(x.stts)
  <2>1. PICK a \in Nat : a = Len(y.stts)
    BY <1>8
  <2> QED BY <1>5, <1>6, <1>7, <2>1
<1> QED BY <1>3, <1>6, <1>9

StssCropped(x) ==
  IF x.stss = {} THEN x
  ELSE LET y == [x EXCEPT !.stss = CroppedStss(x)] IN Sized(y, 16, 4, Cardinality(y.stss))

\* The markers that are sent are those of the samples that are sent.
LEMMA StssStage ==
  ASSUME Asked, NEW x, x = SttsCropped(ReadTrak), NEW y, y = StssCropped(x)
  PROVE  /\ \A k \in 1 .. EndSample - FirstSample :
              k \in y.stss <=> samples[FirstSample + k - 1].is_smooth_ss
         /\ y.size = x.size + IF t.stss = {} THEN 0 ELSE 16 + 4 * Cardinality(y.stss)
         /\ Cardinality(y.stss) \in Nat
         /\ Keeps(x, y, {"stss", "size"})
<1> DEFINE F == FirstSample
           E == EndSample
<1>1. /\ E \in F .. size /\ x.start_sample = F /\ (mp4_length # 0 => x.end_sample = E)
      /\ Keeps(ReadTrak, x, {"stts", "start_sample", "end_sample", "size"})
      /\ x.size = 16 + 8 * Len(x.stts) /\ TimesFrom(x.stts, EndSample)
  BY SttsStage
<1>2. x.stss = t.stss /\ DOMAIN x = Fields
  BY <1>1 DEF Keeps, Fields, ReadTrak
<1>3. t \in Tables /\ size \in Nat \ {0} /\ F \in 0 .. size - 1
      /\ (mp4_length = 0 => E = size)
  BY IndexTimes, RangeKnown DEF Asked
<1>4. t.stss \subseteq Nat \ {0} /\ IsFiniteSet(t.stss)
  BY <1>3, TablesAssumption DEF Typed
<1>5. x.size \in Nat
  <2>1. x.stts \in Seq(Run)
    BY <1>1 DEF TimesFrom
  <2>2. Len(x.stts) \in Nat
    BY <2>1
  <2> QED BY <1>1, <2>2
<1>6. \A n \in 0 .. size - 1 : samples[n].is_smooth_ss <=> n + 1 \in t.stss
  <2>1. pc = "done" /\ \A n \in 0 .. size :
          samples[n].is_smooth_ss <=> pc = "done" /\ (n = size \/ n + 1 \in t.stss)
    BY DEF Asked, IndexInv, SamplesMarked
  <2>2. \A n \in 0 .. size - 1 : n \in 0 .. size /\ n # size
    BY <1>3
  <2> QED BY <2>1, <2>2
<1>7. CASE t.stss = {}
  <2>1. y = x
    BY <1>2, <1>7 DEF StssCropped
  <2>2. ASSUME NEW k \in 1 .. E - F PROVE ~ samples[F + k - 1].is_smooth_ss
    <3>1. F + k - 1 \in 0 .. size - 1
      BY <1>1, <1>3
    <3> QED BY <1>6, <1>7, <3>1
  <2>3. Cardinality({}) = 0
    BY FS_EmptySet
  <2>4. Keeps(x, y, {"stss", "size"})
    BY <1>2, <2>1 DEF Keeps
  <2>5. y.stss = {} /\ Cardinality(y.stss) = 0
    BY <1>2, <1>7, <2>1, <2>3
  <2>6. y.size = x.size + IF t.stss = {} THEN 0 ELSE 16 + 4 * Cardinality(y.stss)
    BY <1>5, <1>7, <2>1
  <2> QED BY <2>2, <2>4, <2>5, <2>6
<1>8. CASE t.stss # {}
  <2> DEFINE T == {n \in t.stss : n >= F + 1 /\ (mp4_length = 0 \/ n < E + 1)}
             S == {n - F : n \in T}
  <2>1. CroppedStss(x) = S
    <3>1. mp4_length = 0 \/ x.end_sample = E
      BY <1>1
    <3>2. CroppedStss(x) = {n - x.start_sample :
             n \in {n \in x.stss : n >= x.start_sample + 1 /\ (mp4_length = 0 \/ n < x.end_sample + 1)}}
      BY DEF CroppedStss
    <3>3. {n \in x.stss : n >= x.start_sample + 1 /\ (mp4_length = 0 \/ n < x.end_sample + 1)} = T
      BY <1>1, <1>2, <3>1
    <3> HIDE DEF T
    <3> QED BY <1>1, <3>2, <3>3
  <2>2. IsFiniteSet(S) /\ Cardinality(S) \in Nat
    <3>1. IsFiniteSet(T)
      <4>1. T \subseteq t.stss
        OBVIOUS
      <4> HIDE DEF T
      <4> QED BY <1>4, <4>1, FS_Subset
    <3> DEFINE f == [n \in T |-> n - F]
    <3>2. f \in Surjection(T, S)
      <4>2. T \subseteq Nat /\ F \in Nat
        BY <1>3, <1>4
      <4> HIDE DEF T, F
      <4>3. f = [n \in T |-> n - F] /\ S = {n - F : n \in T}
        OBVIOUS
      <4> HIDE DEF f, S
      <4>1. f \in [T -> S] /\ \A m \in S : \E n \in T : f[n] = m
        BY <4>2, <4>3
      <4> QED BY <4>1 DEF Surjection
    <3>3. IsFiniteSet(S)
      <4> HIDE DEF f, S, T
      <4> QED BY <3>1, <3>2, FS_Surjection
    <3> HIDE DEF S
    <3> QED BY <3>3, FS_CardinalityType
  <2>3. ASSUME NEW k \in 1 .. E - F PROVE k \in S <=> samples[F + k - 1].is_smooth_ss
    <3>1. F + k - 1 \in 0 .. size - 1 /\ F + k - 1 + 1 = F + k /\ F + k >= F + 1 /\ F + k < E + 1
          /\ F + k - F = k
      BY <1>1, <1>3
    <3>2. k \in S <=> F + k \in t.stss
      <4>1. ASSUME F + k \in t.stss PROVE k \in S
        <5>1. F + k \in T
          BY <3>1, <4>1
        <5>2. k = (F + k) - F
          BY <1>1, <1>3
        <5>3. PICK n : n = F + k
          OBVIOUS
        <5>4. n \in T /\ k = n - F
          BY <5>1, <5>2, <5>3
        <5> HIDE DEF T
        <5> QED BY <5>4
      <4>2. ASSUME k \in S PROVE F + k \in t.stss
        <5>1. PICK n \in T : k = n - F
          BY <4>2
        <5>2. n \in Nat /\ n \in t.stss
          BY <1>4
        <5>3. n = F + k
          BY <1>3, <5>1, <5>2
        <5> QED BY <5>2, <5>3
      <4> QED BY <4>1, <4>2
    <3> QED BY <1>6, <3>1, <3>2
  <2> HIDE DEF S
  <2>4. y.stss = S /\ y.size = x.size + 16 + 4 * Cardinality(S) /\ Keeps(x, y, {"stss", "size"})
    <3>1. y = [[x EXCEPT !.stss = S] EXCEPT !.size = @ + 16 + 4 * Cardinality(S)]
      <4>1. [x EXCEPT !.stss = S].stss = S
        BY <1>2 DEF Fields
      <4> QED BY <1>2, <1>8, <2>1, <4>1 DEF StssCropped, Sized
    <3> QED BY <1>2, <3>1 DEF Keeps, Fields
  <2>5. y.size = x.size + (16 + 4 * Cardinality(y.stss))
    <3>1. PICK a \in Nat : a = Cardinality(S)
      BY <2>2
    <3> QED BY <1>5, <2>4, <3>1
  <2> QED BY <1>8, <2>2, <2>3, <2>4, <2>5
<1> QED BY <1>7, <1>8

CttsCropped(x) ==
  LET y == EndOfCtts(StartOfCtts(x)) IN IF y.ctts = <<>> THEN y ELSE Sized(y, 16, 8, Len(y.ctts))

\* The items n, n + 1 ... of r, m of them, have the offsets of those of q.
OffsetsFrom(q, r, n, m) ==
  Total(q) >= m /\ \A k \in 0 .. m - 1 : RunAt(q, k).offset = RunAt(r, n + k).offset

\* An item of a table is one of its entries.
LEMMA ItemIn ==
  ASSUME NEW R, NEW r \in Seq(R), \A x \in R : x.count \in Nat, NEW k \in Nat, k < Total(r)
  PROVE  RunAt(r, k) \in R
<1>1. /\ \A e \in 1 .. Len(r) : r[e] \in R
      /\ Counts(r) \in Seq(Nat) /\ Len(Counts(r)) = Len(r) /\ Total(r) = Sum(Counts(r), Len(Counts(r)))
  BY CountsKnown
<1>2. FirstBeyond(Counts(r), k) \in 1 .. Len(r)
  BY <1>1, EntryFound
<1> QED BY <1>1, <1>2 DEF RunAt

\* The offsets of the samples before start go.
LEMMA StartOffsets ==
  ASSUME NEW x, DOMAIN x = Fields, x.ctts \in Seq(Ctts), x.start_sample \in Nat,
         NEW y, y = StartOfCtts(x)
  PROVE  /\ y.ctts \in Seq(Ctts) /\ Keeps(x, y, {"ctts"})
         /\ x.ctts = <<>> => y.ctts = <<>>
         /\ x.start_sample < Total(x.ctts) =>
              OffsetsFrom(y.ctts, x.ctts, x.start_sample, Total(x.ctts) - x.start_sample)
<1> DEFINE r == x.ctts
           F == x.start_sample
           e == FirstBeyond(Counts(r), F)
           rest == F - Sum(Counts(r), e - 1)
           q == y.ctts
<1>1. y = IF e > Len(r) THEN [x EXCEPT !.ctts = <<>>] ELSE [x EXCEPT !.ctts = LeftCrop(r, e, rest)]
  BY DEF StartOfCtts
<1>2. r \in Seq(Ctts) /\ F \in Nat
  OBVIOUS
<1>3. \A a \in Ctts : a.count \in Nat
  BY DEF Ctts
<1> HIDE DEF r, F
<1>4. /\ Len(r) \in Nat /\ Counts(r) \in Seq(Nat) /\ Len(Counts(r)) = Len(r)
      /\ Total(r) = Sum(Counts(r), Len(Counts(r))) /\ Total(r) \in Nat
  BY <1>2, <1>3, CountsKnown
<1>5. /\ e \in 1 .. Len(r) + 1 /\ Sum(Counts(r), e - 1) <= F
      /\ (e \in 1 .. Len(r) => F < Sum(Counts(r), e))
      /\ (e \in 1 .. Len(r) <=> F < Total(r))
  BY <1>2, <1>4, EntryFound
<1> HIDE DEF e, rest
<1>6. CASE e > Len(r)
  <2>1. y = [x EXCEPT !.ctts = <<>>]
    BY <1>1, <1>6
  <2>2. q = <<>> /\ Keeps(x, y, {"ctts"})
    BY <2>1 DEF Keeps, Fields
  <2>3. ~ F < Total(r)
    BY <1>4, <1>5, <1>6
  <2>4. <<>> \in Seq(Ctts)
    OBVIOUS
  <2> QED BY <2>2, <2>3, <2>4 DEF F, r
<1>7. CASE ~ e > Len(r)
  <2>1. e \in 1 .. Len(r) /\ r # <<>>
    <3>1. e \in 1 .. Len(r)
      BY <1>4, <1>5, <1>7
    <3> QED BY <1>2, <1>4, <3>1
  <2>2. y = [x EXCEPT !.ctts = LeftCrop(r, e, rest)]
    BY <1>1, <1>7
  <2>3. q = LeftCrop(r, e, F - Sum(Counts(r), e - 1)) /\ Keeps(x, y, {"ctts"})
    BY <2>2 DEF Keeps, Fields, rest
  <2> HIDE DEF q
  <2>4. Countable(Ctts)
    BY OffsetsCountable DEF Ctts
  <2>5. /\ q \in Seq(Ctts) /\ Total(q) = Total(r) - F
        /\ \A k \in 0 .. Total(r) - F - 1 : Alike(RunAt(q, k), RunAt(r, F + k))
    BY <1>2, <1>5, <2>1, <2>3, <2>4, LeftRuns
  <2>6. ASSUME NEW k \in 0 .. Total(r) - F - 1 PROVE RunAt(q, k).offset = RunAt(r, F + k).offset
    <3>1. F + k \in Nat /\ F + k < Total(r)
      BY <1>2, <1>4
    <3>2. RunAt(r, F + k) \in Ctts
      BY <1>2, <1>3, <3>1, ItemIn
    <3> QED BY <2>5, <3>2, OffsetsAlike DEF Ctts
  <2>7. Total(q) >= Total(r) - F
    BY <1>2, <1>4, <2>5
  <2>8. OffsetsFrom(q, r, F, Total(r) - F)
    BY <2>6, <2>7 DEF OffsetsFrom
  <2> QED BY <2>1, <2>3, <2>5, <2>8 DEF q, r, F
<1> QED BY <1>6, <1>7

\* And those of the samples from the end on.
LEMMA EndOffsets ==
  ASSUME NEW x, DOMAIN x = Fields, x.ctts \in Seq(Ctts), NEW n \in Nat,
         mp4_length = 0 \/ n = x.end_sample - x.start_sample,
         NEW y, y = EndOfCtts(x)
  PROVE  /\ y.ctts \in Seq(Ctts) /\ Keeps(x, y, {"ctts"})
         /\ x.ctts = <<>> => y.ctts = <<>>
         /\ n <= Total(x.ctts) => OffsetsFrom(y.ctts, x.ctts, 0, n)
<1> DEFINE r == x.ctts
           e == FirstBeyond(Counts(r), n)
           q == y.ctts
<1>2. r \in Seq(Ctts)
  OBVIOUS
<1>3. \A a \in Ctts : a.count \in Nat
  BY DEF Ctts
<1>4. /\ Len(r) \in Nat /\ Counts(r) \in Seq(Nat) /\ Len(Counts(r)) = Len(r)
      /\ Total(r) = Sum(Counts(r), Len(Counts(r))) /\ Total(r) \in Nat
  <2> HIDE DEF r
  <2> QED BY <1>2, <1>3, CountsKnown
<1>5. /\ e \in 1 .. Len(r) + 1 /\ Sum(Counts(r), e - 1) <= n
      /\ (e \in 1 .. Len(r) => n < Sum(Counts(r), e))
      /\ (e \in 1 .. Len(r) <=> n < Total(r))
  <2> HIDE DEF r
  <2> QED BY <1>2, <1>4, EntryFound
<1>1. y = IF mp4_length = 0 \/ e > Len(r) THEN x
          ELSE [x EXCEPT !.ctts = RightCrop(r, e, n - Sum(Counts(r), e - 1))]
  <2>1. CASE mp4_length = 0
    BY <2>1 DEF EndOfCtts
  <2>2. CASE mp4_length # 0
    <3>1. n = x.end_sample - x.start_sample
      BY <2>2
    <3> QED BY <2>2, <3>1 DEF EndOfCtts
  <2> QED BY <2>1, <2>2
<1>8. \A k \in 0 .. n - 1 : k \in Nat /\ 0 + k = k
  OBVIOUS
<1>6. CASE mp4_length = 0 \/ e > Len(r)
  <2>1. y = x
    BY <1>1, <1>6
  <2>2. q = r /\ Keeps(x, y, {"ctts"})
    BY <2>1 DEF Keeps
  <2>3. n <= Total(r) => OffsetsFrom(q, r, 0, n)
    <3>1. n <= Total(r) => Total(r) >= n
      BY <1>4
    <3>2. \A k \in 0 .. n - 1 : RunAt(r, k).offset = RunAt(r, 0 + k).offset
      BY <1>8
    <3> QED BY <2>2, <3>1, <3>2 DEF OffsetsFrom
  <2> QED BY <1>2, <2>2, <2>3
<1>7. CASE ~ (mp4_length = 0 \/ e > Len(r))
  <2> HIDE DEF r, e
  <2>1. e \in 1 .. Len(r) /\ r # <<>>
    <3>1. e \in 1 .. Len(r)
      BY <1>4, <1>5, <1>7
    <3> QED BY <1>2, <1>4, <3>1
  <2>2. y = [x EXCEPT !.ctts = RightCrop(r, e, n - Sum(Counts(r), e - 1))]
    BY <1>1, <1>7
  <2>3. q = RightCrop(r, e, n - Sum(Counts(r), e - 1)) /\ Keeps(x, y, {"ctts"})
    BY <2>2 DEF Keeps, Fields
  <2> HIDE DEF q
  <2>4. Countable(Ctts)
    BY OffsetsCountable DEF Ctts
  <2>5. /\ q \in Seq(Ctts) /\ Total(q) = n
        /\ \A k \in 0 .. n - 1 : Alike(RunAt(q, k), RunAt(r, k))
    BY <1>2, <1>5, <2>1, <2>3, <2>4, RightRuns
  <2>6. ASSUME NEW k \in 0 .. n - 1 PROVE RunAt(q, k).offset = RunAt(r, 0 + k).offset
    <3>1. k \in Nat /\ k < Total(r) /\ 0 + k = k
      BY <1>4, <1>5, <2>1
    <3>2. RunAt(r, k) \in Ctts
      BY <1>2, <1>3, <3>1, ItemIn
    <3>3. RunAt(q, k).offset = RunAt(r, k).offset
      BY <2>5, <3>2, OffsetsAlike DEF Ctts
    <3> QED BY <3>1, <3>3
  <2>7. Total(q) >= n
    BY <2>5
  <2>8. OffsetsFrom(q, r, 0, n)
    BY <2>6, <2>7 DEF OffsetsFrom
  <2> QED BY <2>1, <2>3, <2>5, <2>8 DEF q, r
<1> QED BY <1>6, <1>7

\* The offsets that are sent are those of the samples that are sent, when there are enough.
CttsSent(r) ==
  Len(t.ctts) = 0 \/ Sum(Counts(t.ctts), Len(t.ctts)) >= size =>
    \A k \in 1 .. EndSample - FirstSample :
      samples[FirstSample + k - 1].cto
        = IF k \in DOMAIN Expanded(r) THEN Expanded(r)[k].offset ELSE 0

\* update_ctts leaves the offsets of these samples, if there were any.
LEMMA CttsStage ==
  ASSUME Asked, EndSample \in FirstSample .. size,
         NEW x, DOMAIN x = Fields, x.ctts = t.ctts, x.start_sample = FirstSample,
         mp4_length # 0 => x.end_sample = EndSample, x.size \in Nat,
         NEW y, y = CttsCropped(x)
  PROVE  /\ CttsSent(y.ctts) /\ Len(y.ctts) \in Nat
         /\ y.size = x.size + IF y.ctts = <<>> THEN 0 ELSE 16 + 8 * Len(y.ctts)
         /\ Keeps(x, y, {"ctts", "size"})
<1> DEFINE F == FirstSample
           r == t.ctts
           n == EndSample - F
<1>1. PICK u : u = StartOfCtts(x)
  OBVIOUS
<1>2. PICK v : v = EndOfCtts(u)
  OBVIOUS
<1>3. t \in Tables /\ size \in Nat \ {0} /\ F \in 0 .. size - 1 /\ F \in Nat
  BY IndexTimes, RangeKnown DEF Asked
<1>4. /\ r \in Seq(Ctts) /\ Len(r) \in Nat /\ (r = <<>> <=> Len(r) = 0)
      /\ Counts(r) \in Seq(Nat) /\ Len(Counts(r)) = Len(r)
  BY <1>3, OffsetsKnown
<1>5. /\ u.ctts \in Seq(Ctts) /\ Keeps(x, u, {"ctts"})
      /\ r = <<>> => u.ctts = <<>>
      /\ F < Total(r) => OffsetsFrom(u.ctts, r, F, Total(r) - F)
  <2>1. x.ctts = r /\ x.start_sample = F
    OBVIOUS
  <2>2. DOMAIN x = Fields /\ x.ctts \in Seq(Ctts) /\ x.start_sample \in Nat
    BY <1>3, <1>4, <2>1
  <2>3. /\ u.ctts \in Seq(Ctts) /\ Keeps(x, u, {"ctts"})
        /\ x.ctts = <<>> => u.ctts = <<>>
        /\ x.start_sample < Total(x.ctts) =>
             OffsetsFrom(u.ctts, x.ctts, x.start_sample, Total(x.ctts) - x.start_sample)
    <3> HIDE DEF r, F
    <3> QED BY <1>1, <2>2, StartOffsets
  <2> HIDE DEF r, F
  <2> QED BY <2>1, <2>3
<1>6. DOMAIN u = Fields /\ u.start_sample = F /\ (mp4_length # 0 => u.end_sample = EndSample)
  BY <1>5 DEF Keeps, Fields
<1>7. n \in Nat /\ n <= size - F
  BY <1>3
<1>8. /\ v.ctts \in Seq(Ctts) /\ Keeps(u, v, {"ctts"})
      /\ u.ctts = <<>> => v.ctts = <<>>
      /\ n <= Total(u.ctts) => OffsetsFrom(v.ctts, u.ctts, 0, n)
  <2>1. mp4_length = 0 \/ n = u.end_sample - u.start_sample
    BY <1>6
  <2> HIDE DEF n
  <2> QED BY <1>2, <1>5, <1>6, <1>7, <2>1, EndOffsets
<1>9. y = IF v.ctts = <<>> THEN v ELSE [v EXCEPT !.size = @ + 16 + 8 * Len(v.ctts)]
  BY <1>1, <1>2 DEF CttsCropped, Sized
<1>10. DOMAIN v = Fields /\ v.size = x.size /\ Keeps(x, v, {"ctts"})
  BY <1>5, <1>8 DEF Keeps, Fields
<1>11. PICK a \in Nat : a = Len(v.ctts)
  BY <1>8
<1>12. /\ y.ctts = v.ctts /\ Keeps(x, y, {"ctts", "size"})
       /\ y.size = x.size + IF y.ctts = <<>> THEN 0 ELSE 16 + 8 * Len(y.ctts)
  <2>1. CASE v.ctts = <<>>
    <3>1. y = v
      BY <1>9, <2>1
    <3> QED BY <1>10, <2>1, <3>1 DEF Keeps
  <2>2. CASE v.ctts # <<>>
    <3>1. y = [v EXCEPT !.size = v.size + 16 + 8 * a]
      BY <1>9, <1>11, <2>2
    <3>2. y.ctts = v.ctts /\ y.size = v.size + 16 + 8 * a /\ Keeps(x, y, {"ctts", "size"})
      BY <1>10, <3>1 DEF Keeps, Fields
    <3>3. x.size + (16 + 8 * a) = v.size + 16 + 8 * a
      BY <1>10
    <3>4. y.ctts # <<>> /\ a = Len(y.ctts)
      BY <1>11, <2>2, <3>2
    <3> QED BY <3>2, <3>3, <3>4
  <2> QED BY <2>1, <2>2
<1> DEFINE q == v.ctts
<1>13. /\ DOMAIN Expanded(q) = 1 .. Total(q) /\ Total(q) \in Nat
       /\ \A k \in 0 .. Total(q) - 1 : Expanded(q)[k + 1] = RunAt(q, k)
  <2>1. \A b \in Ctts : b.count \in Nat
    BY DEF Ctts
  <2>2. q \in Seq(Ctts)
    BY <1>8
  <2> HIDE DEF q
  <2> QED BY <2>1, <2>2, ExpandedIs, CountsKnown
<1>14. OffsetsGiven(Len(r)) /\ (r = <<>> => NoOffsets)
  BY DEF Asked, SamplesDelayed
<1>15. CttsSent(q)
  <2> SUFFICES ASSUME Len(r) = 0 \/ Sum(Counts(r), Len(r)) >= size, NEW k \in 1 .. n
               PROVE  samples[F + k - 1].cto = IF k \in DOMAIN Expanded(q) THEN Expanded(q)[k].offset ELSE 0
    BY DEF CttsSent
  <2>1. F + k - 1 \in 0 .. size - 1
    BY <1>3, <1>7
  <2>2. CASE Len(r) = 0
    <3>1. q = <<>> /\ samples[F + k - 1].cto = 0
      BY <1>4, <1>5, <1>8, <1>14, <2>1, <2>2 DEF NoOffsets
    <3>2. Total(q) = 0
      <4>1. <<>> \in Seq(Nat) /\ Len(<<>>) = 0 /\ Counts(<<>>) = <<>>
        BY DEF Counts
      <4> QED BY <3>1, <4>1, SeqSum DEF Total
    <3>3. k \notin DOMAIN Expanded(q)
      BY <1>13, <3>2
    <3> QED BY <3>1, <3>3
  <2>3. CASE Len(r) # 0
    <3>1. Total(r) >= size /\ Total(r) \in Nat
      <4>1. Sum(Counts(r), Len(r)) >= size /\ Total(r) = Sum(Counts(r), Len(r))
        BY <2>3 DEF Total
      <4>2. Len(r) \in 0 .. Len(Counts(r))
        BY <1>4
      <4>3. Sum(Counts(r), Len(r)) \in Nat
        BY <1>4, <4>2, SeqSum
      <4> QED BY <4>1, <4>3
    <3>2. F < Total(r)
      BY <1>3, <3>1
    <3>3. OffsetsFrom(u.ctts, r, F, Total(r) - F)
      BY <1>5, <3>2
    <3>4. Total(u.ctts) \in Nat
      <4>1. \A b \in Ctts : b.count \in Nat
        BY DEF Ctts
      <4> QED BY <1>5, <4>1, CountsKnown
    <3>5. n <= Total(u.ctts)
      <4>1. Total(u.ctts) >= Total(r) - F
        BY <3>3 DEF OffsetsFrom
      <4> HIDE DEF n, F
      <4> QED BY <1>3, <1>7, <3>1, <3>4, <4>1
    <3>6. OffsetsFrom(q, u.ctts, 0, n)
      BY <1>8, <3>5
    <3> HIDE DEF q, n, F, r
    <3>7. k - 1 \in 0 .. n - 1 /\ k - 1 \in 0 .. Total(r) - F - 1 /\ 0 + (k - 1) = k - 1
          /\ k - 1 + 1 = k /\ F + (k - 1) = F + k - 1
      BY <1>3, <1>7, <3>1
    <3>8. RunAt(q, k - 1).offset = RunAt(u.ctts, k - 1).offset /\ Total(q) >= n
      BY <3>6, <3>7 DEF OffsetsFrom
    <3>9. RunAt(u.ctts, k - 1).offset = RunAt(r, F + k - 1).offset
      BY <3>3, <3>7 DEF OffsetsFrom
    <3>10. k \in DOMAIN Expanded(q) /\ Expanded(q)[k] = RunAt(q, k - 1)
      <4>1. k \in 1 .. Total(q) /\ k - 1 \in 0 .. Total(q) - 1
        BY <1>7, <1>13, <3>8
      <4> QED BY <1>13, <3>7, <4>1
    <3>11. samples[F + k - 1].cto = RunAt(r, F + k - 1).offset
      <4>1. Sum(Counts(r), Len(r)) = Total(r)
        BY DEF Total
      <4>2. F + k - 1 < Sum(Counts(r), Len(r))
        BY <1>3, <2>1, <3>1, <4>1
      <4> QED BY <1>14, <2>1, <4>2 DEF OffsetsGiven, r
    <3> QED BY <3>8, <3>9, <3>10, <3>11
  <2> QED BY <2>2, <2>3
<1> QED BY <1>11, <1>12, <1>15

(* The chunk map.                                                          *)

\* The map of a track from chunk b on (counted from 0); G[k] samples are in the first k
\* of these chunks.
Chunked(x, b, G) ==
  /\ x.chunks \in Nat /\ b \in Nat
  /\ x.stsc \in Seq(ChunkRun) /\ Len(x.stsc) >= 1 /\ x.stsc[1].chunk = b + 1
  /\ \A e \in 1 .. Len(x.stsc) : x.stsc[e].samples # 0 /\ x.stsc[e].chunk < NextChunk(x, e)
  /\ G[0] = 0 /\ \A k \in 0 .. x.chunks - b : G[k] \in Nat
  /\ \A e \in 1 .. Len(x.stsc) : \A k \in 0 .. x.chunks - b - 1 :
       x.stsc[e].chunk <= b + k + 1 /\ b + k + 1 < NextChunk(x, e) =>
         G[k + 1] = G[k] + x.stsc[e].samples

\* It is run length coded, too.
ChunkRuns(x) ==
  [e \in 1 .. Len(x.stsc) |-> [count |-> NextChunk(x, e) - x.stsc[e].chunk,
                               duration |-> x.stsc[e].samples]]

\* The next chunk is that of the next entry.
LEMMA NextIs ==
  ASSUME NEW x, NEW b, NEW G, Chunked(x, b, G)
  PROVE  /\ Len(x.stsc) \in Nat \ {0} /\ DOMAIN x.stsc = 1 .. Len(x.stsc) /\ x.chunks \in Nat /\ b \in Nat
         /\ \A e \in 1 .. Len(x.stsc) :
              /\ x.stsc[e].chunk \in Nat /\ x.stsc[e].samples \in Nat \ {0} /\ NextChunk(x, e) \in Nat
              /\ x.stsc[e].chunk < NextChunk(x, e)
         /\ \A e \in 2 .. Len(x.stsc) : x.stsc[e].chunk = NextChunk(x, e - 1)
         /\ x.stsc[1].chunk = b + 1 /\ NextChunk(x, Len(x.stsc)) = x.chunks + 1
<1>1. /\ Len(x.stsc) \in Nat \ {0} /\ DOMAIN x.stsc = 1 .. Len(x.stsc)
      /\ \A e \in 1 .. Len(x.stsc) : x.stsc[e] \in ChunkRun
  <2> DEFINE r == x.stsc
  <2>1. r \in Seq(ChunkRun) /\ Len(r) >= 1
    BY DEF Chunked
  <2> HIDE DEF r
  <2>2. Len(r) \in Nat \ {0} /\ DOMAIN r = 1 .. Len(r) /\ \A e \in 1 .. Len(r) : r[e] \in ChunkRun
    BY <2>1
  <2> QED BY <2>2 DEF r
<1>2. /\ x.chunks \in Nat /\ b \in Nat /\ x.stsc[1].chunk = b + 1
      /\ \A e \in 1 .. Len(x.stsc) : x.stsc[e].samples # 0 /\ x.stsc[e].chunk < NextChunk(x, e)
  BY DEF Chunked
<1>3. \A e \in 1 .. Len(x.stsc) : x.stsc[e].chunk \in Nat /\ x.stsc[e].samples \in Nat
  BY <1>1 DEF ChunkRun
<1>4. \A e \in 1 .. Len(x.stsc) :
        NextChunk(x, e) = IF e < Len(x.stsc) THEN x.stsc[e + 1].chunk ELSE x.chunks + 1
  BY DEF NextChunk
<1>5. PICK N \in Nat \ {0} : N = Len(x.stsc)
  BY <1>1
<1>6. ASSUME NEW e \in 1 .. N PROVE NextChunk(x, e) \in Nat
  <2>1. CASE e < N
    <3>1. e + 1 \in 1 .. N
      BY <2>1
    <3> QED BY <1>3, <1>4, <1>5, <2>1, <3>1
  <2>2. CASE ~ e < N
    BY <1>2, <1>4, <1>5, <2>2
  <2> QED BY <2>1, <2>2
<1>7. ASSUME NEW e \in 2 .. N PROVE x.stsc[e].chunk = NextChunk(x, e - 1)
  <2>1. e - 1 \in 1 .. N /\ e - 1 < N /\ e - 1 + 1 = e
    OBVIOUS
  <2> QED BY <1>4, <1>5, <2>1
<1>8. NextChunk(x, N) = x.chunks + 1
  <2>1. N \in 1 .. N /\ ~ N < N
    OBVIOUS
  <2> QED BY <1>4, <1>5, <2>1
<1> QED BY <1>1, <1>2, <1>3, <1>5, <1>6, <1>7, <1>8

\* How many chunks there are up to an entry, and samples.
LEMMA ChunkSums ==
  ASSUME NEW x, NEW b, NEW G, Chunked(x, b, G)
  PROVE  /\ ChunkRuns(x) \in Seq(Run) /\ Len(ChunkRuns(x)) = Len(x.stsc)
         /\ \A e \in 1 .. Len(x.stsc) : /\ ChunkRuns(x)[e].count = NextChunk(x, e) - x.stsc[e].chunk
                                        /\ ChunkRuns(x)[e].duration = x.stsc[e].samples
                                        /\ Sum(Counts(ChunkRuns(x)), e) = NextChunk(x, e) - (b + 1)
                                        /\ Sum(Counts(ChunkRuns(x)), e - 1) = x.stsc[e].chunk - (b + 1)
         /\ Total(ChunkRuns(x)) = x.chunks - b /\ x.chunks - b \in Nat
         /\ InEntries(x) = Spans(ChunkRuns(x))
<1> DEFINE r == ChunkRuns(x)
           w == Counts(r)
           chunk(e) == x.stsc[e].chunk
           next(e) == NextChunk(x, e)
<1>1. PICK N : N = Len(x.stsc)
  OBVIOUS
<1>2. /\ N \in Nat \ {0} /\ DOMAIN x.stsc = 1 .. N /\ x.chunks \in Nat /\ b \in Nat
      /\ \A e \in 1 .. N : chunk(e) \in Nat /\ x.stsc[e].samples \in Nat \ {0} /\ next(e) \in Nat
                           /\ chunk(e) < next(e)
      /\ \A e \in 2 .. N : chunk(e) = next(e - 1)
      /\ chunk(1) = b + 1 /\ next(N) = x.chunks + 1
  BY <1>1, NextIs
<1>3. r = [e \in 1 .. N |-> [count |-> next(e) - chunk(e), duration |-> x.stsc[e].samples]]
  BY <1>1 DEF ChunkRuns
<1> HIDE DEF chunk, next, r
<1>4. \A e \in 1 .. N : next(e) - chunk(e) \in Nat /\ x.stsc[e].samples \in Nat
  BY <1>2
<1>5. /\ \A e \in 1 .. N : r[e] = [count |-> next(e) - chunk(e), duration |-> x.stsc[e].samples]
      /\ \A e \in 1 .. N : r[e] \in Run
      /\ r = [e \in 1 .. N |-> r[e]]
  BY <1>3, <1>4 DEF Run
<1>6. r \in Seq(Run) /\ Len(r) = N
  <2>1. r \in [1 .. N -> Run] /\ N \in Nat
    BY <1>2, <1>5
  <2> QED BY <2>1, LenProperties, SeqDef
<1>7. \A e \in 1 .. N : r[e].count = next(e) - chunk(e) /\ r[e].duration = x.stsc[e].samples
  <2> SUFFICES ASSUME NEW e \in 1 .. N
               PROVE  r[e].count = next(e) - chunk(e) /\ r[e].duration = x.stsc[e].samples
    OBVIOUS
  <2>1. PICK a : a = next(e) - chunk(e)
    OBVIOUS
  <2>2. r[e] = [count |-> a, duration |-> x.stsc[e].samples]
    BY <1>5, <2>1
  <2> QED BY <2>1, <2>2
<1>8. /\ w \in Seq(Nat) /\ Len(w) = N /\ \A e \in 1 .. N : w[e] = next(e) - chunk(e)
  <2>1. w \in Seq(Nat) /\ Len(w) = Len(r) /\ \A e \in 1 .. Len(r) : w[e] = r[e].count
    BY <1>6, RunsKnown
  <2> HIDE DEF w
  <2>2. \A e \in 1 .. N : w[e] = next(e) - chunk(e)
    BY <1>6, <1>7, <2>1
  <2> QED BY <1>6, <2>1, <2>2
<1>9. /\ Sum(w, 0) = 0 /\ \A e \in 1 .. N : Sum(w, e) = Sum(w, e - 1) + (next(e) - chunk(e))
  BY <1>8, SeqSum
<1>10. \A e \in 0 .. N - 1 : Sum(w, e) = chunk(e + 1) - (b + 1)
  <2> DEFINE S == {e \in 0 .. N - 1 : Sum(w, e) = chunk(e + 1) - (b + 1)}
  <2>1. 0 \in S
    <3>1. 0 + 1 = 1 /\ 0 \in 0 .. N - 1
      BY <1>2
    <3> QED BY <1>2, <1>9, <3>1
  <2>2. ASSUME NEW d \in 0 .. N - 1 - 1, d \in S PROVE d + 1 \in S
    <3>1. d + 1 \in 1 .. N /\ d + 1 \in 0 .. N - 1 /\ d + 1 - 1 = d /\ d + 1 + 1 \in 2 .. N
          /\ d + 1 + 1 - 1 = d + 1 /\ d + 1 + 1 \in 1 .. N
      BY <1>2
    <3>2. Sum(w, d + 1) = Sum(w, d) + (next(d + 1) - chunk(d + 1))
      BY <1>9, <3>1
    <3>3. Sum(w, d) = chunk(d + 1) - (b + 1)
      BY <2>2
    <3>4. chunk(d + 1 + 1) = next(d + 1)
      BY <1>2, <3>1
    <3>5. chunk(d + 1) \in Nat /\ next(d + 1) \in Nat
      BY <1>2, <3>1
    <3>6. Sum(w, d + 1) = chunk(d + 1 + 1) - (b + 1)
      BY <1>2, <3>2, <3>3, <3>4, <3>5
    <3> QED BY <3>1, <3>6
  <2>3. 0 .. N - 1 \subseteq S
    <3>1. N - 1 \in Nat
      BY <1>2
    <3> HIDE DEF S
    <3> QED BY <2>1, <2>2, <3>1, UpTo
  <2> QED BY <2>3
<1>11. ASSUME NEW e \in 1 .. N
       PROVE  Sum(w, e) = next(e) - (b + 1) /\ Sum(w, e - 1) = chunk(e) - (b + 1)
  <2>1. e - 1 \in 0 .. N - 1 /\ e - 1 + 1 = e
    BY <1>2
  <2>2. Sum(w, e - 1) = chunk(e) - (b + 1)
    BY <1>10, <2>1
  <2>3. Sum(w, e) = Sum(w, e - 1) + (next(e) - chunk(e))
    BY <1>9
  <2>4. chunk(e) \in Nat /\ next(e) \in Nat /\ b \in Nat
    BY <1>2
  <2> QED BY <2>2, <2>3, <2>4
<1>12. Total(r) = x.chunks - b
  <2>1. N \in 1 .. N
    BY <1>2
  <2>2. Sum(w, N) = x.chunks + 1 - (b + 1)
    <3>1. Sum(w, N) = next(N) - (b + 1)
      BY <1>11, <2>1
    <3>2. next(N) = x.chunks + 1 /\ next(N) \in Nat /\ b \in Nat /\ x.chunks \in Nat
      BY <1>2, <2>1
    <3> HIDE DEF w
    <3> QED BY <3>1, <3>2
  <2>3. Total(r) = Sum(w, N)
    BY <1>6 DEF Total
  <2> HIDE DEF w
  <2> QED BY <1>2, <2>2, <2>3
<1>13. Total(r) \in Nat
  BY <1>6, RunsKnown
<1>14. InEntries(x) = Spans(r)
  <2>1. InEntries(x) = [e \in 1 .. N |-> InEntry(x, e)]
    BY <1>2 DEF InEntries
  <2>2. \A e \in 1 .. N : InEntry(x, e) = (next(e) - chunk(e)) * x.stsc[e].samples
    BY DEF InEntry, next, chunk
  <2>3. Spans(r) = [e \in 1 .. N |-> r[e].count * r[e].duration]
    <3>1. DOMAIN r = 1 .. N
      BY <1>5
    <3> QED BY <3>1 DEF Spans, Span
  <2>4. \A e \in 1 .. N : InEntry(x, e) = r[e].count * r[e].duration
    BY <1>7, <2>2
  <2> QED BY <2>1, <2>3, <2>4
<1> QED BY <1>1, <1>6, <1>7, <1>11, <1>12, <1>13, <1>14 DEF r, w, chunk, next

\* G counts the samples of the chunks, so it is also what ChunkRuns come to.
LEMMA ChunkTimes ==
  ASSUME NEW x, NEW b, NEW G, Chunked(x, b, G)
  PROVE  /\ \A k, m \in 0 .. x.chunks - b : k <= m => G[k] <= G[m]
         /\ \A e \in 1 .. Len(x.stsc) :
              /\ x.stsc[e].chunk - (b + 1) \in Nat
              /\ Sum(InEntries(x), e - 1) = G[x.stsc[e].chunk - (b + 1)]
              /\ Sum(InEntries(x), e) = G[NextChunk(x, e) - (b + 1)]
              /\ \A m \in 0 .. NextChunk(x, e) - x.stsc[e].chunk :
                   /\ x.stsc[e].chunk - (b + 1) + m \in 0 .. x.chunks - b
                   /\ G[x.stsc[e].chunk - (b + 1) + m]
                        = G[x.stsc[e].chunk - (b + 1)] + m * x.stsc[e].samples
<1> DEFINE r == ChunkRuns(x)
           w == Counts(r)
           M == x.chunks - b
           f == [k \in 0 .. M |-> G[k]]
           v == [k \in 0 .. Total(r) - 1 |-> RunAt(r, k).duration]
           chunk(e) == x.stsc[e].chunk
           next(e) == NextChunk(x, e)
           few(e) == x.stsc[e].samples
<1>1. PICK N : N = Len(x.stsc)
  OBVIOUS
<1>2. /\ N \in Nat \ {0} /\ x.chunks \in Nat /\ b \in Nat
      /\ \A e \in 1 .. N : chunk(e) \in Nat /\ few(e) \in Nat \ {0} /\ next(e) \in Nat
                           /\ chunk(e) < next(e)
  BY <1>1, NextIs
<1>3. /\ r \in Seq(Run) /\ Len(r) = N
      /\ \A e \in 1 .. N : /\ r[e].count = next(e) - chunk(e) /\ r[e].duration = few(e)
                           /\ Sum(w, e) = next(e) - (b + 1) /\ Sum(w, e - 1) = chunk(e) - (b + 1)
      /\ Total(r) = M /\ M \in Nat /\ InEntries(x) = Spans(r)
  BY <1>1, ChunkSums
<1>4. /\ G[0] = 0 /\ (\A k \in 0 .. M : G[k] \in Nat)
      /\ \A e \in 1 .. N : \A k \in 0 .. M - 1 :
           chunk(e) <= b + k + 1 /\ b + k + 1 < next(e) => G[k + 1] = G[k] + few(e)
  BY <1>1 DEF Chunked
<1> HIDE DEF r, chunk, next, few
<1>5. /\ w \in Seq(Nat) /\ Len(w) = N /\ Total(r) = Sum(w, Len(w))
      /\ Spans(r) \in Seq(Nat) /\ Len(Spans(r)) = N
  BY <1>3, RunsKnown
<1>6. ASSUME NEW k \in 0 .. M - 1 PROVE G[k + 1] = G[k] + RunAt(r, k).duration /\ RunAt(r, k).duration \in Nat
  <2>1. PICK e : e = FirstBeyond(w, k)
    OBVIOUS
  <2>2. e \in 1 .. N /\ Sum(w, e - 1) <= k /\ k < Sum(w, e)
    <3>1. k \in Nat /\ k < Sum(w, Len(w))
      BY <1>3, <1>5
    <3> HIDE DEF w
    <3> QED BY <1>5, <2>1, <3>1, EntryFound
  <2>3. chunk(e) <= b + k + 1 /\ b + k + 1 < next(e)
    <3>1. chunk(e) \in Nat /\ next(e) \in Nat /\ b \in Nat /\ k \in Nat
      BY <1>2, <1>3, <2>2
    <3>2. chunk(e) - (b + 1) <= k /\ k < next(e) - (b + 1)
      BY <1>3, <2>2
    <3> QED BY <3>1, <3>2
  <2>4. G[k + 1] = G[k] + few(e) /\ few(e) \in Nat
    BY <1>2, <1>4, <2>2, <2>3
  <2>5. RunAt(r, k).duration = few(e)
    BY <1>3, <2>1, <2>2 DEF RunAt
  <2> QED BY <2>4, <2>5
<1>7. Elapses(f, r)
  <2>1. \A k \in 0 .. M : f[k] = G[k]
    OBVIOUS
  <2>2. f \in [0 .. M -> Nat] /\ f[0] = 0
    BY <1>3, <1>4
  <2>3. ASSUME NEW k \in 0 .. M - 1 PROVE f[k + 1] = f[k] + v[k]
    <3>1. k \in 0 .. M /\ k + 1 \in 0 .. M
      BY <1>3
    <3>2. v[k] = RunAt(r, k).duration
      BY <1>3
    <3>3. f[k + 1] = G[k + 1] /\ f[k] = G[k]
      BY <2>1, <3>1
    <3> HIDE DEF f, v, M
    <3> QED BY <1>6, <3>2, <3>3
  <2> HIDE DEF f, v
  <2>4. SumsUp(f, v, M)
    BY <2>2, <2>3 DEF SumsUp
  <2>5. SumsUp(f, v, Total(r))
    BY <1>3, <2>4
  <2> QED BY <2>5 DEF Elapses, v
<1>8. \A k, m \in 0 .. M : k <= m => G[k] <= G[m]
  <2>1. \A k, m \in 0 .. M : k <= m => f[k] <= f[m]
    <3> HIDE DEF f
    <3> QED BY <1>3, <1>7, ElapsesKnown
  <2>2. \A k \in 0 .. M : f[k] = G[k]
    OBVIOUS
  <2> HIDE DEF f, M
  <2> QED BY <2>1, <2>2
<1>9. ASSUME NEW e \in 1 .. N
      PROVE  /\ chunk(e) - (b + 1) \in Nat
             /\ Sum(InEntries(x), e - 1) = G[chunk(e) - (b + 1)]
             /\ Sum(InEntries(x), e) = G[next(e) - (b + 1)]
             /\ \A m \in 0 .. next(e) - chunk(e) :
                  /\ chunk(e) - (b + 1) + m \in 0 .. M
                  /\ G[chunk(e) - (b + 1) + m] = G[chunk(e) - (b + 1)] + m * few(e)
  <2>1. PICK a : a = chunk(e) - (b + 1)
    OBVIOUS
  <2>2. PICK z : z = next(e) - (b + 1)
    OBVIOUS
  <2>3. PICK c : c = next(e) - chunk(e)
    OBVIOUS
  <2>4. e - 1 \in 0 .. N /\ e \in 0 .. N
    BY <1>2
  <2>5. Sum(w, e - 1) = a /\ Sum(w, e) = z /\ r[e].count = c /\ r[e].duration = few(e)
    BY <1>3, <2>1, <2>2, <2>3
  <2>6. a \in Nat /\ z \in Nat /\ z <= M /\ c \in Nat /\ z = a + c
    <3>1. Sum(w, e - 1) \in Nat /\ Sum(w, e) \in Nat
      BY <1>5, <2>4, SeqSum
    <3>2. N \in 0 .. Len(w) /\ e \in 0 .. Len(w) /\ e <= N
      BY <1>2, <1>5
    <3>3. Sum(w, e) <= Sum(w, N)
      BY <1>5, <3>2, SeqSum
    <3>4. Sum(w, N) = M
      BY <1>3, <1>5
    <3>5. chunk(e) \in Nat /\ next(e) \in Nat /\ chunk(e) < next(e) /\ b \in Nat
      BY <1>2
    <3> HIDE DEF w, M
    <3>6. a \in Nat /\ z \in Nat /\ z <= M
      BY <2>5, <3>1, <3>3, <3>4
    <3> QED BY <2>1, <2>2, <2>3, <3>5, <3>6
  <2>7. /\ \A m \in 0 .. c : f[a + m] = f[a] + m * few(e)
        /\ Sum(Spans(r), e - 1) = f[a] /\ Sum(Spans(r), e) = f[z]
    <3> HIDE DEF f, w
    <3>1. /\ \A m \in 0 .. r[e].count :
               f[Sum(Counts(r), e - 1) + m] = f[Sum(Counts(r), e - 1)] + m * r[e].duration
          /\ Sum(Spans(r), e - 1) = f[Sum(Counts(r), e - 1)]
          /\ Sum(Spans(r), e) = f[Sum(Counts(r), e)]
      <4>1. e \in 1 .. Len(r) /\ e - 1 \in 0 .. Len(r) /\ e \in 0 .. Len(r)
        BY <1>3, <2>4
      <4> QED BY <1>3, <1>7, <4>1, RunTimes
    <3> QED BY <2>5, <3>1 DEF w
  <2>8. \A m \in 0 .. c : a + m \in 0 .. M
    <3>1. M \in Nat
      BY <1>3
    <3> HIDE DEF M
    <3> QED BY <2>6, <3>1
  <2>9. a \in 0 .. M /\ z \in 0 .. M
    <3>1. M \in Nat
      BY <1>3
    <3> HIDE DEF M
    <3> QED BY <2>6, <3>1
  <2>10. \A k \in 0 .. M : f[k] = G[k]
    OBVIOUS
  <2> HIDE DEF f, M
  <2>11. /\ \A m \in 0 .. c : a + m \in 0 .. M /\ G[a + m] = G[a] + m * few(e)
         /\ Sum(InEntries(x), e - 1) = G[a] /\ Sum(InEntries(x), e) = G[z]
    BY <1>3, <2>7, <2>8, <2>9, <2>10
  <2> QED BY <2>1, <2>2, <2>3, <2>6, <2>11
<1>10. \A e \in 1 .. N :
              /\ x.stsc[e].chunk - (b + 1) \in Nat
              /\ Sum(InEntries(x), e - 1) = G[x.stsc[e].chunk - (b + 1)]
              /\ Sum(InEntries(x), e) = G[NextChunk(x, e) - (b + 1)]
              /\ \A m \in 0 .. NextChunk(x, e) - x.stsc[e].chunk :
                   /\ x.stsc[e].chunk - (b + 1) + m \in 0 .. x.chunks - b
                   /\ G[x.stsc[e].chunk - (b + 1) + m]
                        = G[x.stsc[e].chunk - (b + 1)] + m * x.stsc[e].samples
  BY <1>9 DEF chunk, next, few, M
<1> QED BY <1>1, <1>8, <1>10 DEF M

\* The chunks of one entry.
LEMMA EntryTimes ==
  ASSUME NEW x, NEW b, NEW G, Chunked(x, b, G), NEW f \in 1 .. Len(x.stsc)
  PROVE  /\ x.stsc[f].chunk - (b + 1) \in Nat
         /\ Sum(InEntries(x), f - 1) = G[x.stsc[f].chunk - (b + 1)]
         /\ Sum(InEntries(x), f) = G[NextChunk(x, f) - (b + 1)]
         /\ \A m \in 0 .. NextChunk(x, f) - x.stsc[f].chunk :
              /\ x.stsc[f].chunk - (b + 1) + m \in 0 .. x.chunks - b
              /\ G[x.stsc[f].chunk - (b + 1) + m]
                   = G[x.stsc[f].chunk - (b + 1)] + m * x.stsc[f].samples
BY ChunkTimes

\* Where a number of samples ends: in the middle of a chunk, or at the beginning of one.
EndsAt(x, n, e, target, rest) ==
  /\ e = EntryOf(x, n)
  /\ target = x.stsc[e].chunk - 1 + Within(x, n) \div x.stsc[e].samples
  /\ rest = Within(x, n) % x.stsc[e].samples

\* The entry that the loop of update_stsc stops at, and the chunk within it, hold the sample.
LEMMA EntryOfIs ==
  ASSUME NEW x, NEW b, NEW G, Chunked(x, b, G), NEW n \in 0 .. G[x.chunks - b],
         NEW e, NEW target, NEW rest, EndsAt(x, n, e, target, rest)
  PROVE  /\ e \in 1 .. Len(x.stsc) /\ rest \in 0 .. x.stsc[e].samples - 1 /\ target \in Nat
         /\ target - b \in 0 .. x.chunks - b /\ n = G[target - b] + rest
         /\ x.stsc[e].chunk <= target + 1 /\ target + 1 <= NextChunk(x, e)
         /\ rest # 0 => target + 1 < NextChunk(x, e)
         /\ n < G[x.chunks - b] => target + 1 < NextChunk(x, e)
         /\ Within(x, n) = 0 <=> target + 1 = x.stsc[e].chunk /\ rest = 0
<1> DEFINE w == InEntries(x)
           M == x.chunks - b
<1>1. PICK N : N = Len(x.stsc)
  OBVIOUS
<1>2. /\ N \in Nat \ {0} /\ x.chunks \in Nat /\ b \in Nat
      /\ \A f \in 1 .. N : /\ x.stsc[f].chunk \in Nat /\ x.stsc[f].samples \in Nat \ {0}
                           /\ NextChunk(x, f) \in Nat /\ x.stsc[f].chunk < NextChunk(x, f)
      /\ NextChunk(x, N) = x.chunks + 1
  BY <1>1, NextIs
<1>3. w \in Seq(Nat) /\ Len(w) = N /\ M \in Nat
  <2>1. /\ ChunkRuns(x) \in Seq(Run) /\ Len(ChunkRuns(x)) = Len(x.stsc)
        /\ M \in Nat /\ w = Spans(ChunkRuns(x))
    BY ChunkSums
  <2> HIDE DEF w, M
  <2>2. Spans(ChunkRuns(x)) \in Seq(Nat) /\ Len(Spans(ChunkRuns(x))) = Len(ChunkRuns(x))
    BY <2>1, RunsKnown
  <2> QED BY <1>1, <2>1, <2>2
<1>4. \A k \in 0 .. M : G[k] \in Nat
  BY DEF Chunked
<1>5. M \in 0 .. M
  <2> HIDE DEF M
  <2> QED BY <1>3
<1>6. n \in Nat /\ n <= G[M] /\ G[M] \in Nat
  <2>1. G[M] \in Nat /\ n \in 0 .. G[M]
    BY <1>4, <1>5
  <2> QED BY <2>1
<1> DEFINE P(f) == /\ x.stsc[f].chunk - (b + 1) \in Nat
                   /\ Sum(w, f - 1) = G[x.stsc[f].chunk - (b + 1)]
                   /\ Sum(w, f) = G[NextChunk(x, f) - (b + 1)]
                   /\ \A m \in 0 .. NextChunk(x, f) - x.stsc[f].chunk :
                        /\ x.stsc[f].chunk - (b + 1) + m \in 0 .. M
                        /\ G[x.stsc[f].chunk - (b + 1) + m]
                             = G[x.stsc[f].chunk - (b + 1)] + m * x.stsc[f].samples
<1>7. \A f \in 1 .. N : P(f)
  <2>2. ASSUME NEW f \in 1 .. Len(x.stsc) PROVE P(f)
    BY <2>2, EntryTimes
  <2> HIDE DEF P
  <2> QED BY <1>1, <2>2
<1>8. N \in 1 .. N /\ Sum(w, N) = G[M]
  <2>1. N \in 1 .. N
    BY <1>2
  <2>2. x.chunks + 1 - (b + 1) = M
    BY <1>2
  <2>3. P(N)
    <3> HIDE DEF P
    <3> QED BY <1>7, <2>1
  <2>4. Sum(w, N) = G[NextChunk(x, N) - (b + 1)]
    BY <2>3
  <2> QED BY <1>2, <2>1, <2>2, <2>4
<1> DEFINE z == FirstBeyond(w, n)
<1> HIDE DEF w, M
<1>9. /\ z \in 1 .. N + 1 /\ Sum(w, z - 1) <= n
      /\ (z \in 1 .. N => n < Sum(w, z))
      /\ (z = N + 1 <=> Sum(w, N) <= n)
  BY <1>3, <1>6, EntryFound
<1>10. e = Min({N, z})
  BY <1>1 DEF EndsAt, EntryOf, w
<1> HIDE DEF z
<1>11. /\ e \in 1 .. N /\ Sum(w, e - 1) <= n /\ n <= Sum(w, e)
       /\ (n < G[M] => n < Sum(w, e))
       /\ Sum(w, e - 1) \in Nat /\ Sum(w, e) \in Nat
  <2>1. CASE z <= N
    <3>1. z \in {N, z} /\ {N, z} \subseteq Nat /\ \A m \in {N, z} : z <= m
      BY <1>2, <1>9, <2>1
    <3>2. Min({N, z}) = z
      <4>1. PICK S : S = {N, z}
        OBVIOUS
      <4>2. S \subseteq Nat /\ z \in S /\ \A m \in S : z <= m
        BY <3>1, <4>1
      <4>3. Min(S) = z
        BY <4>2, MinIs
      <4> QED BY <4>1, <4>3
    <3>3. e = z /\ z \in 1 .. N
      BY <1>9, <1>10, <2>1, <3>2
    <3>4. e - 1 \in 0 .. N /\ e \in 0 .. N
      BY <1>2, <3>3
    <3>5. Sum(w, e - 1) \in Nat /\ Sum(w, e) \in Nat
      BY <1>3, <3>4, SeqSum
    <3>6. Sum(w, e - 1) <= n /\ n < Sum(w, e)
      BY <1>9, <3>3
    <3> QED BY <1>6, <3>3, <3>5, <3>6
  <2>2. CASE ~ z <= N
    <3>1. z = N + 1
      BY <1>2, <1>9, <2>2
    <3>2. N \in {N, z} /\ {N, z} \subseteq Nat /\ \A m \in {N, z} : N <= m
      BY <1>2, <3>1
    <3>3. e = N
      <4>1. PICK S : S = {N, z}
        OBVIOUS
      <4>2. S \subseteq Nat /\ N \in S /\ \A m \in S : N <= m
        BY <3>2, <4>1
      <4>3. Min(S) = N
        BY <4>2, MinIs
      <4> QED BY <1>10, <4>1, <4>3
    <3>4. n = Sum(w, N) /\ ~ n < G[M]
      BY <1>6, <1>8, <1>9, <3>1
    <3>5. N - 1 \in 0 .. N /\ N \in 0 .. N /\ N - 1 <= N
      BY <1>2
    <3>6. Sum(w, N - 1) \in Nat /\ Sum(w, N) \in Nat /\ Sum(w, N - 1) <= Sum(w, N)
      BY <1>3, <3>5, SeqSum
    <3> QED BY <1>8, <3>3, <3>4, <3>6
  <2> QED BY <2>1, <2>2
<1>27. PICK d : d = x.stsc[e].samples
  OBVIOUS
<1> DEFINE a == x.stsc[e].chunk - (b + 1)
           c == NextChunk(x, e) - x.stsc[e].chunk
           v == Within(x, n)
<1>12. /\ x.stsc[e].chunk \in Nat /\ NextChunk(x, e) \in Nat /\ x.stsc[e].chunk < NextChunk(x, e)
       /\ d \in Nat \ {0} /\ a \in Nat /\ c \in Nat
       /\ Sum(w, e - 1) = G[a] /\ Sum(w, e) = G[NextChunk(x, e) - (b + 1)]
       /\ \A m \in 0 .. c : a + m \in 0 .. M /\ G[a + m] = G[a] + m * d
  <2>1. /\ x.stsc[e].chunk \in Nat /\ NextChunk(x, e) \in Nat /\ x.stsc[e].chunk < NextChunk(x, e)
        /\ d \in Nat \ {0}
    BY <1>2, <1>11, <1>27
  <2>2. c \in Nat
    BY <2>1
  <2>3. /\ a \in Nat
        /\ Sum(w, e - 1) = G[a] /\ Sum(w, e) = G[NextChunk(x, e) - (b + 1)]
        /\ \A m \in 0 .. c : a + m \in 0 .. M /\ G[a + m] = G[a] + m * d
    BY <1>7, <1>11, <1>27
  <2> QED BY <2>1, <2>2, <2>3
<1>13. x.stsc[e].chunk = a + b + 1 /\ NextChunk(x, e) = a + c + b + 1 /\ NextChunk(x, e) - (b + 1) = a + c
  <2>1. PICK f, g : f = x.stsc[e].chunk /\ g = NextChunk(x, e)
    OBVIOUS
  <2>2. f \in Nat /\ g \in Nat /\ b \in Nat /\ a = f - (b + 1) /\ c = g - f
    BY <1>2, <1>12, <2>1
  <2> HIDE DEF a, c
  <2>3. f = a + b + 1 /\ g = a + c + b + 1 /\ g - (b + 1) = a + c
    BY <2>2
  <2> QED BY <2>1, <2>3
<1>24. b \in Nat /\ a \in Nat /\ c \in Nat /\ d \in Nat \ {0}
  BY <1>2, <1>12
<1>14. PICK g : g = G[a]
  OBVIOUS
<1>15. v = n - g
  BY <1>12, <1>14 DEF EndsAt, Within, w
<1>16. g \in Nat /\ g <= n /\ n <= g + c * d /\ (n < G[M] => n < g + c * d)
  <2> HIDE DEF a, c
  <2>1. c \in 0 .. c
    BY <1>24
  <2>2. Sum(w, e) = G[a] + c * d
    BY <1>12, <1>13, <2>1
  <2> QED BY <1>11, <1>12, <1>14, <2>2
<1>17. PICK q, f : q = v \div d /\ f = x.stsc[e].chunk
  OBVIOUS
<1>18. target = f - 1 + q /\ rest = v % d
  BY <1>17, <1>27 DEF EndsAt
<1> HIDE DEF a, c, v
<1>19. /\ q \in 0 .. c /\ rest \in 0 .. d - 1 /\ n = (g + q * d) + rest
       /\ (rest # 0 => q < c) /\ (n < g + c * d => q < c)
       /\ (v = 0 <=> q = 0 /\ rest = 0)
  <2>1. PICK p : p = c * d
    OBVIOUS
  <2>2. p \in Nat /\ n \in Nat /\ g \in Nat /\ g <= n /\ n <= g + p
    <3>1. p \in Nat
      BY <1>24, <2>1
    <3>2. g \in Nat /\ g <= n /\ n <= g + p
      BY <1>16, <2>1
    <3> QED BY <1>6, <3>1, <3>2
  <2>3. v \in Nat /\ v <= p /\ n = g + v
    BY <1>15, <2>2
  <2>4. v \in Nat /\ v <= c * d /\ c \in Nat /\ d \in Nat \ {0}
    BY <1>24, <2>1, <2>3
  <2>5. /\ q \in 0 .. c /\ rest \in 0 .. d - 1 /\ v = q * d + rest
        /\ (rest # 0 => q < c) /\ (v = 0 <=> q = 0 /\ rest = 0)
    BY <1>17, <1>18, <2>4, Divided
  <2>6. PICK m : m = q * d
    OBVIOUS
  <2>7. m \in Nat
    BY <2>4, <2>5, <2>6
  <2>8. n = (g + m) + rest
    <3>1. v = m + rest /\ rest \in Int
      BY <2>5, <2>6
    <3> QED BY <2>2, <2>3, <2>7, <3>1
  <2>9. n < g + p => q < c
    <3> SUFFICES ASSUME n < g + p, q = c PROVE FALSE
      BY <2>4, <2>5
    <3>1. m = p
      BY <2>1, <2>6
    <3>2. rest \in Nat
      BY <2>4, <2>5
    <3> QED BY <2>2, <2>7, <2>8, <3>1, <3>2
  <2> QED BY <2>1, <2>5, <2>6, <2>8, <2>9
<1>26. q \in Nat /\ q <= c /\ (n < g + c * d => q < c)
  <2>1. q \in 0 .. c
    BY <1>19
  <2>2. n < g + c * d => q < c
    BY <1>19
  <2>3. q \in Nat /\ q <= c
    BY <1>24, <2>1
  <2> QED BY <2>2, <2>3
<1>20. n < G[M] => q < c
  BY <1>16, <1>26
<1>21. target = a + b + q /\ target \in Nat /\ target - b = a + q
  <2>1. f = a + b + 1 /\ q \in Nat
    BY <1>13, <1>17, <1>26
  <2> QED BY <1>18, <1>24, <2>1
<1>22. a + q \in 0 .. M /\ n = G[a + q] + rest
  <2>1. a + q \in 0 .. M /\ G[a + q] = G[a] + q * d
    BY <1>12, <1>19
  <2> QED BY <1>14, <1>19, <2>1
<1>23. /\ x.stsc[e].chunk <= target + 1 /\ target + 1 <= NextChunk(x, e)
       /\ (q < c => target + 1 < NextChunk(x, e))
       /\ (q = 0 <=> target + 1 = x.stsc[e].chunk)
  <2>1. PICK m : m = NextChunk(x, e)
    OBVIOUS
  <2>2. f = a + b + 1 /\ m = a + c + b + 1 /\ q \in Nat /\ q <= c
    BY <1>13, <1>17, <1>26, <2>1
  <2>3. /\ f <= target + 1 /\ target + 1 <= m /\ (q < c => target + 1 < m)
        /\ (q = 0 <=> target + 1 = f)
    BY <1>21, <1>24, <2>2
  <2> QED BY <1>17, <2>1, <2>3
<1>25. M = x.chunks - b
  BY DEF M
<1> QED BY <1>1, <1>11, <1>19, <1>20, <1>21, <1>22, <1>23, <1>25, <1>27 DEF v

\* G counts on as F does from b on, d samples being in the first of these m chunks.
Continues(G, F, b, m, d) ==
  /\ G[0] = 0 /\ G[1] = d /\ \A k \in 0 .. m : G[k] \in Nat
  /\ \A k \in 1 .. m - 1 : G[k + 1] - G[k] = F[b + k + 1] - F[b + k]

\* What is left of the map is that of the chunks from b on.
LEMMA LeftChunks ==
  ASSUME NEW x, NEW F, Chunked(x, 0, F), NEW e \in 1 .. Len(x.stsc),
         NEW b \in Nat, x.stsc[e].chunk <= b + 1, b + 1 < NextChunk(x, e),
         NEW d \in Nat \ {0}, d = x.stsc[e].samples \/ NextChunk(x, e) = b + 2,
         NEW z, z.chunks = x.chunks, z.stsc = FromEntry(x.stsc, e, b, d),
         NEW l \in Nat \ {0}, b + l = x.chunks, NEW G, Continues(G, F, b, l, d)
  PROVE  Chunked(z, b, G)
<1>1. PICK N : N = Len(x.stsc)
  OBVIOUS
<1>2. /\ N \in Nat \ {0} /\ x.chunks \in Nat
      /\ \A f \in 1 .. N : /\ x.stsc[f].chunk \in Nat /\ x.stsc[f].samples \in Nat \ {0}
                           /\ NextChunk(x, f) \in Nat /\ x.stsc[f].chunk < NextChunk(x, f)
      /\ \A f \in 2 .. N : x.stsc[f].chunk = NextChunk(x, f - 1)
      /\ NextChunk(x, N) = x.chunks + 1
  BY <1>1, NextIs
<1>3. x.stsc \in Seq(ChunkRun) /\ e \in 1 .. N
  BY <1>1 DEF Chunked
<1>4. PICK L : L = N - e + 1
  OBVIOUS
<1>5. L \in Nat \ {0} /\ e - 1 + L = N /\ \A i_1 \in 1 .. L : e - 1 + i_1 \in 1 .. N
  BY <1>2, <1>3, <1>4
<1> DEFINE q == z.stsc
<1>6. /\ q \in Seq(ChunkRun) /\ Len(q) = L /\ q[1] = [chunk |-> b + 1, samples |-> d]
      /\ \A f \in 2 .. L : q[f] = x.stsc[e - 1 + f]
  <2>1. [chunk |-> b + 1, samples |-> d] \in ChunkRun
    BY DEF ChunkRun
  <2>2. PICK a : a = [chunk |-> b + 1, samples |-> d]
    OBVIOUS
  <2>3. PICK r : r = x.stsc
    OBVIOUS
  <2>4. r \in Seq(ChunkRun) /\ e \in 1 .. Len(r) /\ a \in ChunkRun /\ Len(r) = N
    BY <1>1, <1>3, <2>1, <2>2, <2>3
  <2>5. q = <<a>> \o SubSeq(r, e + 1, Len(r))
    BY <2>2, <2>3 DEF FromEntry
  <2> HIDE DEF q
  <2>6. /\ q \in Seq(ChunkRun) /\ Len(q) = Len(r) - e + 1 /\ q[1] = a
        /\ \A f \in 2 .. Len(r) - e + 1 : q[f] = r[e - 1 + f]
    BY <2>4, <2>5, InFront, SMTT(20)
  <2> QED BY <1>4, <2>2, <2>3, <2>4, <2>6
<1> HIDE DEF q
<1>7. q[1].chunk = b + 1 /\ q[1].samples = d
  <2>1. PICK m : m = b + 1
    OBVIOUS
  <2>2. q[1] = [chunk |-> m, samples |-> d]
    BY <1>6, <2>1
  <2> QED BY <2>1, <2>2
<1>8. ASSUME NEW f \in 1 .. L PROVE NextChunk(z, f) = NextChunk(x, e - 1 + f)
  <2>1. NextChunk(z, f) = IF f < L THEN q[f + 1].chunk ELSE x.chunks + 1
    BY <1>6 DEF NextChunk, q
  <2>2. CASE f < L
    <3>1. f + 1 \in 2 .. L /\ e - 1 + (f + 1) \in 2 .. N /\ e - 1 + (f + 1) - 1 = e - 1 + f
      BY <1>3, <1>5, <2>2
    <3>2. q[f + 1] = x.stsc[e - 1 + (f + 1)]
      BY <1>6, <3>1
    <3>3. x.stsc[e - 1 + (f + 1)].chunk = NextChunk(x, e - 1 + (f + 1) - 1)
      <4>1. PICK g : g = e - 1 + (f + 1)
        OBVIOUS
      <4>2. g \in 2 .. N
        BY <3>1, <4>1
      <4>3. x.stsc[g].chunk = NextChunk(x, g - 1)
        BY <1>2, <4>2
      <4> QED BY <4>1, <4>3
    <3> QED BY <2>1, <2>2, <3>1, <3>2, <3>3
  <2>3. CASE ~ f < L
    <3>1. f = L /\ e - 1 + f = N
      BY <1>5, <2>3
    <3> QED BY <1>2, <2>1, <2>3, <3>1
  <2> QED BY <2>2, <2>3
<1>9. ASSUME NEW f \in 2 .. L
      PROVE  /\ q[f].chunk = x.stsc[e - 1 + f].chunk /\ q[f].samples = x.stsc[e - 1 + f].samples
             /\ e - 1 + f \in 1 .. N
  BY <1>5, <1>6
<1>10. ASSUME NEW f \in 1 .. L PROVE q[f].samples # 0 /\ q[f].chunk < NextChunk(z, f)
  <2>1. CASE f = 1
    <3>1. e - 1 + 1 = e
      BY <1>3
    <3> QED BY <1>7, <1>8, <2>1, <3>1
  <2>2. CASE f # 1
    <3>1. f \in 2 .. L
      BY <1>5, <2>2
    <3> QED BY <1>2, <1>8, <1>9, <3>1
  <2> QED BY <2>1, <2>2
\* The entries behind the first begin behind chunk b.
<1>11. \A f \in 2 .. L : b + 1 < q[f].chunk
  <2> DEFINE S == {k \in 0 .. L - 2 : b + 1 < q[k + 2].chunk}
  <2>1. CASE L = 1
    BY <2>1
  <2>2. CASE L # 1
    <3>1. L - 2 \in Nat /\ 2 \in 2 .. L /\ e - 1 + 2 \in 2 .. N /\ e - 1 + 2 - 1 = e
      BY <1>3, <1>5, <2>2
    <3>2. 0 \in S
      <4>1. q[2].chunk = x.stsc[e - 1 + 2].chunk
        BY <1>9, <3>1
      <4>2. x.stsc[e - 1 + 2].chunk = NextChunk(x, e - 1 + 2 - 1)
        <5>1. PICK g : g = e - 1 + 2
          OBVIOUS
        <5>2. g \in 2 .. N
          BY <3>1, <5>1
        <5>3. x.stsc[g].chunk = NextChunk(x, g - 1)
          BY <1>2, <5>2
        <5> QED BY <5>1, <5>3
      <4>3. b + 1 < q[2].chunk
        BY <3>1, <4>1, <4>2
      <4>4. 0 + 2 = 2 /\ 0 \in 0 .. L - 2
        BY <3>1
      <4> QED BY <4>3, <4>4
    <3>3. ASSUME NEW k \in 0 .. L - 2 - 1, k \in S PROVE k + 1 \in S
      <4>1. k + 2 \in 2 .. L /\ k + 1 + 2 \in 2 .. L /\ k + 1 \in 0 .. L - 2
            /\ e - 1 + (k + 1 + 2) \in 2 .. N /\ e - 1 + (k + 1 + 2) - 1 = e - 1 + (k + 2)
            /\ e - 1 + (k + 2) \in 1 .. N
        BY <1>3, <1>5, <3>1
      <4>2. b + 1 < q[k + 2].chunk
        BY <3>3
      <4>3. q[k + 2].chunk = x.stsc[e - 1 + (k + 2)].chunk
        BY <1>9, <4>1
      <4>4. x.stsc[e - 1 + (k + 2)].chunk < NextChunk(x, e - 1 + (k + 2))
            /\ NextChunk(x, e - 1 + (k + 2)) \in Nat /\ x.stsc[e - 1 + (k + 2)].chunk \in Nat
        BY <1>2, <4>1
      <4>5. q[k + 1 + 2].chunk = x.stsc[e - 1 + (k + 1 + 2)].chunk
        BY <1>9, <4>1
      <4>6. x.stsc[e - 1 + (k + 1 + 2)].chunk = NextChunk(x, e - 1 + (k + 2))
        <5>1. PICK g : g = e - 1 + (k + 1 + 2)
          OBVIOUS
        <5>2. g \in 2 .. N /\ g - 1 = e - 1 + (k + 2)
          BY <4>1, <5>1
        <5>3. x.stsc[g].chunk = NextChunk(x, g - 1)
          BY <1>2, <5>2
        <5> QED BY <5>1, <5>2, <5>3
      <4>7. b + 1 < q[k + 1 + 2].chunk
        <5>1. PICK g, h : g = q[k + 2].chunk /\ h = q[k + 1 + 2].chunk
          OBVIOUS
        <5>2. g \in Nat /\ h \in Nat /\ g < h /\ b + 1 < g
          BY <4>2, <4>3, <4>4, <4>5, <4>6, <5>1
        <5>3. b + 1 < h
          BY <5>2
        <5> QED BY <5>1, <5>3
      <4> QED BY <4>1, <4>7
    <3>4. 0 .. L - 2 \subseteq S
      <4> HIDE DEF S
      <4> QED BY <3>1, <3>2, <3>3, UpTo
    <3>5. ASSUME NEW f \in 2 .. L PROVE b + 1 < q[f].chunk
      <4>1. f - 2 \in 0 .. L - 2 /\ f - 2 + 2 = f
        BY <1>5
      <4>2. f - 2 \in S
        BY <3>4, <4>1
      <4>3. b + 1 < q[f - 2 + 2].chunk
        BY <4>2
      <4> QED BY <4>1, <4>3
    <3> QED BY <3>5
  <2> QED BY <2>1, <2>2
<1>12. x.chunks - b = l /\ l \in Nat \ {0}
  BY <1>2
<1>13. ASSUME NEW f \in 1 .. L, NEW k \in 0 .. x.chunks - b - 1,
              q[f].chunk <= b + k + 1, b + k + 1 < NextChunk(z, f)
       PROVE  G[k + 1] = G[k] + q[f].samples
  <2>1. PICK M : M = x.chunks - b
    OBVIOUS
  <2>2. M \in Nat /\ k \in 0 .. M /\ k + 1 \in 0 .. M /\ k \in Nat
    BY <1>12, <2>1
  <2>3. G[k] \in Nat /\ G[k + 1] \in Nat
    BY <1>12, <2>1, <2>2 DEF Continues
  <2>4. CASE k = 0
    <3>1. f = 1
      <4> SUFFICES ASSUME f # 1 PROVE FALSE
        OBVIOUS
      <4>1. f \in 2 .. L
        BY <1>5
      <4>2. b + 1 < q[f].chunk /\ q[f].chunk \in Nat
        BY <1>2, <1>9, <1>11, <4>1
      <4>3. q[f].chunk <= b + 0 + 1
        BY <1>13, <2>4
      <4> QED BY <4>2, <4>3
    <3>2. k + 1 = 1
      BY <2>4
    <3>3. G[0] = 0 /\ G[1] = d
      BY DEF Continues
    <3> QED BY <1>7, <2>4, <3>1, <3>2, <3>3
  <2>5. CASE k # 0
    <3>1. k \in 1 .. x.chunks - b - 1
      BY <1>12, <2>2, <2>5
    <3>9. b + k \in 0 .. x.chunks - 0 - 1 /\ b + k \in 0 .. x.chunks - 0 /\ b + k + 1 \in 0 .. x.chunks - 0
      <4>1. PICK c : c = x.chunks
        OBVIOUS
      <4>2. c \in Nat /\ c - b \in Nat /\ k \in 1 .. c - b - 1
        BY <1>2, <1>12, <3>1, <4>1
      <4>3. b + k \in 0 .. c - 0 - 1 /\ b + k \in 0 .. c - 0 /\ b + k + 1 \in 0 .. c - 0
        <5>1. PICK g : g = b + k
          OBVIOUS
        <5>2. g \in Nat /\ g + 1 <= c
          BY <4>2, <5>1
        <5>3. g \in 0 .. c - 0 - 1 /\ g \in 0 .. c - 0 /\ g + 1 \in 0 .. c - 0
          BY <4>2, <5>2
        <5> QED BY <5>1, <5>3
      <4> QED BY <4>1, <4>3
    <3>2. G[k + 1] - G[k] = F[b + k + 1] - F[b + k]
      BY <1>12, <3>1 DEF Continues
    <3>3. PICK g : g = e - 1 + f
      OBVIOUS
    <3>4. g \in 1 .. N /\ b + k + 1 < NextChunk(x, g)
      BY <1>5, <1>8, <1>13, <3>3
    <3>5. x.stsc[g].chunk <= b + k + 1 /\ q[f].samples = x.stsc[g].samples
      <4>1. CASE f = 1
        <5>1. g = e
          BY <1>3, <3>3, <4>1
        <5>2. x.stsc[g].chunk <= b + k + 1
          <6>1. x.stsc[g].chunk \in Nat /\ x.stsc[g].chunk <= b + 1
            BY <1>2, <1>3, <5>1
          <6> QED BY <2>2, <6>1
        <5>3. NextChunk(x, e) # b + 2
          <6>1. NextChunk(x, e) \in Nat /\ b + k + 1 < NextChunk(x, e)
            BY <1>2, <1>3, <3>4, <5>1
          <6> QED BY <2>2, <2>5, <6>1
        <5> QED BY <1>7, <4>1, <5>1, <5>2, <5>3
      <4>2. CASE f # 1
        <5>1. f \in 2 .. L
          BY <1>5, <4>2
        <5> QED BY <1>9, <1>13, <3>3, <5>1
      <4> QED BY <4>1, <4>2
    <3>6. F[b + k + 1] = F[b + k] + x.stsc[g].samples
      <4>1. b + k \in 0 .. x.chunks - 0 - 1 /\ 0 + (b + k) + 1 = b + k + 1
        BY <2>2, <3>9
      <4>2. g \in 1 .. Len(x.stsc)
        BY <1>1, <3>4
      <4>3. F[(b + k) + 1] = F[b + k] + x.stsc[g].samples
        BY <3>4, <3>5, <4>1, <4>2 DEF Chunked
      <4> QED BY <4>3
    <3>7. F[b + k] \in Nat /\ F[b + k + 1] \in Nat /\ x.stsc[g].samples \in Nat
      <4>1. b + k \in 0 .. x.chunks - 0 /\ b + k + 1 \in 0 .. x.chunks - 0
        BY <3>9
      <4>2. x.stsc[g].samples \in Nat
        BY <1>2, <3>4
      <4> QED BY <4>1, <4>2 DEF Chunked
    <3>8. G[k + 1] = G[k] + x.stsc[g].samples
      <4>1. PICK u, v, m, w, i_1 : u = G[k + 1] /\ v = G[k] /\ m = F[b + k + 1] /\ w = F[b + k]
                              /\ i_1 = x.stsc[g].samples
        OBVIOUS
      <4>2. u \in Nat /\ v \in Nat /\ m \in Nat /\ w \in Nat /\ i_1 \in Nat
        BY <2>3, <3>7, <4>1
      <4>3. u - v = m - w /\ m = w + i_1
        BY <3>2, <3>6, <4>1
      <4>4. u = v + i_1
        BY <4>2, <4>3
      <4> QED BY <4>1, <4>4
    <3> QED BY <3>5, <3>8
  <2> QED BY <2>4, <2>5
<1>14. Chunked(z, b, G)
  <2>1. Len(q) >= 1 /\ q \in Seq(ChunkRun) /\ Len(q) = L
    BY <1>5, <1>6
  <2>2. z.chunks \in Nat /\ b \in Nat
    BY <1>2
  <2>3. \A f \in 1 .. Len(q) : q[f].samples # 0 /\ q[f].chunk < NextChunk(z, f)
    BY <1>6, <1>10
  <2>4. \A f \in 1 .. Len(q) : \A k \in 0 .. z.chunks - b - 1 :
          q[f].chunk <= b + k + 1 /\ b + k + 1 < NextChunk(z, f) => G[k + 1] = G[k] + q[f].samples
    BY <1>6, <1>13
  <2>5. (\A k \in 0 .. z.chunks - b : G[k] \in Nat) /\ G[0] = 0
    BY <1>12 DEF Continues
  <2> QED BY <1>7, <2>1, <2>2, <2>3, <2>4, <2>5 DEF Chunked, q
<1> QED BY <1>14

\* The samples behind number v in the m chunks from b on.
After(F, b, v, m) == [k \in 0 .. m |-> IF k = 0 THEN 0 ELSE F[b + k] - v]

\* The chunk map is of natural numbers that do not fall.
LEMMA ChunkCounts ==
  ASSUME NEW x, NEW F, Chunked(x, 0, F)
  PROVE  /\ x.chunks \in Nat /\ F[0] = 0
         /\ \A k \in 0 .. x.chunks : F[k] \in Nat
         /\ \A k, m \in 0 .. x.chunks : k <= m => F[k] <= F[m]
<1>1. x.chunks \in Nat /\ F[0] = 0 /\ \A k \in 0 .. x.chunks - 0 : F[k] \in Nat
  BY DEF Chunked
<1>2. \A k, m \in 0 .. x.chunks - 0 : k <= m => F[k] <= F[m]
  BY ChunkTimes
<1>3. x.chunks - 0 = x.chunks
  BY <1>1
<1> QED BY <1>1, <1>2, <1>3

\* What the chunks from b on hold is what they held, but for the first one.
LEMMA AfterContinues ==
  ASSUME NEW x, NEW F, Chunked(x, 0, F), NEW b \in Nat, NEW m \in Nat \ {0}, b + m = x.chunks,
         NEW v \in Nat, v <= F[b + 1], NEW d, d = F[b + 1] - v
  PROVE  /\ Continues(After(F, b, v, m), F, b, m, d)
         /\ After(F, b, v, m)[0] = 0 /\ \A k \in 1 .. m : After(F, b, v, m)[k] = F[b + k] - v
<1> DEFINE G == After(F, b, v, m)
<1>1. \A k \in 0 .. m : G[k] = IF k = 0 THEN 0 ELSE F[b + k] - v
  BY DEF After
<1> HIDE DEF G
<1>2. \A k \in 1 .. m : G[k] = F[b + k] - v
  BY <1>1
<1>3. G[0] = 0 /\ G[1] = d
  BY <1>1, <1>2
<1>4. PICK c : c = x.chunks
  OBVIOUS
<1>5. c \in Nat /\ b + m = c /\ (\A k \in 0 .. c : F[k] \in Nat)
      /\ \A k, l \in 0 .. c : k <= l => F[k] <= F[l]
  BY <1>4, ChunkCounts
<1>6. ASSUME NEW k \in 1 .. m PROVE F[b + k] \in Nat /\ F[b + k] - v \in Nat
  <2>1. b + k \in 0 .. c /\ b + 1 \in 0 .. c /\ b + 1 <= b + k
    BY <1>5
  <2>2. F[b + k] \in Nat /\ F[b + 1] \in Nat /\ F[b + 1] <= F[b + k]
    BY <1>5, <2>1
  <2>3. PICK f, g : f = F[b + k] /\ g = F[b + 1]
    OBVIOUS
  <2>4. f \in Nat /\ g \in Nat /\ g <= f /\ v <= g
    BY <2>2, <2>3
  <2>5. f - v \in Nat
    BY <2>4
  <2> QED BY <2>3, <2>4, <2>5
<1>7. \A k \in 0 .. m : G[k] \in Nat
  <2>1. ASSUME NEW k \in 0 .. m PROVE G[k] \in Nat
    <3>1. CASE k = 0
      BY <1>3, <3>1
    <3>2. CASE k # 0
      <4>1. k \in 1 .. m
        BY <3>2
      <4> QED BY <1>2, <1>6, <4>1
    <3> QED BY <3>1, <3>2
  <2> QED BY <2>1
<1>8. ASSUME NEW k \in 1 .. m - 1 PROVE G[k + 1] - G[k] = F[b + k + 1] - F[b + k]
  <2>1. k \in 1 .. m /\ k + 1 \in 1 .. m
    OBVIOUS
  <2>2. F[b + k] \in Nat /\ F[b + (k + 1)] \in Nat /\ G[k] = F[b + k] - v /\ G[k + 1] = F[b + (k + 1)] - v
    BY <1>2, <1>6, <2>1
  <2>3. b + (k + 1) = b + k + 1
    OBVIOUS
  <2>4. PICK f, g : f = F[b + k] /\ g = F[b + k + 1]
    OBVIOUS
  <2>5. f \in Nat /\ g \in Nat /\ G[k] = f - v /\ G[k + 1] = g - v
    BY <2>2, <2>3, <2>4
  <2>6. (g - v) - (f - v) = g - f
    BY <2>5
  <2> QED BY <2>4, <2>5, <2>6
<1> QED BY <1>2, <1>3, <1>7, <1>8 DEF Continues, G

\* From sample v on, chunk sc is the first: all of it is in the map, or what is left of it
\* has an entry of its own.
StartsAt(x, z, F, sc, v) ==
  /\ sc \in 0 .. x.chunks - 1 /\ F[sc] <= v /\ v < F[sc + 1]
  /\ z.start_chunk = sc /\ z.start_chunk_samples = v - F[sc]
  /\ z.sample_to_chunk_entries = Len(z.stsc_start) + Len(z.stsc)
  /\ \/ z.stsc_start = <<>> /\ Chunked(z, sc, After(F, sc, v, x.chunks - sc))
     \/ /\ z.stsc_start = <<[chunk |-> 1, samples |-> F[sc + 1] - v]>> /\ sc + 1 < x.chunks
        /\ Chunked(z, sc + 1, After(F, sc + 1, F[sc + 1], x.chunks - (sc + 1)))

\* The first half of update_stsc leaves the chunks from that of the first sample on.
LEMMA StartStsc ==
  ASSUME NEW x, DOMAIN x = Fields, NEW F, Chunked(x, 0, F), x.stsc_start = <<>>,
         x.start_sample \in Nat, x.start_sample < F[x.chunks], NEW z, z = StartOfStsc(x)
  PROVE  /\ StartsAt(x, z, F, z.start_chunk, x.start_sample)
         /\ Keeps(x, z, {"stsc", "stsc_start", "sample_to_chunk_entries", "start_chunk",
                         "start_chunk_samples"})
<1> DEFINE same == {"stsc", "stsc_start", "sample_to_chunk_entries", "start_chunk",
                    "start_chunk_samples"}
           q == x.stsc
<1>1. PICK v : v = x.start_sample
  OBVIOUS
<1>2. PICK N : N = x.chunks
  OBVIOUS
<1>3. /\ N \in Nat /\ v \in Nat /\ v < F[N] /\ F[0] = 0
      /\ \A k \in 0 .. N : F[k] \in Nat
      /\ \A k, m \in 0 .. N : k <= m => F[k] <= F[m]
  BY <1>1, <1>2, ChunkCounts
<1>4. PICK e : e = EntryOf(x, v)
  OBVIOUS
<1>5. PICK sc : sc = q[e].chunk - 1 + Within(x, v) \div q[e].samples
  OBVIOUS
<1>6. PICK rest : rest = Within(x, v) % q[e].samples
  OBVIOUS
<1>7. /\ e \in 1 .. Len(q) /\ rest \in 0 .. q[e].samples - 1 /\ sc \in Nat
      /\ sc \in 0 .. N /\ v = F[sc] + rest
      /\ q[e].chunk <= sc + 1 /\ sc + 1 < NextChunk(x, e)
  <2>1. EndsAt(x, v, e, sc, rest)
    BY <1>4, <1>5, <1>6 DEF EndsAt
  <2>2. N - 0 = N /\ N \in 0 .. N
    BY <1>3
  <2>3. F[N] \in Nat
    BY <1>3, <2>2
  <2>4. v \in 0 .. F[N - 0] /\ v < F[N - 0]
    BY <1>3, <2>2, <2>3
  <2>5. /\ e \in 1 .. Len(q) /\ rest \in 0 .. q[e].samples - 1 /\ sc \in Nat
        /\ sc - 0 \in 0 .. N - 0 /\ v = F[sc - 0] + rest
        /\ q[e].chunk <= sc + 1 /\ sc + 1 < NextChunk(x, e)
    BY <1>2, <2>1, <2>4, EntryOfIs
  <2>6. sc - 0 = sc
    BY <2>5
  <2> QED BY <2>2, <2>5, <2>6
<1>8. /\ q[e].chunk \in Nat /\ q[e].samples \in Nat \ {0} /\ NextChunk(x, e) \in Nat
      /\ q \in Seq(ChunkRun) /\ Len(q) \in Nat
  <2>1. q \in Seq(ChunkRun)
    BY DEF Chunked
  <2>2. Len(q) \in Nat
    BY <2>1
  <2>3. q[e].chunk \in Nat /\ q[e].samples \in Nat \ {0} /\ NextChunk(x, e) \in Nat
    BY <1>7, NextIs
  <2> QED BY <2>1, <2>2, <2>3
<1>9. sc \in 0 .. N - 1
  <2>1. sc # N
    BY <1>3, <1>7
  <2> QED BY <1>3, <1>7, <2>1
<1>10. PICK d \in Nat \ {0} : d = q[e].samples
  BY <1>8
<1>11. F[sc + 1] = F[sc] + d /\ F[sc] \in Nat /\ F[sc + 1] \in Nat
  <2>1. sc \in 0 .. x.chunks - 0 - 1 /\ 0 + sc + 1 = sc + 1
    BY <1>2, <1>3, <1>9
  <2>2. q[e].chunk <= 0 + sc + 1 /\ 0 + sc + 1 < NextChunk(x, e)
    BY <1>7, <2>1
  <2>3. F[sc + 1] = F[sc] + q[e].samples
    BY <1>7, <2>1, <2>2 DEF Chunked
  <2>4. sc \in 0 .. N /\ sc + 1 \in 0 .. N
    BY <1>3, <1>9
  <2> QED BY <1>3, <1>10, <2>3, <2>4
<1>12. rest \in Nat /\ rest < d
  BY <1>7, <1>10
<1>13. F[sc] <= v /\ v < F[sc + 1] /\ v - F[sc] = rest /\ F[sc + 1] - v = d - rest
       /\ d - rest \in Nat \ {0}
  <2>1. PICK f, g : f = F[sc] /\ g = F[sc + 1]
    OBVIOUS
  <2>2. f \in Nat /\ g = f + d /\ v = f + rest
    BY <1>7, <1>11, <2>1
  <2>3. f <= v /\ v < g /\ v - f = rest /\ g - v = d - rest /\ d - rest \in Nat \ {0}
    BY <1>12, <2>2
  <2> QED BY <2>1, <2>3
<1> DEFINE y == [x EXCEPT !.start_chunk = sc, !.start_chunk_samples = rest,
                          !.sample_to_chunk_entries = Len(q) - e + 1,
                          !.stsc = <<[q[e] EXCEPT !.chunk = sc + 1]>> \o SubSeq(q, e + 1, Len(q))]
<1>14. z = IF rest = 0 THEN y
           ELSE IF NextChunk(x, e) - sc = 2
           THEN [y EXCEPT !.stsc[1].samples = q[e].samples - rest]
           ELSE [y EXCEPT !.stsc_start = <<[chunk |-> 1, samples |-> q[e].samples - rest]>>,
                          !.stsc[1].chunk = sc + 2,
                          !.sample_to_chunk_entries = @ + 1]
  <2>1. x.start_sample = v
    BY <1>1
  <2> QED BY <1>4, <1>5, <1>6, <2>1 DEF StartOfStsc
<1>15. PICK Q : Q = FromEntry(q, e, sc, d)
  OBVIOUS
<1>16. <<[q[e] EXCEPT !.chunk = sc + 1]>> \o SubSeq(q, e + 1, Len(q)) = Q
  BY <1>7, <1>8, <1>10, <1>15, FrontEntry
<1>17. y = [x EXCEPT !.start_chunk = sc, !.start_chunk_samples = rest,
                     !.sample_to_chunk_entries = Len(q) - e + 1, !.stsc = Q]
  BY <1>16
<1>18. /\ Keeps(x, y, same) /\ y.stsc = Q /\ y.stsc_start = <<>> /\ y.start_chunk = sc
       /\ y.start_chunk_samples = rest /\ y.sample_to_chunk_entries = Len(q) - e + 1
       /\ y.chunks = N
  <2> HIDE DEF y, q
  <2> QED BY <1>2, <1>17 DEF Keeps, Fields
<1> HIDE DEF y
<1>19. Len(q) - e + 1 \in Nat /\ Len(<<>>) = 0
  BY <1>7, <1>8
<1>23. N - sc \in Nat \ {0} /\ sc + (N - sc) = x.chunks
  <2>1. N - sc \in Nat \ {0} /\ sc + (N - sc) = N
    BY <1>3, <1>7, <1>9
  <2> QED BY <1>2, <2>1
<1>20. CASE rest = 0
  <2>1. z = y
    BY <1>14, <1>20
  <2>2. Continues(After(F, sc, v, N - sc), F, sc, N - sc, d)
    <3>1. N - sc \in Nat \ {0} /\ sc + (N - sc) = x.chunks /\ v <= F[sc + 1] /\ d = F[sc + 1] - v
      <4>1. F[sc + 1] - v = d /\ v <= F[sc + 1]
        <5>1. d - rest = d
          BY <1>10, <1>20
        <5> QED BY <1>3, <1>11, <1>13, <5>1
      <4> QED BY <1>23, <4>1
    <3> QED BY <1>3, <1>7, <3>1, AfterContinues
  <2>3. Chunked(z, sc, After(F, sc, v, N - sc))
    <3>1. z.chunks = x.chunks /\ z.stsc = FromEntry(x.stsc, e, sc, d) /\ d = x.stsc[e].samples
      BY <1>2, <1>10, <1>15, <1>18, <2>1
    <3> QED BY <1>2, <1>7, <1>10, <1>23, <2>2, <3>1, LeftChunks
  <2>4. z.sample_to_chunk_entries = Len(z.stsc_start) + Len(z.stsc)
    <3>1. Len(z.stsc) = Len(q) - e + 1
      <4>1. d \in Nat
        BY <1>10
      <4>2. Len(FromEntry(q, e, sc, d)) = Len(q) - e + 1
        <5>1. q \in Seq(ChunkRun) /\ e \in 1 .. Len(q) /\ sc \in Nat
          BY <1>7, <1>8
        <5> HIDE DEF q
        <5> QED BY <5>1, <4>1, FrontLength
      <4> QED BY <1>15, <1>18, <2>1, <4>2
    <3>2. PICK k : k = Len(q) - e + 1
      OBVIOUS
    <3>3. Len(z.stsc) = k /\ k \in Nat /\ z.sample_to_chunk_entries = k /\ Len(z.stsc_start) = 0
      BY <1>18, <1>19, <2>1, <3>1, <3>2
    <3> QED BY <3>3
  <2>5. StartsAt(x, z, F, sc, v)
    BY <1>2, <1>9, <1>13, <1>18, <2>1, <2>3, <2>4 DEF StartsAt
  <2> QED BY <1>1, <1>18, <2>1, <2>5
<1>21. CASE rest # 0 /\ NextChunk(x, e) - sc = 2
  <2>1. z = [y EXCEPT !.stsc = FromEntry(q, e, sc, d - rest)]
    <3>1. z = [y EXCEPT !.stsc[1].samples = d - rest]
      BY <1>10, <1>14, <1>21
    <3>2. [Q EXCEPT ![1].samples = d - rest] = FromEntry(q, e, sc, d - rest)
      <4>1. d \in Nat /\ sc \in Nat
        BY <1>7, <1>10
      <4>2. PICK k \in Nat : k = d - rest
        BY <1>13
      <4>3. [FromEntry(q, e, sc, d) EXCEPT ![1].samples = k] = FromEntry(q, e, sc, k)
        <5>1. q \in Seq(ChunkRun) /\ e \in 1 .. Len(q) /\ sc \in Nat
          BY <1>7, <1>8
        <5> HIDE DEF q
        <5> QED BY <5>1, <4>1, <4>2, FrontSamples, SMTT(20)
      <4> QED BY <1>15, <4>2, <4>3
    <3>3. z = [y EXCEPT !.stsc = [y.stsc EXCEPT ![1].samples = d - rest]]
      BY <3>1
    <3> QED BY <1>18, <3>2, <3>3
  <2>2. /\ Keeps(x, z, same) /\ z.stsc = FromEntry(q, e, sc, d - rest) /\ z.stsc_start = <<>>
        /\ z.start_chunk = sc /\ z.start_chunk_samples = rest
        /\ z.sample_to_chunk_entries = Len(q) - e + 1 /\ z.chunks = N
    <3> HIDE DEF q
    <3> QED BY <1>18, <2>1 DEF Keeps, Fields
  <2>3. Continues(After(F, sc, v, N - sc), F, sc, N - sc, d - rest)
    <3>1. N - sc \in Nat \ {0} /\ sc + (N - sc) = x.chunks /\ v <= F[sc + 1] /\ d - rest = F[sc + 1] - v
      <4>1. v <= F[sc + 1]
        BY <1>3, <1>11, <1>13
      <4> QED BY <1>13, <1>23, <4>1
    <3> QED BY <1>3, <1>7, <3>1, AfterContinues
  <2>4. Chunked(z, sc, After(F, sc, v, N - sc))
    <3>1. z.chunks = x.chunks /\ z.stsc = FromEntry(x.stsc, e, sc, d - rest) /\ NextChunk(x, e) = sc + 2
      BY <1>2, <1>7, <1>8, <1>21, <2>2
    <3> QED BY <1>2, <1>7, <1>13, <1>23, <2>3, <3>1, LeftChunks
  <2>5. z.sample_to_chunk_entries = Len(z.stsc_start) + Len(z.stsc)
    <3>1. Len(z.stsc) = Len(q) - e + 1
      <4>1. d - rest \in Nat
        BY <1>13
      <4>2. Len(FromEntry(q, e, sc, d - rest)) = Len(q) - e + 1
        <5>1. q \in Seq(ChunkRun) /\ e \in 1 .. Len(q) /\ sc \in Nat
          BY <1>7, <1>8
        <5> HIDE DEF q
        <5> QED BY <5>1, <4>1, FrontLength
      <4> QED BY <2>2, <4>2
    <3>2. PICK k : k = Len(q) - e + 1
      OBVIOUS
    <3>3. Len(z.stsc) = k /\ k \in Nat /\ z.sample_to_chunk_entries = k /\ Len(z.stsc_start) = 0
      BY <1>19, <2>2, <3>1, <3>2
    <3> QED BY <3>3
  <2>6. StartsAt(x, z, F, sc, v)
    BY <1>2, <1>9, <1>13, <2>2, <2>4, <2>5 DEF StartsAt
  <2> QED BY <1>1, <2>2, <2>6
<1>22. CASE rest # 0 /\ NextChunk(x, e) - sc # 2
  <2>1. z = [y EXCEPT !.stsc_start = <<[chunk |-> 1, samples |-> d - rest]>>,
                      !.stsc = FromEntry(q, e, sc + 1, d), !.sample_to_chunk_entries = @ + 1]
    <3>1. z = [y EXCEPT !.stsc_start = <<[chunk |-> 1, samples |-> d - rest]>>,
                        !.stsc[1].chunk = sc + 2, !.sample_to_chunk_entries = @ + 1]
      BY <1>10, <1>14, <1>22
    <3>2. sc + 1 \in Nat /\ sc + 2 = (sc + 1) + 1
      BY <1>7
    <3>3. [Q EXCEPT ![1].chunk = (sc + 1) + 1] = FromEntry(q, e, sc + 1, d)
      <4>1. d \in Nat /\ sc \in Nat
        BY <1>7, <1>10
      <4>2. PICK k \in Nat : k = sc + 1
        BY <3>2
      <4>3. [FromEntry(q, e, sc, d) EXCEPT ![1].chunk = sc + 2] = FromEntry(q, e, k, d)
        <5>1. q \in Seq(ChunkRun) /\ e \in 1 .. Len(q) /\ sc \in Nat
          BY <1>7, <1>8
        <5> HIDE DEF q
        <5>2. [FromEntry(q, e, sc, d) EXCEPT ![1].chunk = OneMore(k)] = FromEntry(q, e, k, d)
          <6>1. k \in Nat
            OBVIOUS
          <6>2. d \in Nat
            BY <4>1
          <6> QED BY <5>1, <6>1, <6>2, FrontChunk
        <5>3. OneMore(k) = sc + 2
          BY <4>1, <4>2 DEF OneMore
        <5> QED BY <5>2, <5>3
      <4>4. (sc + 1) + 1 = sc + 2
        BY <4>1
      <4> QED BY <1>15, <4>2, <4>3, <4>4
    <3>4. [y.stsc EXCEPT ![1].chunk = sc + 2] = FromEntry(q, e, sc + 1, d)
      BY <1>18, <3>2, <3>3
    <3>5. z = [y EXCEPT !.stsc_start = <<[chunk |-> 1, samples |-> d - rest]>>,
                        !.stsc = [y.stsc EXCEPT ![1].chunk = sc + 2], !.sample_to_chunk_entries = @ + 1]
      BY <3>1
    <3> QED BY <3>4, <3>5
  <2>2. /\ Keeps(x, z, same) /\ z.stsc = FromEntry(q, e, sc + 1, d)
        /\ z.stsc_start = <<[chunk |-> 1, samples |-> d - rest]>>
        /\ z.start_chunk = sc /\ z.start_chunk_samples = rest
        /\ z.sample_to_chunk_entries = Len(q) - e + 1 + 1 /\ z.chunks = N
    <3>1. PICK w : w = Len(q) - e + 1 + 1
      OBVIOUS
    <3>2. PICK u : u = FromEntry(q, e, sc + 1, d)
      OBVIOUS
    <3>3. z = [y EXCEPT !.stsc_start = <<[chunk |-> 1, samples |-> d - rest]>>, !.stsc = u,
                        !.sample_to_chunk_entries = w]
      BY <1>18, <2>1, <3>1, <3>2
    <3>4. /\ Keeps(x, z, same) /\ z.stsc = u
          /\ z.stsc_start = <<[chunk |-> 1, samples |-> d - rest]>>
          /\ z.start_chunk = sc /\ z.start_chunk_samples = rest
          /\ z.sample_to_chunk_entries = w /\ z.chunks = N
      <4> HIDE DEF q
      <4> QED BY <1>18, <3>3, Zenon DEF Keeps, Fields
    <3> QED BY <3>1, <3>2, <3>4
  <2>3. sc + 1 \in Nat /\ q[e].chunk <= (sc + 1) + 1 /\ (sc + 1) + 1 < NextChunk(x, e)
    BY <1>7, <1>8, <1>22, SMTT(20)
  <2>4. sc + 1 < N
    <3>1. NextChunk(x, e) <= N + 1
      <4>1. NextChunk(x, e) - (0 + 1) \in 0 .. N
        <5>1. /\ q[e].chunk - (0 + 1) + (NextChunk(x, e) - q[e].chunk) \in 0 .. x.chunks - 0
          <6>1. NextChunk(x, e) - q[e].chunk \in 0 .. NextChunk(x, e) - q[e].chunk
            <7>1. PICK f, g : f = q[e].chunk /\ g = NextChunk(x, e)
              OBVIOUS
            <7>2. f \in Nat /\ g \in Nat /\ f < g
              BY <1>7, <1>8, <7>1
            <7>3. g - f \in 0 .. g - f
              BY <7>2
            <7> QED BY <7>1, <7>3
          <6> QED BY <1>7, <6>1, EntryTimes
        <5>2. PICK f, g : f = q[e].chunk /\ g = NextChunk(x, e)
          OBVIOUS
        <5>3. f \in Nat /\ g \in Nat /\ f - (0 + 1) + (g - f) \in 0 .. N - 0
          BY <1>2, <1>8, <5>1, <5>2
        <5>4. g - (0 + 1) \in 0 .. N
          BY <1>3, <5>3
        <5> QED BY <5>2, <5>4
      <4> QED BY <1>3, <1>8, <4>1
    <3> QED BY <1>3, <1>7, <1>8, <2>3, <3>1
  <2>5. F[(sc + 1) + 1] = F[sc + 1] + d /\ F[(sc + 1) + 1] \in Nat
    <3>1. sc + 1 \in 0 .. x.chunks - 0 - 1 /\ 0 + (sc + 1) + 1 = (sc + 1) + 1
      BY <1>2, <1>3, <1>7, <2>4
    <3>2. q[e].chunk <= 0 + (sc + 1) + 1 /\ 0 + (sc + 1) + 1 < NextChunk(x, e)
      BY <2>3, <3>1
    <3>3. F[(sc + 1) + 1] = F[sc + 1] + q[e].samples
      BY <1>7, <3>1, <3>2 DEF Chunked
    <3> QED BY <1>10, <1>11, <3>3
  <2>6. Continues(After(F, sc + 1, F[sc + 1], N - (sc + 1)), F, sc + 1, N - (sc + 1), d)
    <3>1. N - (sc + 1) \in Nat \ {0} /\ (sc + 1) + (N - (sc + 1)) = x.chunks
      BY <1>2, <1>3, <1>7, <2>4
    <3>2. F[sc + 1] <= F[(sc + 1) + 1] /\ d = F[(sc + 1) + 1] - F[sc + 1]
      BY <1>11, <2>5
    <3> QED BY <1>11, <2>3, <3>1, <3>2, AfterContinues
  <2>7. /\ Chunked(z, sc + 1, After(F, sc + 1, F[sc + 1], N - (sc + 1)))
       
    <3>1. z.chunks = x.chunks /\ z.stsc = FromEntry(x.stsc, e, sc + 1, d) /\ d = x.stsc[e].samples
      BY <1>2, <1>10, <2>2
    <3>2. N - (sc + 1) \in Nat \ {0} /\ (sc + 1) + (N - (sc + 1)) = x.chunks
      BY <1>2, <1>3, <1>7, <2>4
    <3> QED BY <1>2, <1>7, <1>10, <2>3, <2>6, <3>1, <3>2, LeftChunks
  <2>8. z.sample_to_chunk_entries = Len(z.stsc_start) + Len(z.stsc)
    <3>1. Len(z.stsc_start) = 1
      BY <2>2
    <3>2. PICK k : k = Len(q) - e + 1
      OBVIOUS
    <3>3. Len(z.stsc) = Len(q) - e + 1
      <4>1. d \in Nat /\ sc + 1 \in Nat
        BY <1>7, <1>10
      <4>2. Len(FromEntry(q, e, sc + 1, d)) = Len(q) - e + 1
        <5>1. q \in Seq(ChunkRun) /\ e \in 1 .. Len(q) /\ sc \in Nat
          BY <1>7, <1>8
        <5> HIDE DEF q
        <5> QED BY <5>1, <4>1, FrontLength
      <4> QED BY <2>2, <4>2
    <3>4. Len(z.stsc) = k /\ k \in Nat /\ z.sample_to_chunk_entries = k + 1
      BY <1>19, <2>2, <3>2, <3>3
    <3> QED BY <3>1, <3>4
  <2>9. StartsAt(x, z, F, sc, v)
    BY <1>2, <1>9, <1>13, <2>2, <2>4, <2>7, <2>8 DEF StartsAt
  <2> QED BY <1>1, <2>2, <2>9
<1> QED BY <1>20, <1>21, <1>22

\* The entries follow each other.
LEMMA EntriesRise ==
  ASSUME NEW x, NEW b, NEW G, Chunked(x, b, G),
         NEW f \in 1 .. Len(x.stsc), NEW g \in 1 .. Len(x.stsc), f < g
  PROVE  NextChunk(x, f) <= x.stsc[g].chunk
<1> DEFINE w == Counts(ChunkRuns(x))
<1>1. /\ ChunkRuns(x) \in Seq(Run) /\ Len(ChunkRuns(x)) = Len(x.stsc)
      /\ Sum(w, f) = NextChunk(x, f) - (b + 1) /\ Sum(w, g - 1) = x.stsc[g].chunk - (b + 1)
  BY ChunkSums
<1>2. w \in Seq(Nat) /\ Len(w) = Len(x.stsc)
  BY <1>1, RunsKnown
<1>3. /\ Len(x.stsc) \in Nat /\ b \in Nat
      /\ NextChunk(x, f) \in Nat /\ x.stsc[g].chunk \in Nat
  BY NextIs
<1> HIDE DEF w
<1>4. f \in 0 .. Len(w) /\ g - 1 \in 0 .. Len(w) /\ f <= g - 1
  BY <1>2, <1>3
<1>5. Sum(w, f) <= Sum(w, g - 1)
  BY <1>2, <1>4, SeqSum
<1>6. PICK u, v : u = NextChunk(x, f) /\ v = x.stsc[g].chunk
  OBVIOUS
<1>7. u \in Nat /\ v \in Nat /\ u - (b + 1) <= v - (b + 1) /\ b \in Nat
  BY <1>1, <1>3, <1>5, <1>6
<1>8. u <= v
  BY <1>7
<1> QED BY <1>6, <1>8

\* Every chunk is in one.
LEMMA ChunkEntry ==
  ASSUME NEW x, NEW b, NEW G, Chunked(x, b, G), NEW k \in 0 .. x.chunks - b - 1
  PROVE  \E f \in 1 .. Len(x.stsc) :
           /\ x.stsc[f].chunk <= b + k + 1 /\ b + k + 1 < NextChunk(x, f)
           /\ G[k + 1] = G[k] + x.stsc[f].samples
<1> DEFINE w == Counts(ChunkRuns(x))
<1>1. PICK N : N = Len(x.stsc)
  OBVIOUS
<1>2. /\ ChunkRuns(x) \in Seq(Run) /\ Len(ChunkRuns(x)) = N
      /\ \A f \in 1 .. N : /\ Sum(w, f) = NextChunk(x, f) - (b + 1)
                           /\ Sum(w, f - 1) = x.stsc[f].chunk - (b + 1)
      /\ Total(ChunkRuns(x)) = x.chunks - b /\ x.chunks - b \in Nat
  BY <1>1, ChunkSums
<1>3. w \in Seq(Nat) /\ Len(w) = N /\ Total(ChunkRuns(x)) = Sum(w, Len(w))
  BY <1>2, RunsKnown
<1>4. /\ N \in Nat /\ b \in Nat
      /\ \A f \in 1 .. N : NextChunk(x, f) \in Nat /\ x.stsc[f].chunk \in Nat
  BY <1>1, NextIs
<1> HIDE DEF w
<1>5. k \in Nat /\ k < Sum(w, Len(w))
  <2>1. PICK m \in Nat : m = x.chunks - b
    BY <1>2
  <2>2. k \in 0 .. m - 1 /\ Sum(w, Len(w)) = m
    BY <1>2, <1>3, <2>1
  <2> QED BY <2>1, <2>2
<1>6. PICK f : f = FirstBeyond(w, k)
  OBVIOUS
<1>7. f \in 1 .. N /\ Sum(w, f - 1) <= k /\ k < Sum(w, f)
  BY <1>3, <1>5, <1>6, EntryFound
<1>8. x.stsc[f].chunk <= b + k + 1 /\ b + k + 1 < NextChunk(x, f)
  <2>1. PICK u, v : u = x.stsc[f].chunk /\ v = NextChunk(x, f)
    OBVIOUS
  <2>2. u \in Nat /\ v \in Nat /\ u - (b + 1) <= k /\ k < v - (b + 1) /\ b \in Nat
    BY <1>2, <1>4, <1>7, <2>1
  <2>3. u <= b + k + 1 /\ b + k + 1 < v
    BY <1>5, <2>2
  <2> QED BY <2>1, <2>3
<1>9. G[k + 1] = G[k] + x.stsc[f].samples
  BY <1>1, <1>7, <1>8 DEF Chunked
<1> QED BY <1>1, <1>7, <1>8, <1>9

\* Of the first k chunks, n samples at most.
Capped(G, n, k) == IF G[k] <= n THEN G[k] ELSE n

\* By a map, v samples are in chunk c.
InMap(q, c, v) ==
  \E f \in 1 .. Len(q) :
    q[f].chunk <= c /\ (\A g \in 1 .. Len(q) : g > f => c < q[g].chunk) /\ q[f].samples = v

\* Entries q and r are the map of n samples, which are in the M chunks from b on.
MapUpTo(q, r, sc, b, M, G, n) ==
  /\ M \in Nat /\ q \in Seq(ChunkRun) /\ \A f \in 1 .. Len(q) : b + 1 <= q[f].chunk
  /\ \/ r = <<>>
     \/ /\ M >= 1
        /\ r = <<[chunk |-> b + M - sc, samples |-> Capped(G, n, M) - Capped(G, n, M - 1)]>>
  /\ \A k \in 0 .. M - 1 :
       r = <<>> \/ k < M - 1 => InMap(q, b + k + 1, Capped(G, n, k + 1) - Capped(G, n, k))

\* How the map ends in entry e.
EndsAs(x, b, n, e, target, rest, sc, q, r, M) ==
  \/ /\ rest = 0 /\ M = target - b /\ r = <<>>
     /\ q = SubSeq(x.stsc, 1, IF Within(x, n) = 0 THEN e - 1 ELSE e)
  \/ /\ rest # 0 /\ M = target + 1 - b /\ r = <<>> /\ target = x.stsc[e].chunk - 1
     /\ q = [SubSeq(x.stsc, 1, e) EXCEPT ![e].samples = rest]
  \/ /\ rest # 0 /\ M = target + 1 - b /\ target # x.stsc[e].chunk - 1
     /\ q = SubSeq(x.stsc, 1, e) /\ r = <<[chunk |-> target + 1 - sc, samples |-> rest]>>

\* Up to where the samples end, each chunk has those of its entry.
LEMMA WholeChunks ==
  ASSUME NEW x, NEW b, NEW G, Chunked(x, b, G), NEW n \in Nat, NEW e \in 1 .. Len(x.stsc),
         NEW target \in Nat, target - b \in 0 .. x.chunks - b, G[target - b] <= n,
         target + 1 <= NextChunk(x, e), NEW k \in 0 .. target - b - 1
  PROVE  \E f \in 1 .. e :
           /\ x.stsc[f].chunk <= b + k + 1 /\ b + k + 1 < NextChunk(x, f)
           /\ \A g \in 1 .. Len(x.stsc) : g > f => b + k + 1 < x.stsc[g].chunk
           /\ x.stsc[f].samples = Capped(G, n, k + 1) - Capped(G, n, k)
<1>1. PICK N : N = Len(x.stsc)
  OBVIOUS
<1>2. /\ N \in Nat \ {0} /\ x.chunks \in Nat /\ b \in Nat
      /\ \A f \in 1 .. N : /\ x.stsc[f].chunk \in Nat /\ x.stsc[f].samples \in Nat \ {0}
                           /\ NextChunk(x, f) \in Nat /\ x.stsc[f].chunk < NextChunk(x, f)
  BY <1>1, NextIs
<1>3. PICK T : T = target - b
  OBVIOUS
<1>4. PICK M : M = x.chunks - b
  OBVIOUS
<1>5. T \in Nat /\ M \in Int /\ T <= M /\ target = b + T /\ k \in Nat /\ k + 1 <= T
  BY <1>2, <1>3, <1>4
<1>6. k \in 0 .. M - 1 /\ k \in 0 .. M /\ k + 1 \in 0 .. M /\ T \in 0 .. M
  BY <1>5
<1>7. PICK f \in 1 .. N : /\ x.stsc[f].chunk <= b + k + 1 /\ b + k + 1 < NextChunk(x, f)
                          /\ G[k + 1] = G[k] + x.stsc[f].samples
  <2>1. k \in 0 .. x.chunks - b - 1
    BY <1>4, <1>6
  <2>2. \E f \in 1 .. Len(x.stsc) : /\ x.stsc[f].chunk <= b + k + 1 /\ b + k + 1 < NextChunk(x, f)
                                    /\ G[k + 1] = G[k] + x.stsc[f].samples
    BY <2>1, ChunkEntry
  <2> QED BY <1>1, <2>2
<1>8. ASSUME NEW g \in 1 .. N, g > f PROVE b + k + 1 < x.stsc[g].chunk
  <2>1. NextChunk(x, f) <= x.stsc[g].chunk
    BY <1>1, <1>8, EntriesRise
  <2>2. PICK u, v, c : u = NextChunk(x, f) /\ v = x.stsc[g].chunk /\ c = b + k + 1
    OBVIOUS
  <2>3. u \in Nat /\ v \in Nat
    BY <1>2, <2>2
  <2>4. c \in Nat
    BY <1>2, <1>5, <2>2
  <2>5. c < u /\ u <= v
    BY <1>7, <2>1, <2>2
  <2>6. c < v
    BY <2>3, <2>4, <2>5
  <2> QED BY <2>2, <2>6
<1>9. f <= e
  <2> SUFFICES ASSUME e < f PROVE FALSE
    BY <1>1, <1>2
  <2>1. NextChunk(x, e) <= x.stsc[f].chunk
    BY <1>1, EntriesRise
  <2>2. e \in 1 .. N /\ f \in 1 .. N
    BY <1>1, <1>7
  <2>3. NextChunk(x, e) \in Nat /\ x.stsc[f].chunk \in Nat
    BY <1>2, <2>2
  <2>4. b \in Nat /\ k \in Nat /\ target = b + T /\ T \in Nat /\ k + 1 <= T
    BY <1>2, <1>5
  <2>5. PICK u, v : u = NextChunk(x, e) /\ v = x.stsc[f].chunk
    OBVIOUS
  <2>6. u \in Nat /\ v \in Nat /\ u <= v /\ v <= b + k + 1 /\ target + 1 <= u
    BY <1>7, <2>1, <2>3, <2>5
  <2> QED BY ONLY <2>4, <2>6
<1>10. x.stsc[f].samples = Capped(G, n, k + 1) - Capped(G, n, k)
  <2>1. G[k] <= G[T] /\ G[k + 1] <= G[T]
    <3>1. \A c, d \in 0 .. M : c <= d => G[c] <= G[d]
      BY <1>4, ChunkTimes
    <3> QED BY <1>5, <1>6, <3>1
  <2>2. G[k] \in Nat /\ G[k + 1] \in Nat /\ G[T] \in Nat
    BY <1>4, <1>6 DEF Chunked
  <2>3. G[T] <= n
    BY <1>3
  <2>4. Capped(G, n, k + 1) = G[k + 1] /\ Capped(G, n, k) = G[k]
    BY <2>1, <2>2, <2>3 DEF Capped
  <2>5. PICK u, v : u = G[k] /\ v = x.stsc[f].samples
    OBVIOUS
  <2>6. u \in Nat /\ v \in Nat /\ G[k + 1] = u + v
    BY <1>2, <1>7, <2>2, <2>5
  <2>7. (u + v) - u = v
    BY <2>6
  <2> QED BY <2>4, <2>5, <2>6, <2>7
<1> QED BY <1>1, <1>2, <1>7, <1>8, <1>9, <1>10

\* What EntryOfIs says, counted from b.
LEMMA EndFacts ==
  ASSUME NEW x, NEW b, NEW G, Chunked(x, b, G), NEW n \in 0 .. G[x.chunks - b],
         NEW e, NEW target, NEW rest, EndsAt(x, n, e, target, rest)
  PROVE  /\ e \in 1 .. Len(x.stsc) /\ rest \in Nat /\ target \in Nat /\ n \in Nat /\ b \in Nat
         /\ target - b \in 0 .. x.chunks - b /\ n = G[target - b] + rest
         /\ G[target - b] \in Nat /\ G[target - b] <= n
         /\ x.stsc[e].chunk <= target + 1 /\ target + 1 <= NextChunk(x, e)
         /\ rest # 0 => target + 1 - b \in 0 .. x.chunks - b /\ target + 1 < NextChunk(x, e)
         /\ rest # 0 => G[target + 1 - b] > n /\ G[target + 1 - b] \in Nat
         /\ (Within(x, n) = 0 <=> target + 1 = x.stsc[e].chunk /\ rest = 0)
<1> DEFINE M == x.chunks - b
<1>1. /\ e \in 1 .. Len(x.stsc) /\ rest \in 0 .. x.stsc[e].samples - 1 /\ target \in Nat
      /\ target - b \in 0 .. M /\ n = G[target - b] + rest
      /\ x.stsc[e].chunk <= target + 1 /\ target + 1 <= NextChunk(x, e)
      /\ (rest # 0 => target + 1 < NextChunk(x, e))
      /\ (Within(x, n) = 0 <=> target + 1 = x.stsc[e].chunk /\ rest = 0)
  BY EntryOfIs
<1>2. /\ b \in Nat /\ x.chunks \in Nat /\ x.stsc[e].chunk \in Nat /\ x.stsc[e].samples \in Nat \ {0}
      /\ NextChunk(x, e) \in Nat
  BY <1>1, NextIs
<1>3. \A k \in 0 .. M : G[k] \in Nat
  BY DEF Chunked
<1>4. M \in Nat
  BY <1>1, <1>2
<1> HIDE DEF M
<1>5. rest \in Nat /\ rest < x.stsc[e].samples /\ G[target - b] \in Nat
  BY <1>1, <1>2, <1>3
<1>6. n \in Nat /\ G[target - b] <= n
  <2>1. PICK g : g = G[target - b]
    OBVIOUS
  <2>2. g \in Nat /\ n = g + rest /\ rest \in Nat
    BY <1>1, <1>5, <2>1
  <2>3. n \in Nat /\ g <= n
    BY <2>2
  <2> QED BY <2>1, <2>3
<1>7. ASSUME rest # 0
      PROVE  /\ target + 1 - b \in 0 .. M /\ target + 1 < NextChunk(x, e)
             /\ G[target + 1 - b] > n /\ G[target + 1 - b] \in Nat
  <2>1. PICK T : T = target - b
    OBVIOUS
  <2>2. T \in 0 .. M /\ T \in Nat /\ target = b + T
    BY <1>1, <1>2, <2>1
  <2>3. target + 1 < NextChunk(x, e)
    BY <1>1, <1>7
  <2>4. NextChunk(x, e) <= x.chunks + 1
    <3>1. Len(x.stsc) \in 1 .. Len(x.stsc)
      BY <1>1
    <3>2. NextChunk(x, Len(x.stsc)) = x.chunks + 1
      BY NextIs
    <3>3. CASE e = Len(x.stsc)
      BY <1>2, <3>2, <3>3
    <3>4. CASE e # Len(x.stsc)
      <4>1. e < Len(x.stsc)
        BY <1>1, <3>4
      <4>2. NextChunk(x, e) <= x.stsc[Len(x.stsc)].chunk
        BY <1>1, <3>1, <4>1, EntriesRise
      <4>3. /\ x.stsc[Len(x.stsc)].chunk < NextChunk(x, Len(x.stsc))
            /\ x.stsc[Len(x.stsc)].chunk \in Nat
        BY <3>1, NextIs
      <4> QED BY <1>2, <3>2, <4>2, <4>3
    <3> QED BY <3>3, <3>4
  <2>5. T + 1 \in 0 .. M /\ T \in 0 .. M - 1 /\ target + 1 - b = T + 1
    <3>1. target + 1 < x.chunks + 1
      BY <1>1, <1>2, <2>3, <2>4
    <3>2. M = x.chunks - b
      BY DEF M
    <3> QED BY <1>1, <1>2, <1>4, <2>2, <3>1, <3>2
  <2>6. G[T + 1] = G[T] + x.stsc[e].samples
    <3>1. T \in 0 .. x.chunks - b - 1
      BY <2>5 DEF M
    <3>2. b + T + 1 = target + 1
      BY <1>2, <2>2
    <3>3. x.stsc[e].chunk <= b + T + 1 /\ b + T + 1 < NextChunk(x, e)
      BY <1>1, <2>3, <3>2
    <3> QED BY <1>1, <3>1, <3>3 DEF Chunked
  <2>7. PICK g, d : g = G[T] /\ d = x.stsc[e].samples
    OBVIOUS
  <2>8. g \in Nat /\ d \in Nat /\ n = g + rest /\ rest < d /\ G[T + 1] = g + d
    BY <1>1, <1>2, <1>5, <2>1, <2>6, <2>7
  <2>9. g + d > n /\ g + d \in Nat
    BY <1>5, <2>8
  <2> QED BY <2>3, <2>5, <2>8, <2>9
<1> QED BY <1>1, <1>2, <1>5, <1>6, <1>7 DEF M

\* The samples in the last chunk, if there is one.
LEMMA LastChunk ==
  ASSUME NEW x, NEW b, NEW G, Chunked(x, b, G), NEW n \in 0 .. G[x.chunks - b],
         NEW e, NEW target, NEW rest, EndsAt(x, n, e, target, rest),
         NEW M \in Nat \ {0}, rest = 0 => M = target - b, rest # 0 => M = target + 1 - b
  PROVE  Capped(G, n, M) - Capped(G, n, M - 1)
           = IF rest # 0 THEN rest
             ELSE IF Within(x, n) # 0 THEN x.stsc[e].samples
             ELSE IF e = 1 THEN 0 ELSE x.stsc[e - 1].samples
<1>1. /\ e \in 1 .. Len(x.stsc) /\ rest \in Nat /\ target \in Nat /\ n \in Nat /\ b \in Nat
      /\ target - b \in 0 .. x.chunks - b /\ n = G[target - b] + rest
      /\ G[target - b] \in Nat /\ G[target - b] <= n
      /\ x.stsc[e].chunk <= target + 1 /\ target + 1 <= NextChunk(x, e)
      /\ (rest # 0 => target + 1 - b \in 0 .. x.chunks - b /\ target + 1 < NextChunk(x, e))
      /\ (rest # 0 => G[target + 1 - b] > n /\ G[target + 1 - b] \in Nat)
      /\ (Within(x, n) = 0 <=> target + 1 = x.stsc[e].chunk /\ rest = 0)
  BY EndFacts
<1>2. /\ Len(x.stsc) \in Nat \ {0} /\ x.chunks \in Nat
      /\ \A f \in 1 .. Len(x.stsc) : /\ x.stsc[f].chunk \in Nat /\ x.stsc[f].samples \in Nat \ {0}
                                     /\ NextChunk(x, f) \in Nat /\ x.stsc[f].chunk < NextChunk(x, f)
      /\ \A f \in 2 .. Len(x.stsc) : x.stsc[f].chunk = NextChunk(x, f - 1)
      /\ x.stsc[1].chunk = b + 1
  BY NextIs
<1>3. PICK T : T = target - b
  OBVIOUS
<1>4. T \in 0 .. x.chunks - b /\ T \in Nat /\ target = b + T /\ n = G[T] + rest /\ G[T] \in Nat /\ G[T] <= n
  BY <1>1, <1>3
<1>5. CASE rest # 0
  <2>1. M = target + 1 - b /\ M - 1 = T
    BY <1>1, <1>4, <1>5
  <2>2. Capped(G, n, M) = n
    <3>1. G[M] > n /\ G[M] \in Nat
      BY <1>1, <1>5, <2>1
    <3>2. ~ G[M] <= n
      BY <1>1, <3>1
    <3> QED BY <3>2 DEF Capped
  <2>3. Capped(G, n, M - 1) = G[T]
    BY <1>4, <2>1 DEF Capped
  <2>4. PICK g : g = G[T]
    OBVIOUS
  <2>5. g \in Nat /\ n = g + rest
    BY <1>4, <2>4
  <2>6. n - g = rest
    BY <1>1, <2>5
  <2> QED BY <1>5, <2>2, <2>3, <2>4, <2>6
<1>6. CASE rest = 0
  <2>1. M = T /\ T >= 1 /\ n = G[T]
    <3>1. M = T
      BY <1>3, <1>6
    <3>2. PICK g : g = G[T]
      OBVIOUS
    <3>3. g \in Nat /\ n = g + rest
      BY <1>4, <3>2
    <3>4. n = g
      BY <1>6, <3>3
    <3>5. T >= 1
      BY <3>1
    <3> QED BY <3>1, <3>2, <3>4, <3>5
  <2>2. PICK f \in 1 .. Len(x.stsc) :
          /\ x.stsc[f].chunk <= target /\ target < NextChunk(x, f)
          /\ f = IF Within(x, n) # 0 THEN e ELSE e - 1
    <3>1. CASE Within(x, n) # 0
      <4>1. x.stsc[e].chunk \in Nat /\ x.stsc[e].chunk # target + 1
        BY <1>1, <1>2, <1>6, <3>1
      <4>2. x.stsc[e].chunk <= target /\ target < NextChunk(x, e)
        BY <1>1, <1>2, <4>1
      <4> QED BY <1>1, <3>1, <4>2
    <3>2. CASE Within(x, n) = 0
      <4>1. x.stsc[e].chunk = target + 1
        BY <1>1, <3>2
      <4>2. e # 1
        BY <1>1, <1>2, <1>4, <2>1, <4>1
      <4>3. e \in 2 .. Len(x.stsc) /\ e - 1 \in 1 .. Len(x.stsc)
        BY <1>1, <1>2, <4>2
      <4>4. PICK f : f = e - 1
        OBVIOUS
      <4>5. NextChunk(x, f) = target + 1 /\ x.stsc[f].chunk \in Nat /\ x.stsc[f].chunk < NextChunk(x, f)
        BY <1>2, <4>1, <4>3, <4>4
      <4>6. x.stsc[f].chunk <= target /\ target < NextChunk(x, f)
        BY <1>1, <4>5
      <4> QED BY <3>2, <4>3, <4>4, <4>6
    <3> QED BY <3>1, <3>2
  <2>3. G[T] = G[T - 1] + x.stsc[f].samples /\ G[T - 1] \in Nat /\ x.stsc[f].samples \in Nat
    <3>1. T - 1 \in 0 .. x.chunks - b - 1 /\ T - 1 \in 0 .. x.chunks - b
      BY <1>1, <1>2, <1>4, <2>1
    <3>2. PICK k : k = T - 1
      OBVIOUS
    <3>3. k \in 0 .. x.chunks - b - 1 /\ k + 1 = T /\ b + k + 1 = target
      BY <1>1, <1>4, <3>1, <3>2
    <3>4. x.stsc[f].chunk <= b + k + 1 /\ b + k + 1 < NextChunk(x, f)
      BY <2>2, <3>3
    <3>5. G[k + 1] = G[k] + x.stsc[f].samples
      BY <2>2, <3>3, <3>4 DEF Chunked
    <3>6. G[k] \in Nat
      BY <3>1, <3>2 DEF Chunked
    <3> QED BY <1>2, <2>2, <3>2, <3>3, <3>5, <3>6
  <2>4. Capped(G, n, M) - Capped(G, n, M - 1) = x.stsc[f].samples
    <3>1. PICK g, d : g = G[T - 1] /\ d = x.stsc[f].samples
      OBVIOUS
    <3>2. g \in Nat /\ d \in Nat /\ n = g + d /\ G[T] = g + d
      BY <2>1, <2>3, <3>1
    <3>3. Capped(G, n, M) = g + d
      BY <2>1, <3>2 DEF Capped
    <3>4. G[M - 1] = g /\ g <= n
      BY <2>1, <3>1, <3>2
    <3>5. Capped(G, n, M - 1) = g
      BY <3>4 DEF Capped
    <3>6. (g + d) - g = d
      BY <3>2
    <3> QED BY <3>1, <3>3, <3>5, <3>6
  <2>5. Within(x, n) = 0 => e # 1
    <3>1. f \in 1 .. Len(x.stsc)
      BY <2>2
    <3> QED BY <1>2, <2>2, <3>1
  <2> QED BY <1>6, <2>2, <2>4, <2>5
<1> QED BY <1>5, <1>6

\* The part of a map up to entry l, one entry of which may count fewer samples.
LEMMA MapFrom ==
  ASSUME NEW q, NEW p, NEW l \in Nat, Len(q) = l, NEW N \in Nat, l <= N,
         \A d \in 1 .. l : q[d].chunk = p[d].chunk,
         NEW c, NEW f \in 1 .. l, p[f].chunk <= c,
         \A g \in 1 .. N : g > f => c < p[g].chunk
  PROVE  InMap(q, c, q[f].samples)
<1>1. f \in 1 .. Len(q) /\ q[f].chunk <= c
  OBVIOUS
<1>2. ASSUME NEW g \in 1 .. Len(q), g > f PROVE c < q[g].chunk
  <2>1. g \in 1 .. l /\ g \in 1 .. N
    OBVIOUS
  <2> QED BY <1>2, <2>1
<1> QED BY <1>1, <1>2 DEF InMap

\* In each case the entries that remain are the map of the samples before the end.
LEMMA EndMap ==
  ASSUME NEW x, NEW b, NEW G, Chunked(x, b, G), NEW n \in 0 .. G[x.chunks - b],
         NEW e, NEW target, NEW rest, EndsAt(x, n, e, target, rest), NEW sc \in Nat,
         NEW q, NEW r, NEW M, EndsAs(x, b, n, e, target, rest, sc, q, r, M)
  PROVE  /\ MapUpTo(q, r, sc, b, M, G, n) /\ M \in 0 .. x.chunks - b /\ n <= G[M]
         /\ rest = 0 => M = target - b
         /\ rest # 0 => M = target + 1 - b /\ M >= 1
<1> DEFINE p == x.stsc
<1>1. /\ e \in 1 .. Len(p) /\ rest \in Nat /\ target \in Nat /\ n \in Nat /\ b \in Nat
      /\ target - b \in 0 .. x.chunks - b /\ n = G[target - b] + rest
      /\ G[target - b] \in Nat /\ G[target - b] <= n
      /\ p[e].chunk <= target + 1 /\ target + 1 <= NextChunk(x, e)
      /\ (rest # 0 => target + 1 - b \in 0 .. x.chunks - b /\ target + 1 < NextChunk(x, e))
      /\ (rest # 0 => G[target + 1 - b] > n /\ G[target + 1 - b] \in Nat)
      /\ (Within(x, n) = 0 <=> target + 1 = p[e].chunk /\ rest = 0)
  BY EndFacts
<1>2. /\ Len(p) \in Nat \ {0} /\ x.chunks \in Nat
      /\ \A f \in 1 .. Len(p) : p[f].chunk \in Nat /\ p[f].samples \in Nat \ {0}
  BY NextIs
<1>3. p \in Seq(ChunkRun) /\ p[1].chunk = b + 1
  BY DEF Chunked
<1>4. PICK T : T = target - b
  OBVIOUS
<1>5. PICK N : N = Len(p)
  OBVIOUS
<1>6. /\ T \in 0 .. x.chunks - b /\ T \in Nat /\ target = b + T /\ n = G[T] + rest /\ G[T] \in Nat
      /\ G[T] <= n /\ N \in Nat /\ e \in 1 .. N
  BY <1>1, <1>2, <1>4, <1>5
<1> DEFINE Whole(k, f) == /\ p[f].chunk <= b + k + 1
                          /\ \A g \in 1 .. N : g > f => b + k + 1 < p[g].chunk
                          /\ p[f].samples = Capped(G, n, k + 1) - Capped(G, n, k)
<1>7. ASSUME NEW k \in 0 .. T - 1 PROVE \E f \in 1 .. e : Whole(k, f)
  <2>1. k \in 0 .. target - b - 1
    BY <1>4
  <2>2. \E f \in 1 .. e :
           /\ x.stsc[f].chunk <= b + k + 1 /\ b + k + 1 < NextChunk(x, f)
           /\ \A g \in 1 .. Len(x.stsc) : g > f => b + k + 1 < x.stsc[g].chunk
           /\ x.stsc[f].samples = Capped(G, n, k + 1) - Capped(G, n, k)
    <3>1. /\ e \in 1 .. Len(x.stsc) /\ n \in Nat /\ target \in Nat
          /\ target - b \in 0 .. x.chunks - b /\ G[target - b] <= n /\ target + 1 <= NextChunk(x, e)
      BY <1>1
    <3> QED BY ONLY Chunked(x, b, G), <2>1, <3>1, WholeChunks
  <2> QED BY <1>5, <2>2
<1>8. ASSUME NEW f \in 1 .. N PROVE b + 1 <= p[f].chunk
  <2>1. CASE f = 1
    BY <1>1, <1>3, <2>1
  <2>2. CASE f # 1
    <3>1. 1 \in 1 .. N /\ 1 < f
      BY <1>6, <2>2
    <3>2. NextChunk(x, 1) <= p[f].chunk
      BY <1>5, <3>1, EntriesRise
    <3>3. p[1].chunk < NextChunk(x, 1) /\ NextChunk(x, 1) \in Nat
      BY <1>5, <3>1, NextIs
    <3>4. p[f].chunk \in Nat
      BY <1>2, <1>5
    <3>5. PICK u, v, w : u = NextChunk(x, 1) /\ v = p[f].chunk /\ w = p[1].chunk
      OBVIOUS
    <3>6. u \in Nat /\ v \in Nat /\ w = b + 1 /\ w < u /\ u <= v /\ b \in Nat
      BY <1>1, <1>3, <3>2, <3>3, <3>4, <3>5
    <3>7. b + 1 <= v
      BY <3>6
    <3> QED BY <3>5, <3>7
  <2> QED BY <2>1, <2>2
<1>9. ASSUME NEW l \in 0 .. N
      PROVE  /\ SubSeq(p, 1, l) \in Seq(ChunkRun) /\ Len(SubSeq(p, 1, l)) = l
             /\ \A d \in 1 .. l : SubSeq(p, 1, l)[d] = p[d]
  <2> HIDE DEF p
  <2> QED BY <1>3, <1>5, CutIs
<1> HIDE DEF p
<1>10. CASE rest = 0
  <2>1. PICK l : l = IF Within(x, n) = 0 THEN e - 1 ELSE e
    OBVIOUS
  <2>2. l \in 0 .. N /\ l \in Nat /\ l <= N
    BY <1>6, <2>1
  <2>3. M = T /\ r = <<>> /\ q = SubSeq(p, 1, l)
    BY <1>4, <1>10, <2>1 DEF EndsAs, p
  <2>4. q \in Seq(ChunkRun) /\ Len(q) = l /\ \A d \in 1 .. l : q[d] = p[d]
    BY <1>9, <2>2, <2>3
  <2>5. \A f \in 1 .. Len(q) : b + 1 <= q[f].chunk
    <3>1. ASSUME NEW f \in 1 .. Len(q) PROVE b + 1 <= q[f].chunk
      <4>1. f \in 1 .. l
        BY <2>4
      <4>2. f \in 1 .. N
        BY <1>6, <2>2, <4>1
      <4> QED BY <1>8, <2>4, <4>1, <4>2
    <3> QED BY <3>1
  <2>6. ASSUME NEW k \in 0 .. M - 1
        PROVE  InMap(q, b + k + 1, Capped(G, n, k + 1) - Capped(G, n, k))
    <3>1. k \in 0 .. T - 1
      BY <2>3
    <3>2. PICK f \in 1 .. e : Whole(k, f)
      BY <1>7, <3>1
    <3>3. f \in 1 .. l
      <4>1. CASE Within(x, n) = 0
        <5>1. p[e].chunk = b + T + 1
          BY <1>1, <1>6, <4>1
        <5>2. p[f].chunk <= b + k + 1
          BY <3>2
        <5>3. f # e
          <6> SUFFICES ASSUME f = e PROVE FALSE
            OBVIOUS
          <6>1. b + T + 1 <= b + k + 1
            BY <5>1, <5>2
          <6> QED BY <1>1, <1>6, <3>1, <6>1
        <5> QED BY <1>6, <2>1, <4>1, <5>3
      <4>2. CASE Within(x, n) # 0
        BY <2>1, <4>2
      <4> QED BY <4>1, <4>2
    <3>4. \A d \in 1 .. l : q[d].chunk = p[d].chunk
      BY <2>4
    <3>5. PICK c : c = b + k + 1
      OBVIOUS
    <3>6. p[f].chunk <= c /\ \A g \in 1 .. N : g > f => c < p[g].chunk
      BY <3>2, <3>5
    <3>7. InMap(q, c, q[f].samples)
      BY <1>6, <2>2, <2>4, <3>3, <3>4, <3>6, MapFrom
    <3>8. q[f].samples = Capped(G, n, k + 1) - Capped(G, n, k)
      BY <2>4, <3>2, <3>3
    <3> QED BY <3>5, <3>7, <3>8
  <2>7. MapUpTo(q, r, sc, b, M, G, n)
    BY <1>6, <2>3, <2>4, <2>5, <2>6 DEF MapUpTo
  <2>8. n <= G[M]
    <3>1. PICK g : g = G[T]
      OBVIOUS
    <3>2. g \in Nat /\ n = g + rest
      BY <1>6, <3>1
    <3>3. n <= g
      BY <1>10, <3>2
    <3> QED BY <2>3, <3>1, <3>3
  <2> QED BY <1>4, <1>6, <1>10, <2>3, <2>7, <2>8
<1>11. CASE rest # 0
  <2>1. M = target + 1 - b
    BY <1>11 DEF EndsAs
  <2>2. M = T + 1 /\ M \in Nat /\ M \in 0 .. x.chunks - b /\ M - 1 = T
    BY <1>1, <1>6, <1>11, <2>1
  <2>3. G[M] > n /\ G[M] \in Nat
    BY <1>1, <1>11, <2>1
  <2>4. Capped(G, n, M) - Capped(G, n, M - 1) = rest
    <3>1. M \in Nat \ {0} /\ (rest = 0 => M = target - b) /\ (rest # 0 => M = target + 1 - b)
      BY <1>6, <1>11, <2>1, <2>2
    <3> QED BY <1>11, <3>1, LastChunk
  <2>5. e \in 0 .. N
    BY <1>6
  <2>6. CASE target = p[e].chunk - 1
    <3>1. r = <<>> /\ q = [SubSeq(p, 1, e) EXCEPT ![e].samples = rest]
      BY <1>11, <2>6 DEF EndsAs, p
    <3>2. PICK u : u = SubSeq(p, 1, e)
      OBVIOUS
    <3>3. u \in Seq(ChunkRun) /\ Len(u) = e /\ \A d \in 1 .. e : u[d] = p[d]
      BY <1>9, <2>5, <3>2
    <3>4. DOMAIN u = 1 .. e /\ e \in 1 .. e /\ \A d \in 1 .. e : u[d] \in ChunkRun
      BY <1>6, <3>3
    <3>5. q = [d \in 1 .. e |-> IF d = e THEN [u[e] EXCEPT !.samples = rest] ELSE u[d]]
      BY <3>1, <3>2, <3>4
    <3>6. PICK a : a = [u[e] EXCEPT !.samples = rest]
      OBVIOUS
    <3>7. a \in ChunkRun /\ a.chunk = u[e].chunk /\ a.samples = rest
      BY <1>1, <3>4, <3>6 DEF ChunkRun
    <3>8. q \in [1 .. e -> ChunkRun] /\ \A d \in 1 .. e : q[d] = IF d = e THEN a ELSE u[d]
      BY <3>4, <3>5, <3>6, <3>7
    <3>9. q \in Seq(ChunkRun) /\ Len(q) = e
      <4>1. e \in Nat
        BY <1>6
      <4> QED BY <3>8, <4>1, FunctionSeq
    <3>10. \A d \in 1 .. e : q[d].chunk = p[d].chunk
      BY <3>3, <3>7, <3>8
    <3>11. \A f \in 1 .. Len(q) : b + 1 <= q[f].chunk
      <4>1. ASSUME NEW f \in 1 .. Len(q) PROVE b + 1 <= q[f].chunk
        <5>1. f \in 1 .. e /\ f \in 1 .. N
          BY <1>6, <3>9
        <5> QED BY <1>8, <3>10, <5>1
      <4> QED BY <4>1
    <3>12. ASSUME NEW k \in 0 .. M - 1
           PROVE  InMap(q, b + k + 1, Capped(G, n, k + 1) - Capped(G, n, k))
      <4>1. PICK c : c = b + k + 1
        OBVIOUS
      <4>2. CASE k = T
        <5>1. p[e].chunk = c
          BY <1>1, <1>2, <1>5, <1>6, <2>6, <4>1, <4>2
        <5>2. \A g \in 1 .. e : g > e => c < p[g].chunk
          BY <1>6
        <5>3. e \in Nat /\ e <= e /\ e \in 1 .. e /\ c \in Nat
          BY <1>1, <1>6, <4>1, <4>2
        <5>4. p[e].chunk <= c
          BY <5>1, <5>3
        <5>5. InMap(q, c, q[e].samples)
          BY <3>9, <3>10, <5>2, <5>3, <5>4, MapFrom
        <5>6. q[e].samples = rest
          BY <3>7, <3>8, <5>3
        <5>7. k + 1 = M /\ k = M - 1
          BY <1>6, <2>2, <4>2
        <5> QED BY <2>4, <4>1, <5>5, <5>6, <5>7
      <4>3. CASE k # T
        <5>1. k \in 0 .. T - 1
          BY <2>2, <4>3
        <5>2. PICK f \in 1 .. e : Whole(k, f)
          BY <1>7, <5>1
        <5>3. f # e
          <6> SUFFICES ASSUME f = e PROVE FALSE
            OBVIOUS
          <6>1. p[e].chunk = b + T + 1 /\ p[e].chunk <= b + k + 1
            BY <1>1, <1>2, <1>5, <1>6, <2>6, <5>2
          <6> QED BY <1>1, <1>6, <5>1, <6>1
        <5>4. p[f].chunk <= c /\ \A g \in 1 .. N : g > f => c < p[g].chunk
          BY <4>1, <5>2
        <5>5. e \in Nat /\ e <= N
          BY <1>6
        <5>6. InMap(q, c, q[f].samples)
          BY <1>6, <3>9, <3>10, <5>4, <5>5, MapFrom
        <5>7. q[f].samples = p[f].samples
          BY <3>3, <3>8, <5>3
        <5> QED BY <4>1, <5>2, <5>6, <5>7
      <4> QED BY <4>2, <4>3
    <3>13. MapUpTo(q, r, sc, b, M, G, n)
      BY <2>2, <3>1, <3>9, <3>11, <3>12 DEF MapUpTo
    <3>14. n <= G[M] /\ M >= 1
      <4>1. M >= 1
        BY <1>6, <2>2
      <4>2. PICK g : g = G[M]
        OBVIOUS
      <4>3. g \in Nat /\ g > n /\ n \in Nat
        BY <1>1, <2>3, <4>2
      <4>4. n <= g
        BY <4>3
      <4> QED BY <4>1, <4>2, <4>4
    <3> QED BY <1>11, <2>1, <2>2, <3>13, <3>14
  <2>7. CASE target # p[e].chunk - 1
    <3>1. q = SubSeq(p, 1, e) /\ r = <<[chunk |-> target + 1 - sc, samples |-> rest]>>
      BY <1>11, <2>7 DEF EndsAs, p
    <3>2. q \in Seq(ChunkRun) /\ Len(q) = e /\ \A d \in 1 .. e : q[d] = p[d]
      BY <1>9, <2>5, <3>1
    <3>3. r = <<[chunk |-> b + M - sc, samples |-> Capped(G, n, M) - Capped(G, n, M - 1)]>>
      <4>1. target + 1 - sc = b + M - sc
        BY <1>1, <1>6, <2>2
      <4> QED BY <2>4, <3>1, <4>1
    <3>4. M >= 1
      BY <1>6, <2>2
    <3>5. \A f \in 1 .. Len(q) : b + 1 <= q[f].chunk
      <4>1. ASSUME NEW f \in 1 .. Len(q) PROVE b + 1 <= q[f].chunk
        <5>1. f \in 1 .. e /\ f \in 1 .. N
          BY <1>6, <3>2
        <5> QED BY <1>8, <3>2, <5>1
      <4> QED BY <4>1
    <3>6. ASSUME NEW k \in 0 .. M - 1, k < M - 1
          PROVE  InMap(q, b + k + 1, Capped(G, n, k + 1) - Capped(G, n, k))
      <4>1. k \in 0 .. T - 1
        BY <2>2, <3>6
      <4>2. PICK f \in 1 .. e : Whole(k, f)
        BY <1>7, <4>1
      <4>3. PICK c : c = b + k + 1
        OBVIOUS
      <4>4. p[f].chunk <= c /\ \A g \in 1 .. N : g > f => c < p[g].chunk
        BY <4>2, <4>3
      <4>5. e \in Nat /\ e <= N /\ \A d \in 1 .. e : q[d].chunk = p[d].chunk
        BY <1>6, <3>2
      <4>6. InMap(q, c, q[f].samples)
        BY <1>6, <3>2, <4>4, <4>5, MapFrom
      <4> QED BY <3>2, <4>2, <4>3, <4>6
    <3>7. r # <<>>
      BY <3>3
    <3>8. MapUpTo(q, r, sc, b, M, G, n)
      BY <2>2, <3>2, <3>3, <3>4, <3>5, <3>6, <3>7 DEF MapUpTo
    <3>9. n <= G[M]
      <4>2. PICK g : g = G[M]
        OBVIOUS
      <4>3. g \in Nat /\ g > n /\ n \in Nat
        BY <1>1, <2>3, <4>2
      <4>4. n <= g
        BY <4>3
      <4> QED BY <4>2, <4>4
    <3> QED BY <1>11, <2>1, <2>2, <3>4, <3>8, <3>9
  <2> QED BY <2>6, <2>7
<1> QED BY <1>10, <1>11

\* The whole map is that of all samples.
LEMMA MapAll ==
  ASSUME NEW x, NEW b, NEW G, Chunked(x, b, G), NEW sc \in Nat, NEW M \in Nat, M = x.chunks - b
  PROVE  MapUpTo(x.stsc, <<>>, sc, b, M, G, G[M])
<1>1. /\ Len(x.stsc) \in Nat \ {0} /\ b \in Nat /\ x.stsc \in Seq(ChunkRun) /\ x.stsc[1].chunk = b + 1
      /\ \A f \in 1 .. Len(x.stsc) : x.stsc[f].chunk \in Nat /\ NextChunk(x, f) \in Nat
                                     /\ x.stsc[f].chunk < NextChunk(x, f)
  <2>1. x.stsc \in Seq(ChunkRun)
    BY DEF Chunked
  <2> QED BY <2>1, NextIs
<1>2. PICK N : N = Len(x.stsc)
  OBVIOUS
<1>3. ASSUME NEW f \in 1 .. N PROVE b + 1 <= x.stsc[f].chunk
  <2>1. CASE f = 1
    BY <1>1, <2>1
  <2>2. CASE f # 1
    <3>1. 1 \in 1 .. N /\ 1 < f
      BY <1>1, <1>2, <2>2
    <3>2. NextChunk(x, 1) <= x.stsc[f].chunk
      BY <1>2, <3>1, EntriesRise
    <3>3. PICK u, v, w : u = NextChunk(x, 1) /\ v = x.stsc[f].chunk /\ w = x.stsc[1].chunk
      OBVIOUS
    <3>4. u \in Nat /\ v \in Nat /\ w = b + 1 /\ w < u /\ u <= v /\ b \in Nat
      BY <1>1, <1>2, <3>1, <3>2, <3>3
    <3>5. b + 1 <= v
      BY <3>4
    <3> QED BY <3>3, <3>5
  <2> QED BY <2>1, <2>2
<1>4. ASSUME NEW k \in 0 .. M - 1
      PROVE  InMap(x.stsc, b + k + 1, Capped(G, G[M], k + 1) - Capped(G, G[M], k))
  <2>1. PICK f \in 1 .. Len(x.stsc) :
           /\ x.stsc[f].chunk <= b + k + 1 /\ b + k + 1 < NextChunk(x, f)
           /\ G[k + 1] = G[k] + x.stsc[f].samples
    BY ChunkEntry
  <2>2. PICK c : c = b + k + 1
    OBVIOUS
  <2>3. ASSUME NEW g \in 1 .. Len(x.stsc), g > f PROVE c < x.stsc[g].chunk
    <3>1. NextChunk(x, f) <= x.stsc[g].chunk
      BY <2>3, EntriesRise
    <3>2. PICK u, v : u = NextChunk(x, f) /\ v = x.stsc[g].chunk
      OBVIOUS
    <3>3. u \in Nat /\ v \in Nat /\ c \in Nat /\ c < u /\ u <= v
      BY <1>1, <2>1, <2>2, <3>1, <3>2
    <3> QED BY <3>2, <3>3
  <2>4. InMap(x.stsc, c, x.stsc[f].samples)
    BY <2>1, <2>2, <2>3 DEF InMap
  <2>5. Capped(G, G[M], k + 1) - Capped(G, G[M], k) = x.stsc[f].samples
    <3>1. k \in 0 .. M /\ k + 1 \in 0 .. M /\ M \in 0 .. M /\ k <= M /\ k + 1 <= M
      OBVIOUS
    <3>2. G[k] <= G[M] /\ G[k + 1] <= G[M]
      <4>1. \A c_1, d \in 0 .. M : c_1 <= d => G[c_1] <= G[d]
        BY ChunkTimes
      <4> QED BY <3>1, <4>1
    <3>3. G[k] \in Nat
      BY <3>1 DEF Chunked
    <3>4. x.stsc[f].samples \in Nat
      BY <2>1, NextIs
    <3>5. PICK g, d : g = G[k] /\ d = x.stsc[f].samples
      OBVIOUS
    <3>6. g \in Nat /\ d \in Nat /\ (g + d) - g = d /\ G[k + 1] = g + d
      BY <2>1, <3>3, <3>4, <3>5
    <3>7. Capped(G, G[M], k + 1) = g + d /\ Capped(G, G[M], k) = g
      BY <3>2, <3>5, <3>6 DEF Capped
    <3> QED BY <3>5, <3>6, <3>7
  <2> QED BY <2>2, <2>4, <2>5
<1> QED BY <1>1, <1>2, <1>3, <1>4 DEF MapUpTo

\* Of a map from chunk b on, y is what z has up to sample n, in M chunks.
EndFields == {"stsc", "stsc_start", "stsc_end", "sample_to_chunk_entries", "end_chunk",
              "end_chunk_samples"}
Ends(z, y, b, G, n, M) ==
  /\ MapUpTo(y.stsc, y.stsc_end, z.start_chunk, b, M, G, n) /\ M \in 0 .. z.chunks - b /\ n <= G[M]
  /\ y.sample_to_chunk_entries
       = (z.sample_to_chunk_entries - Len(z.stsc)) + (Len(y.stsc) + Len(y.stsc_end))
  /\ Keeps(z, y, EndFields)
  /\ mp4_length = 0 => y.stsc_start = z.stsc_start /\ M = z.chunks - b
  /\ mp4_length # 0 =>
       /\ y.stsc_start = StartEntry(z)
       /\ y.end_chunk = b + M
       /\ M >= 1 => y.end_chunk_samples = Capped(G, n, M) - Capped(G, n, M - 1)

\* Without an end the map remains.
LEMMA EndlessStsc ==
  ASSUME NEW z, DOMAIN z = Fields, NEW b, NEW G, Chunked(z, b, G), z.start_chunk \in Nat,
         z.stsc_end = <<>>, z.sample_to_chunk_entries \in Nat, mp4_length = 0,
         NEW M \in Nat, M = z.chunks - b
  PROVE  Ends(z, EndOfStsc(z), b, G, G[M], M)
<1>1. EndOfStsc(z) = z
  BY DEF EndOfStsc
<1>2. MapUpTo(z.stsc, <<>>, z.start_chunk, b, M, G, G[M])
  BY MapAll
<1>3. G[M] \in Nat /\ M \in 0 .. z.chunks - b
  <2>1. M \in 0 .. M
    OBVIOUS
  <2> QED BY <2>1 DEF Chunked
<1>4. z.sample_to_chunk_entries = (z.sample_to_chunk_entries - Len(z.stsc)) + (Len(z.stsc) + Len(<<>>))
  <2>1. Len(z.stsc) \in Nat
    BY NextIs
  <2>2. PICK u, v : u = z.sample_to_chunk_entries /\ v = Len(z.stsc)
    OBVIOUS
  <2>3. u \in Nat /\ v \in Nat /\ Len(<<>>) = 0
    BY <2>1, <2>2
  <2>4. u = (u - v) + (v + 0)
    BY <2>3
  <2> QED BY <2>2, <2>3, <2>4
<1>5. Keeps(z, z, EndFields)
  BY DEF Keeps
<1>6. G[M] <= G[M]
  BY <1>3
<1> QED BY <1>1, <1>2, <1>3, <1>4, <1>5, <1>6 DEF Ends

\* EndOfStsc with its local definitions as parameters.
EndPart(x, n, e, target, rest, previous, left) ==
  LET y == [x EXCEPT !.stsc = SubSeq(@, 1, left),
                     !.stsc_start = StartEntry(x),
                     !.sample_to_chunk_entries = @ - (Len(x.stsc) - left),
                     !.end_chunk = IF rest = 0 THEN target ELSE target + 1,
                     !.end_chunk_samples = IF rest # 0 THEN rest
                                           ELSE IF Within(x, n) = 0 THEN previous ELSE x.stsc[e].samples]
  IN  IF rest = 0 THEN y
      ELSE IF target = x.stsc[e].chunk - 1
      THEN [y EXCEPT !.stsc[e].samples = rest]
      ELSE [y EXCEPT !.stsc_end = <<[chunk |-> y.end_chunk - x.start_chunk, samples |-> rest]>>,
                     !.sample_to_chunk_entries = @ + 1]

\* With one, the second half of update_stsc does what EndPart says.
LEMMA EndPartIs ==
  ASSUME NEW z, mp4_length # 0
  PROVE  LET n == z.end_sample - z.start_sample - InStart(z)
             e == EntryOf(z, n)
         IN  EndOfStsc(z) = EndPart(z, n, e, z.stsc[e].chunk - 1 + Within(z, n) \div z.stsc[e].samples,
               Within(z, n) % z.stsc[e].samples, IF e = 1 THEN 0 ELSE z.stsc[e - 1].samples,
               IF Within(z, n) = 0 THEN e - 1 ELSE e)
BY Zenon DEF EndOfStsc, EndPart

\* The same for an end that EndsAt describes.
LEMMA EndPartOf ==
  ASSUME NEW z, mp4_length # 0, NEW n, n = z.end_sample - z.start_sample - InStart(z),
    NEW e, NEW target, NEW rest, EndsAt(z, n, e, target, rest),
    NEW previous, previous = IF e = 1 THEN 0 ELSE z.stsc[e - 1].samples,
    NEW left, left = IF Within(z, n) = 0 THEN e - 1 ELSE e
  PROVE  EndOfStsc(z) = EndPart(z, n, e, target, rest, previous, left)
BY EndPartIs, Zenon DEF EndsAt

\* The second half of update_stsc leaves the chunks up to the end.
LEMMA EndStsc ==
  ASSUME NEW z, DOMAIN z = Fields, NEW b, NEW G, Chunked(z, b, G), z.start_chunk \in Nat,
         z.stsc_end = <<>>, z.sample_to_chunk_entries \in Nat, mp4_length # 0,
         NEW n \in 0 .. G[z.chunks - b], n = z.end_sample - z.start_sample - InStart(z)
  PROVE  \E M \in Nat : Ends(z, EndOfStsc(z), b, G, n, M)
<1>1. PICK e, target, rest : EndsAt(z, n, e, target, rest)
  BY DEF EndsAt
<1>2. /\ e \in 1 .. Len(z.stsc) /\ rest \in Nat /\ target \in Nat /\ n \in Nat /\ b \in Nat
      /\ target - b \in 0 .. z.chunks - b
      /\ (Within(z, n) = 0 <=> target + 1 = z.stsc[e].chunk /\ rest = 0)
  BY <1>1, EndFacts
<1>3. Len(z.stsc) \in Nat /\ z.chunks \in Nat /\ z.stsc \in Seq(ChunkRun)
  <2>1. z.stsc \in Seq(ChunkRun)
    BY DEF Chunked
  <2> QED BY <2>1, NextIs
<1>4. PICK left : left = IF Within(z, n) = 0 THEN e - 1 ELSE e
  OBVIOUS
<1>5. PICK previous : previous = IF e = 1 THEN 0 ELSE z.stsc[e - 1].samples
  OBVIOUS
<1> DEFINE y == [z EXCEPT !.stsc = SubSeq(@, 1, left), !.stsc_start = StartEntry(z),
                          !.sample_to_chunk_entries = @ - (Len(z.stsc) - left),
                          !.end_chunk = IF rest = 0 THEN target ELSE target + 1,
                          !.end_chunk_samples = IF rest # 0 THEN rest
                                                ELSE IF Within(z, n) = 0 THEN previous
                                                ELSE z.stsc[e].samples]
           Y == IF rest = 0 THEN y
                ELSE IF target = z.stsc[e].chunk - 1 THEN [y EXCEPT !.stsc[e].samples = rest]
                ELSE [y EXCEPT !.stsc_end = <<[chunk |-> y.end_chunk - z.start_chunk, samples |-> rest]>>,
                               !.sample_to_chunk_entries = @ + 1]
<1>6. EndOfStsc(z) = Y
  <2>1. EndOfStsc(z) = EndPart(z, n, e, target, rest, previous, left)
    BY <1>1, <1>4, <1>5, EndPartOf
  <2> QED BY <2>1, Zenon DEF EndPart
<1>7. PICK E : E = IF rest = 0 THEN target ELSE target + 1
  OBVIOUS
<1>8. PICK S : S = IF rest # 0 THEN rest ELSE IF Within(z, n) = 0 THEN previous ELSE z.stsc[e].samples
  OBVIOUS
<1>9. PICK A : A = StartEntry(z)
  OBVIOUS
<1>10. PICK K : K = z.sample_to_chunk_entries - (Len(z.stsc) - left)
  OBVIOUS
<1>11. PICK q : q = SubSeq(z.stsc, 1, left)
  OBVIOUS
<1>12. y = [z EXCEPT !.stsc = q, !.stsc_start = A, !.sample_to_chunk_entries = K,
                     !.end_chunk = E, !.end_chunk_samples = S]
  BY <1>7, <1>8, <1>9, <1>10, <1>11
<1> HIDE DEF y
<1>13. /\ Keeps(z, y, EndFields) /\ y.stsc = q /\ y.stsc_start = A /\ y.stsc_end = <<>>
       /\ y.sample_to_chunk_entries = K /\ y.end_chunk = E /\ y.end_chunk_samples = S
  BY <1>12 DEF Keeps, Fields, EndFields
<1>14. left \in 0 .. Len(z.stsc) /\ Len(q) = left /\ left \in Nat
  <2>1. left \in 0 .. Len(z.stsc) /\ left \in Nat
    BY <1>2, <1>3, <1>4
  <2>2. PICK p : p = z.stsc
    OBVIOUS
  <2>3. Len(SubSeq(p, 1, left)) = left
    BY <1>3, <2>1, <2>2, CutIs
  <2> QED BY <1>11, <2>1, <2>2, <2>3
<1>15. rest # 0 => left = e
  BY <1>2, <1>4
<1> DEFINE Good(q_1, r, M, k) ==
             /\ EndsAs(z, b, n, e, target, rest, z.start_chunk, q_1, r, M)
             /\ Keeps(z, Y, EndFields) /\ Y.stsc = q_1 /\ Y.stsc_end = r /\ Y.stsc_start = A
             /\ Y.sample_to_chunk_entries = k /\ k = K + Len(r) /\ Len(q_1) = left
             /\ Y.end_chunk = b + M /\ Y.end_chunk_samples = S /\ Len(r) \in Nat
<1>16. \E q_1, r, M, k : Good(q_1, r, M, k)
  <2>1. CASE rest = 0
    <3>1. PICK M : M = target - b
      OBVIOUS
    <3>2. EndsAs(z, b, n, e, target, rest, z.start_chunk, q, <<>>, M)
      BY <1>4, <1>11, <2>1, <3>1 DEF EndsAs
    <3>3. E = b + M
      BY <1>2, <1>7, <2>1, <3>1
    <3>4. K \in Int
      BY <1>3, <1>10, <1>14
    <3>5. K = K + 0 /\ Len(<<>>) = 0
      BY <3>4
    <3>6. Y = y
      BY <2>1
    <3> HIDE DEF Y
    <3>7. Good(q, <<>>, M, K)
      BY <1>13, <1>14, <3>2, <3>3, <3>5, <3>6
    <3> QED BY <3>7
  <2>2. CASE rest # 0 /\ target = z.stsc[e].chunk - 1
    <3>1. PICK M : M = target + 1 - b
      OBVIOUS
    <3>2. PICK u : u = [q EXCEPT ![e].samples = rest]
      OBVIOUS
    <3>3. EndsAs(z, b, n, e, target, rest, z.start_chunk, u, <<>>, M)
      BY <1>11, <1>15, <2>2, <3>1, <3>2 DEF EndsAs
    <3>4. E = b + M
      <4>1. E = target + 1
        BY <1>7, <2>2
      <4> QED BY <1>2, <3>1, <4>1
    <3>5. K \in Int
      BY <1>3, <1>10, <1>14
    <3>6. K = K + 0 /\ Len(<<>>) = 0
      BY <3>5
    <3>7. Y = [y EXCEPT !.stsc = u]
      <4>1. Y = [y EXCEPT !.stsc[e].samples = rest]
        BY <2>2
      <4> HIDE DEF Y
      <4>2. Y = [y EXCEPT !.stsc = [y.stsc EXCEPT ![e].samples = rest]]
        BY <4>1
      <4> QED BY <1>13, <3>2, <4>2
    <3>8. Len(u) = left
      <4>1. PICK p : p = z.stsc
        OBVIOUS
      <4>2. SubSeq(p, 1, left) \in Seq(ChunkRun)
        BY <1>3, <1>14, <4>1, CutIs
      <4>3. q \in Seq(ChunkRun) /\ DOMAIN q = 1 .. left
        BY <1>11, <1>14, <4>1, <4>2
      <4>4. u = [d \in 1 .. left |-> u[d]]
        BY <3>2, <4>3
      <4>5. u \in [1 .. left -> {u[d] : d \in 1 .. left}]
        BY <4>4
      <4> QED BY <1>14, <4>5, FunctionSeq
    <3> HIDE DEF Y
    <3>9. Keeps(z, Y, EndFields) /\ Y.stsc = u /\ Y.stsc_end = <<>> /\ Y.stsc_start = A
          /\ Y.sample_to_chunk_entries = K /\ Y.end_chunk = E /\ Y.end_chunk_samples = S
      BY <1>13, <3>7 DEF Keeps, Fields, EndFields
    <3>10. Good(u, <<>>, M, K)
      BY <3>3, <3>4, <3>6, <3>8, <3>9
    <3> QED BY <3>10
  <2>3. CASE rest # 0 /\ target # z.stsc[e].chunk - 1
    <3>1. PICK M : M = target + 1 - b
      OBVIOUS
    <3>2. PICK r : r = <<[chunk |-> target + 1 - z.start_chunk, samples |-> rest]>>
      OBVIOUS
    <3>3. EndsAs(z, b, n, e, target, rest, z.start_chunk, q, r, M)
      BY <1>11, <1>15, <2>3, <3>1, <3>2 DEF EndsAs
    <3>4. E = b + M /\ E = target + 1
      BY <1>2, <1>7, <2>3, <3>1
    <3>5. PICK k : k = K + 1
      OBVIOUS
    <3>6. k = K + Len(r) /\ Len(r) = 1
      BY <3>2, <3>5
    <3>7. Y = [y EXCEPT !.stsc_end = r, !.sample_to_chunk_entries = k]
      <4>1. Y = [y EXCEPT !.stsc_end = <<[chunk |-> y.end_chunk - z.start_chunk, samples |-> rest]>>,
                          !.sample_to_chunk_entries = @ + 1]
        BY <2>3
      <4> HIDE DEF Y
      <4>2. PICK m : m = y.end_chunk - z.start_chunk
        OBVIOUS
      <4>3. m = target + 1 - z.start_chunk
        <5>1. y.end_chunk = target + 1
          BY <1>13, <3>4
        <5>2. PICK c : c = z.start_chunk
          OBVIOUS
        <5>3. c \in Nat /\ m = (target + 1) - c
          BY <4>2, <5>1, <5>2
        <5>4. m = target + 1 - c
          BY <1>2, <5>3
        <5> QED BY <5>2, <5>4
      <4>4. Y = [y EXCEPT !.stsc_end = <<[chunk |-> m, samples |-> rest]>>,
                          !.sample_to_chunk_entries = y.sample_to_chunk_entries + 1]
        BY <4>1, <4>2
      <4>5. y.sample_to_chunk_entries + 1 = k
        BY <1>13, <3>5
      <4>6. <<[chunk |-> m, samples |-> rest]>> = r
        BY <3>2, <4>3
      <4> QED BY <4>4, <4>5, <4>6
    <3> HIDE DEF Y
    <3>8. Keeps(z, Y, EndFields) /\ Y.stsc = q /\ Y.stsc_end = r /\ Y.stsc_start = A
          /\ Y.sample_to_chunk_entries = k /\ Y.end_chunk = E /\ Y.end_chunk_samples = S
      BY <1>13, <3>7 DEF Keeps, Fields, EndFields
    <3>9. Good(q, r, M, k)
      <4>1. Len(r) \in Nat
        BY <3>6
      <4>2. Y.end_chunk = b + M
        BY <3>4, <3>8
      <4> QED BY <1>14, <3>3, <3>6, <3>8, <4>1, <4>2
    <3> QED BY <3>9
  <2> QED BY <2>1, <2>2, <2>3
<1>17. PICK q_1, r, M, k : Good(q_1, r, M, k)
  BY <1>16
<1> HIDE DEF Y
<1>18. /\ MapUpTo(q_1, r, z.start_chunk, b, M, G, n) /\ M \in 0 .. z.chunks - b /\ n <= G[M]
       /\ (rest = 0 => M = target - b) /\ (rest # 0 => M = target + 1 - b /\ M >= 1)
  BY <1>1, <1>17, EndMap
<1>19. M \in Nat
  BY <1>18 DEF MapUpTo
<1>20. M >= 1 => S = Capped(G, n, M) - Capped(G, n, M - 1)
  <2>1. SUFFICES ASSUME M >= 1 PROVE S = Capped(G, n, M) - Capped(G, n, M - 1)
    OBVIOUS
  <2>2. M \in Nat \ {0} /\ (rest = 0 => M = target - b) /\ (rest # 0 => M = target + 1 - b)
    BY <1>18, <1>19, <2>1
  <2>3. Capped(G, n, M) - Capped(G, n, M - 1)
           = IF rest # 0 THEN rest
             ELSE IF Within(z, n) # 0 THEN z.stsc[e].samples
             ELSE IF e = 1 THEN 0 ELSE z.stsc[e - 1].samples
    BY <1>1, <2>2, LastChunk
  <2> QED BY <1>5, <1>8, <2>3
<1>21. k = (z.sample_to_chunk_entries - Len(z.stsc)) + (Len(q_1) + Len(r))
  <2>1. PICK u, v, w : u = z.sample_to_chunk_entries /\ v = Len(z.stsc) /\ w = Len(r)
    OBVIOUS
  <2>2. u \in Nat /\ v \in Nat /\ w \in Nat /\ left \in Nat /\ k = u - (v - left) + w
    BY <1>3, <1>10, <1>14, <1>17, <2>1
  <2>3. k = (u - v) + (left + w)
    BY <2>2
  <2> QED BY <1>17, <2>1, <2>3
<1>22. Ends(z, Y, b, G, n, M)
  BY <1>9, <1>17, <1>18, <1>20, <1>21 DEF Ends
<1> QED BY <1>6, <1>19, <1>22

\* One map in front of another: that of the later entries holds from where they begin.
LEMMA JoinedFirst ==
  ASSUME NEW p \in Seq(ChunkRun), NEW u \in Seq(ChunkRun), NEW c, NEW v, InMap(p, c, v),
         \A f \in 1 .. Len(u) : c < u[f].chunk
  PROVE  InMap(p \o u, c, v)
<1>1. PICK f \in 1 .. Len(p) : /\ p[f].chunk <= c /\ p[f].samples = v
                               /\ \A g \in 1 .. Len(p) : g > f => c < p[g].chunk
  BY DEF InMap
<1>2. /\ Len(p) \in Nat /\ Len(u) \in Nat /\ Len(p \o u) = Len(p) + Len(u)
      /\ \A d \in 1 .. Len(p) + Len(u) : (p \o u)[d] = IF d <= Len(p) THEN p[d] ELSE u[d - Len(p)]
  BY ConcatProperties
<1>3. PICK P, U, s_1 : P = Len(p) /\ U = Len(u) /\ s_1 = p \o u
  OBVIOUS
<1>4. /\ P \in Nat /\ U \in Nat /\ Len(s_1) = P + U
      /\ \A d \in 1 .. P + U : s_1[d] = IF d <= P THEN p[d] ELSE u[d - P]
  BY <1>2, <1>3
<1>5. f \in 1 .. P + U /\ s_1[f] = p[f]
  BY <1>3, <1>4
<1>6. ASSUME NEW g \in 1 .. Len(s_1), g > f PROVE c < s_1[g].chunk
  <2>1. g \in 1 .. P + U
    BY <1>4
  <2>2. CASE g <= P
    <3>1. s_1[g] = p[g] /\ g \in 1 .. Len(p)
      BY <1>3, <1>4, <2>1, <2>2
    <3> QED BY <1>1, <1>6, <3>1
  <2>3. CASE ~ g <= P
    <3>1. s_1[g] = u[g - P] /\ g - P \in 1 .. Len(u)
      BY <1>3, <1>4, <2>1, <2>3
    <3> QED BY <3>1
  <2> QED BY <2>2, <2>3
<1>7. f \in 1 .. Len(s_1) /\ s_1[f].chunk <= c /\ s_1[f].samples = v
  BY <1>1, <1>4, <1>5
<1>8. InMap(s_1, c, v)
  BY <1>6, <1>7 DEF InMap
<1> QED BY <1>3, <1>8

\* What the last part of a map says counts.
LEMMA JoinedLast ==
  ASSUME NEW p \in Seq(ChunkRun), NEW u \in Seq(ChunkRun), NEW c, NEW v, InMap(u, c, v)
  PROVE  InMap(p \o u, c, v)
<1>1. PICK f \in 1 .. Len(u) : /\ u[f].chunk <= c /\ u[f].samples = v
                               /\ \A g \in 1 .. Len(u) : g > f => c < u[g].chunk
  BY DEF InMap
<1>2. /\ Len(p) \in Nat /\ Len(u) \in Nat /\ Len(p \o u) = Len(p) + Len(u)
      /\ \A d \in 1 .. Len(p) + Len(u) : (p \o u)[d] = IF d <= Len(p) THEN p[d] ELSE u[d - Len(p)]
  BY ConcatProperties
<1>3. PICK P, U, s_1 : P = Len(p) /\ U = Len(u) /\ s_1 = p \o u
  OBVIOUS
<1>4. /\ P \in Nat /\ U \in Nat /\ Len(s_1) = P + U
      /\ \A d \in 1 .. P + U : s_1[d] = IF d <= P THEN p[d] ELSE u[d - P]
  BY <1>2, <1>3
<1>5. PICK h : h = P + f
  OBVIOUS
<1>6. h \in 1 .. P + U /\ ~ h <= P /\ h - P = f
  BY <1>3, <1>4, <1>5
<1>7. s_1[h] = u[f]
  BY <1>4, <1>6
<1>8. ASSUME NEW g \in 1 .. Len(s_1), g > h PROVE c < s_1[g].chunk
  <2>1. g \in 1 .. P + U /\ ~ g <= P /\ g - P \in 1 .. U /\ g - P > f
    BY <1>3, <1>4, <1>6, <1>8
  <2>2. s_1[g] = u[g - P]
    BY <1>4, <2>1
  <2> QED BY <1>1, <1>3, <2>1, <2>2
<1>9. h \in 1 .. Len(s_1) /\ s_1[h].chunk <= c /\ s_1[h].samples = v
  BY <1>1, <1>4, <1>6, <1>7
<1>10. InMap(s_1, c, v)
  BY <1>8, <1>9 DEF InMap
<1> QED BY <1>3, <1>10

\* A map of one entry.
LEMMA OneEntry ==
  ASSUME NEW d \in Nat, NEW k \in Nat, NEW c, d <= c, NEW r, r = <<[chunk |-> d, samples |-> k]>>
  PROVE  r \in Seq(ChunkRun) /\ Len(r) = 1 /\ r[1].chunk = d /\ InMap(r, c, k)
<1>1. PICK a : a = [chunk |-> d, samples |-> k]
  OBVIOUS
<1>2. a \in ChunkRun /\ a.chunk = d /\ a.samples = k
  BY <1>1 DEF ChunkRun
<1>3. r = <<a>>
  BY <1>1
<1>4. r \in Seq(ChunkRun) /\ Len(r) = 1 /\ r[1] = a
  BY <1>2, <1>3
<1>5. 1 \in 1 .. Len(r) /\ \A g \in 1 .. Len(r) : ~ g > 1
  BY <1>4
<1> QED BY <1>2, <1>4, <1>5 DEF InMap

\* A map counted from chunk sc.
ShiftedMap(q, sc) == [e \in DOMAIN q |-> [q[e] EXCEPT !.chunk = @ - sc]]

\* The renumbered map has the same entries.
LEMMA ShiftedIs ==
  ASSUME NEW q \in Seq(ChunkRun), NEW sc \in Nat, \A f \in 1 .. Len(q) : sc <= q[f].chunk
  PROVE  /\ ShiftedMap(q, sc) \in Seq(ChunkRun) /\ Len(ShiftedMap(q, sc)) = Len(q)
         /\ \A f \in 1 .. Len(q) : /\ ShiftedMap(q, sc)[f].chunk = q[f].chunk - sc
                                   /\ ShiftedMap(q, sc)[f].samples = q[f].samples
<1>1. DOMAIN q = 1 .. Len(q) /\ Len(q) \in Nat /\ \A f \in 1 .. Len(q) : q[f] \in ChunkRun
  OBVIOUS
<1>2. PICK u : u = ShiftedMap(q, sc)
  OBVIOUS
<1>3. PICK n \in Nat : n = Len(q)
  BY <1>1
<1>4. u = [e \in 1 .. n |-> [q[e] EXCEPT !.chunk = q[e].chunk - sc]]
  BY <1>1, <1>2, <1>3 DEF ShiftedMap
<1>5. ASSUME NEW f \in 1 .. n
      PROVE  u[f] \in ChunkRun /\ u[f].chunk = q[f].chunk - sc /\ u[f].samples = q[f].samples
  <2>1. PICK c, a : c = q[f].chunk - sc /\ a = q[f]
    OBVIOUS
  <2>2. a \in ChunkRun /\ a.chunk \in Nat /\ sc <= a.chunk
    BY <1>1, <1>3, <2>1 DEF ChunkRun
  <2>3. c \in Nat
    BY <2>1, <2>2
  <2>4. u[f] = [a EXCEPT !.chunk = c]
    BY <1>4, <2>1
  <2>5. u[f] \in ChunkRun /\ u[f].chunk = c /\ u[f].samples = a.samples
    BY <2>2, <2>3, <2>4 DEF ChunkRun
  <2> QED BY <2>1, <2>5
<1>6. u \in [1 .. n -> ChunkRun]
  BY <1>4, <1>5
<1>7. u \in Seq(ChunkRun) /\ Len(u) = n
  BY <1>6, FunctionSeq
<1> QED BY <1>2, <1>3, <1>5, <1>7

\* It says of a chunk what it said under its old number.
LEMMA ShiftedIn ==
  ASSUME NEW q \in Seq(ChunkRun), NEW sc \in Nat, \A f \in 1 .. Len(q) : sc <= q[f].chunk,
         NEW c \in Nat, NEW v, InMap(q, sc + c, v)
  PROVE  InMap(ShiftedMap(q, sc), c, v)
<1>1. PICK f \in 1 .. Len(q) : /\ q[f].chunk <= sc + c /\ q[f].samples = v
                               /\ \A g \in 1 .. Len(q) : g > f => sc + c < q[g].chunk
  BY DEF InMap
<1>2. PICK u : u = ShiftedMap(q, sc)
  OBVIOUS
<1>3. /\ Len(u) = Len(q)
      /\ \A g \in 1 .. Len(q) : u[g].chunk = q[g].chunk - sc /\ u[g].samples = q[g].samples
  BY <1>2, ShiftedIs
<1>4. \A g \in 1 .. Len(q) : q[g].chunk \in Nat
  <2>1. \A g \in 1 .. Len(q) : q[g] \in ChunkRun
    OBVIOUS
  <2> QED BY <2>1 DEF ChunkRun
<1>5. u[f].chunk <= c /\ u[f].samples = v
  <2>1. PICK h : h = q[f].chunk
    OBVIOUS
  <2>2. h \in Nat /\ h <= sc + c /\ u[f].chunk = h - sc
    BY <1>1, <1>3, <1>4, <2>1
  <2>3. h - sc <= c
    BY <2>2
  <2> QED BY <1>1, <1>3, <2>2, <2>3
<1>6. ASSUME NEW g \in 1 .. Len(u), g > f PROVE c < u[g].chunk
  <2>1. g \in 1 .. Len(q)
    BY <1>3
  <2>2. PICK h : h = q[g].chunk
    OBVIOUS
  <2>3. h \in Nat /\ sc + c < h /\ u[g].chunk = h - sc
    BY <1>1, <1>3, <1>4, <1>6, <2>1, <2>2
  <2>4. c < h - sc
    BY <2>3
  <2> QED BY <2>3, <2>4
<1>7. f \in 1 .. Len(u)
  BY <1>3
<1>8. InMap(u, c, v)
  BY <1>5, <1>6, <1>7 DEF InMap
<1> QED BY <1>2, <1>8

\* What a reader of the map takes chunk c to have.
LEMMA InMapMax ==
  ASSUME NEW q \in Seq(ChunkRun), NEW c \in Nat, NEW v, InMap(q, c, v)
  PROVE  q[Max({e \in DOMAIN q : q[e].chunk <= c})].samples = v
<1>1. PICK f \in 1 .. Len(q) : /\ q[f].chunk <= c /\ q[f].samples = v
                               /\ \A g \in 1 .. Len(q) : g > f => c < q[g].chunk
  BY DEF InMap
<1>2. DOMAIN q = 1 .. Len(q) /\ Len(q) \in Nat /\ \A g \in 1 .. Len(q) : q[g].chunk \in Nat
  <2>1. \A g \in 1 .. Len(q) : q[g] \in ChunkRun
    OBVIOUS
  <2>2. \A g \in 1 .. Len(q) : q[g].chunk \in Nat
    BY <2>1 DEF ChunkRun
  <2> QED BY <2>2
<1> DEFINE S == {e \in DOMAIN q : q[e].chunk <= c}
<1>3. S \subseteq Nat /\ f \in S
  BY <1>1, <1>2
<1>4. \A g \in S : g <= f
  <2>1. ASSUME NEW g \in S PROVE g <= f
    <3>1. g \in 1 .. Len(q) /\ q[g].chunk <= c /\ q[g].chunk \in Nat
      BY <1>2
    <3> SUFFICES ASSUME g > f PROVE FALSE
      BY <3>1
    <3>2. c < q[g].chunk
      BY <1>1, <3>1
    <3> QED BY <3>1, <3>2
  <2> QED BY <2>1
<1> HIDE DEF S
<1>5. Max(S) = f
  BY <1>3, <1>4, MaxIs
<1> QED BY <1>1, <1>5 DEF S

\* Of the samples from v up to E, those in the first c chunks from sc on.
WantedIn(F, sc, v, E, c) == IF c = 0 THEN 0 ELSE (IF F[sc + c] <= E THEN F[sc + c] ELSE E) - v

\* Where the map of these samples ends is where n samples end in what is left behind the
\* first a chunks (which have an entry of their own).
Prepared(z, F, sc, v, E, a, b, G, n) ==
  /\ a \in {0, 1} /\ b = sc + a /\ Chunked(z, b, G) /\ n \in 0 .. G[z.chunks - b]
  /\ n = (E - v) - WantedIn(F, sc, v, E, a)
  /\ \A k \in 0 .. z.chunks - b :
       Capped(G, n, k) = WantedIn(F, sc, v, E, k + a) - WantedIn(F, sc, v, E, a)
  /\ mp4_length = 0 => n = G[z.chunks - b]
  /\ mp4_length # 0 => n = z.end_sample - z.start_sample - InStart(z)
  /\ (IF mp4_length = 0 THEN z.stsc_start ELSE StartEntry(z))
       = IF a = 0 THEN <<>> ELSE <<[chunk |-> 1, samples |-> WantedIn(F, sc, v, E, 1)]>>

\* After the first half, when the range begins with an entry of its own.
LEMMA PreparedWhole ==
  ASSUME NEW x, NEW F, Chunked(x, 0, F), NEW sc \in 0 .. x.chunks - 1, NEW v \in Nat,
         F[sc] <= v, v < F[sc + 1], NEW z, z.chunks = x.chunks, z.stsc_start = <<>>,
         NEW l \in Nat \ {0}, sc + l = x.chunks, Chunked(z, sc, After(F, sc, v, l)),
         NEW E \in Nat, v <= E, E <= F[x.chunks],
         mp4_length = 0 => E = F[x.chunks],
         mp4_length # 0 => z.start_sample = v /\ z.end_sample = E
  PROVE  Prepared(z, F, sc, v, E, 0, sc, After(F, sc, v, l), E - v)
<1>1. PICK N : N = x.chunks
  OBVIOUS
<1>2. PICK G : G = After(F, sc, v, l)
  OBVIOUS
<1>3. /\ N \in Nat /\ sc \in Nat /\ sc + l = N /\ \A k \in 0 .. N : F[k] \in Nat
      /\ \A k, m \in 0 .. N : k <= m => F[k] <= F[m]
  BY <1>1, ChunkCounts
<1>4. G[0] = 0 /\ \A k \in 1 .. l : G[k] = F[sc + k] - v
  BY <1>2 DEF After
<1>5. N - sc = l
  BY <1>3
<1>6. PICK n : n = E - v
  OBVIOUS
<1>7. n \in Nat
  BY <1>6
<1>8. WantedIn(F, sc, v, E, 0) = 0
  BY DEF WantedIn
<1>9. ASSUME NEW k \in 0 .. l PROVE Capped(G, n, k) = WantedIn(F, sc, v, E, k)
  <2>1. CASE k = 0
    BY <1>4, <1>7, <1>8, <2>1 DEF Capped
  <2>2. CASE k # 0
    <3>1. k \in 1 .. l /\ sc + k \in 0 .. N
      BY <1>3, <2>2
    <3>2. PICK f : f = F[sc + k]
      OBVIOUS
    <3>3. f \in Nat /\ G[k] = f - v
      BY <1>3, <1>4, <3>1, <3>2
    <3>4. WantedIn(F, sc, v, E, k) = (IF f <= E THEN f ELSE E) - v
      BY <2>2, <3>2 DEF WantedIn
    <3>5. Capped(G, n, k) = IF f - v <= n THEN f - v ELSE n
      BY <3>3 DEF Capped
    <3>6. (f - v <= E - v) <=> f <= E
      BY <3>3
    <3> QED BY <1>6, <3>4, <3>5, <3>6
  <2> QED BY <2>1, <2>2
<1>10. G[l] = F[N] - v /\ F[N] \in Nat
  <2>1. l \in 1 .. l /\ N \in 0 .. N
    BY <1>3
  <2> QED BY <1>3, <1>4, <2>1
<1>11. n \in 0 .. G[l] /\ (mp4_length = 0 => n = G[l])
  <2>1. PICK f : f = F[N]
    OBVIOUS
  <2>2. f \in Nat /\ G[l] = f - v /\ E <= f /\ (mp4_length = 0 => E = f)
    BY <1>1, <1>10, <2>1
  <2>3. E - v \in 0 .. f - v
    BY <2>2
  <2> QED BY <1>6, <2>2, <2>3
<1>12. n = (E - v) - 0 /\ n = (E - v) - WantedIn(F, sc, v, E, 0)
  BY <1>6, <1>7, <1>8
<1>13. mp4_length # 0 => n = z.end_sample - z.start_sample - InStart(z)
  <2>1. InStart(z) = 0
    BY DEF InStart
  <2>2. mp4_length # 0 => z.start_sample = v /\ z.end_sample = E
    OBVIOUS
  <2> QED BY <1>12, <2>1, <2>2
<1>14. StartEntry(z) = <<>>
  <2>1. DOMAIN z.stsc_start = {}
    OBVIOUS
  <2>2. StartEntry(z) = [d \in {} |-> [chunk |-> 1, samples |-> InStart(z)]]
    BY <2>1 DEF StartEntry
  <2>3. [d \in {} |-> [chunk |-> 1, samples |-> InStart(z)]] \in [1 .. 0 -> ChunkRun]
    OBVIOUS
  <2>4. StartEntry(z) \in Seq(ChunkRun) /\ Len(StartEntry(z)) = 0
    BY <2>2, <2>3, FunctionSeq
  <2> HIDE DEF StartEntry
  <2> QED BY <2>4, EmptySeq
<1>15. ASSUME NEW k \in 0 .. l
       PROVE  Capped(G, n, k) = WantedIn(F, sc, v, E, k + 0) - WantedIn(F, sc, v, E, 0)
  <2>1. k + 0 = k /\ Capped(G, n, k) = WantedIn(F, sc, v, E, k)
    BY <1>9
  <2>2. Capped(G, n, k) \in Int
    <3>1. G[k] \in Nat
      BY <1>2, <1>3, <1>5, <1>1 DEF Chunked
    <3> QED BY <1>7, <3>1 DEF Capped
  <2>3. Capped(G, n, k) - 0 = Capped(G, n, k)
    BY <2>2
  <2> QED BY <1>8, <2>1, <2>3
<1>16. 0 \in {0, 1} /\ sc = sc + 0
  BY <1>3
<1>17. z.chunks - sc = l
  BY <1>1, <1>5
<1>18. Chunked(z, sc, G)
  BY <1>2
<1>19. Prepared(z, F, sc, v, E, 0, sc, G, n)
  BY <1>11, <1>12, <1>13, <1>14, <1>15, <1>16, <1>17, <1>18, Zenon DEF Prepared
<1> QED BY <1>2, <1>6, <1>19

\* And when its first chunk has become one.
LEMMA PreparedSplit ==
  ASSUME NEW x, NEW F, Chunked(x, 0, F), NEW sc \in 0 .. x.chunks - 1, NEW v \in Nat,
         F[sc] <= v, v < F[sc + 1], NEW z, z.chunks = x.chunks,
         z.stsc_start = <<[chunk |-> 1, samples |-> F[sc + 1] - v]>>,
         NEW l \in Nat \ {0}, (sc + 1) + l = x.chunks,
         Chunked(z, sc + 1, After(F, sc + 1, F[sc + 1], l)),
         NEW E \in Nat, v <= E, E <= F[x.chunks],
         mp4_length = 0 => E = F[x.chunks],
         mp4_length # 0 => z.start_sample = v /\ z.end_sample = E
  PROVE  \E G, n : Prepared(z, F, sc, v, E, 1, sc + 1, G, n)
<1>1. PICK N : N = x.chunks
  OBVIOUS
<1>2. PICK G : G = After(F, sc + 1, F[sc + 1], l)
  OBVIOUS
<1>3. /\ N \in Nat /\ sc \in Nat /\ (sc + 1) + l = N /\ \A k \in 0 .. N : F[k] \in Nat
      /\ \A k, m \in 0 .. N : k <= m => F[k] <= F[m]
  BY <1>1, ChunkCounts
<1>4. PICK h : h = F[sc + 1]
  OBVIOUS
<1>5. h \in Nat /\ v < h
  <2>1. sc + 1 \in 0 .. N
    BY <1>3
  <2> QED BY <1>3, <1>4, <2>1
<1>6. G[0] = 0 /\ \A k \in 1 .. l : G[k] = F[(sc + 1) + k] - h
  BY <1>2, <1>4 DEF After
<1>7. N - (sc + 1) = l
  BY <1>3
<1>8. PICK w : w = WantedIn(F, sc, v, E, 1)
  OBVIOUS
<1>9. w = (IF h <= E THEN h ELSE E) - v
  BY <1>4, <1>8 DEF WantedIn
<1>10. PICK n : n = (E - v) - w
  OBVIOUS
<1>11. n \in Nat /\ w \in Nat /\ n = IF h <= E THEN E - h ELSE 0
  BY <1>5, <1>9, <1>10
<1>12. ASSUME NEW k \in 0 .. l PROVE Capped(G, n, k) = WantedIn(F, sc, v, E, k + 1) - w
  <2>1. PICK f : f = F[sc + (k + 1)]
    OBVIOUS
  <2>2. sc + (k + 1) \in 0 .. N /\ sc + 1 \in 0 .. N /\ sc + 1 <= sc + (k + 1) /\ k + 1 # 0
    BY <1>3
  <2>3. f \in Nat /\ h <= f
    BY <1>3, <1>4, <2>1, <2>2
  <2>4. WantedIn(F, sc, v, E, k + 1) = (IF f <= E THEN f ELSE E) - v
    BY <2>1, <2>2 DEF WantedIn
  <2>5. G[k] = f - h
    <3>1. CASE k = 0
      <4>1. sc + (k + 1) = sc + 1
        BY <1>3, <3>1
      <4>2. f = h
        BY <1>4, <2>1, <4>1
      <4>3. f - h = 0
        BY <1>5, <4>2
      <4> QED BY <1>6, <3>1, <4>3
    <3>2. CASE k # 0
      <4>1. k \in 1 .. l /\ (sc + 1) + k = sc + (k + 1)
        BY <1>3, <3>2
      <4> QED BY <1>6, <2>1, <4>1
    <3> QED BY <3>1, <3>2
  <2>6. Capped(G, n, k) = IF f - h <= n THEN f - h ELSE n
    BY <2>5 DEF Capped
  <2>7. CASE h <= E
    <3>1. n = E - h /\ w = h - v
      BY <1>9, <1>11, <2>7
    <3>2. (f - h <= E - h) <=> f <= E
      BY <1>5, <2>3
    <3>3. CASE f <= E
      <4>1. f - h = (f - v) - (h - v)
        BY <1>5, <2>3
      <4> QED BY <2>4, <2>6, <3>1, <3>2, <3>3, <4>1
    <3>4. CASE ~ f <= E
      <4>1. E - h = (E - v) - (h - v)
        BY <1>5
      <4> QED BY <2>4, <2>6, <3>1, <3>2, <3>4, <4>1
    <3> QED BY <3>3, <3>4
  <2>8. CASE ~ h <= E
    <3>1. n = 0 /\ w = E - v
      BY <1>9, <1>11, <2>8
    <3>2. ~ f <= E
      BY <1>5, <2>3, <2>8
    <3>3. Capped(G, n, k) = 0
      BY <1>5, <2>3, <2>6, <3>1
    <3>4. (E - v) - (E - v) = 0
      OBVIOUS
    <3> QED BY <2>4, <3>1, <3>2, <3>3, <3>4
  <2> QED BY <2>7, <2>8
<1>13. G[l] = F[N] - h /\ F[N] \in Nat /\ h <= F[N]
  <2>1. l \in 1 .. l /\ N \in 0 .. N /\ sc + 1 \in 0 .. N /\ sc + 1 <= N
    BY <1>3
  <2>2. G[l] = F[(sc + 1) + l] - h
    BY <1>6, <2>1
  <2> QED BY <1>3, <1>4, <2>1, <2>2
<1>14. n \in 0 .. G[l] /\ (mp4_length = 0 => n = G[l])
  <2>1. PICK f : f = F[N]
    OBVIOUS
  <2>2. f \in Nat /\ G[l] = f - h /\ E <= f /\ h <= f /\ (mp4_length = 0 => E = f)
    BY <1>1, <1>13, <2>1
  <2>3. n \in 0 .. f - h /\ (E = f => n = f - h)
    BY <1>5, <1>11, <2>2
  <2> QED BY <2>2, <2>3
<1>15. PICK A : A = [chunk |-> 1, samples |-> F[sc + 1] - v]
  OBVIOUS
<1>16. z.stsc_start = <<A>> /\ A.samples = h - v /\ z.stsc_start # <<>> /\ DOMAIN z.stsc_start = {1}
  <2>1. A.samples = h - v /\ z.stsc_start = <<A>>
    BY <1>4, <1>15
  <2>2. DOMAIN <<A>> = 1 .. 1 /\ <<A>> # <<>> /\ 1 .. 1 = {1}
    OBVIOUS
  <2> QED BY <2>1, <2>2
<1>17. mp4_length # 0 => InStart(z) = w
  <2> SUFFICES ASSUME mp4_length # 0 PROVE InStart(z) = w
    OBVIOUS
  <2>1. InStart(z) = Min({h - v, E - v})
    <3>1. z.stsc_start[1].samples = h - v
      BY <1>16
    <3>2. z.end_sample - z.start_sample = E - v
      OBVIOUS
    <3> QED BY <1>16, <3>1, <3>2 DEF InStart
  <2>2. {h - v, E - v} \subseteq Nat /\ w \in {h - v, E - v} /\ \A k \in {h - v, E - v} : w <= k
    BY <1>5, <1>9
  <2> QED BY <2>1, <2>2, MinIs
<1>18. mp4_length # 0 => n = z.end_sample - z.start_sample - InStart(z)
  <2>1. mp4_length # 0 => z.start_sample = v /\ z.end_sample = E
    OBVIOUS
  <2> QED BY <1>10, <1>17, <2>1
<1>19. (IF mp4_length = 0 THEN z.stsc_start ELSE StartEntry(z)) = <<[chunk |-> 1, samples |-> w]>>
  <2>1. CASE mp4_length = 0
    <3>1. h <= E
      BY <1>1, <1>13, <2>1
    <3>2. w = h - v
      BY <1>9, <3>1
    <3> QED BY <1>4, <1>15, <1>16, <2>1, <3>2
  <2>2. CASE mp4_length # 0
    <3>1. PICK B : B = [chunk |-> 1, samples |-> w]
      OBVIOUS
    <3>2. StartEntry(z) = [d \in {1} |-> B]
      BY <1>16, <1>17, <2>2, <3>1 DEF StartEntry
    <3>3. <<B>> = [d \in {1} |-> B]
      <4>1. DOMAIN <<B>> = {1} /\ <<B>>[1] = B
        <5>1. 1 .. 1 = {1}
          OBVIOUS
        <5> QED BY <5>1
      <4>2. <<B>> = [d \in DOMAIN <<B>> |-> <<B>>[d]]
        OBVIOUS
      <4> QED BY <4>1, <4>2
    <3> QED BY <2>2, <3>1, <3>2, <3>3
  <2> QED BY <2>1, <2>2
<1>20. z.chunks - (sc + 1) = l
  BY <1>1, <1>7
<1>21. Chunked(z, sc + 1, G)
  BY <1>2
<1>22. 1 \in {0, 1} /\ 1 # 0
  OBVIOUS
<1>23. Prepared(z, F, sc, v, E, 1, sc + 1, G, n)
  BY <1>8, <1>10, <1>12, <1>14, <1>18, <1>19, <1>20, <1>21, <1>22, Zenon DEF Prepared
<1> QED BY <1>23

\* A chunk has so many samples before the end.
LEMMA CappedGrows ==
  ASSUME NEW x, NEW b, NEW G, Chunked(x, b, G), NEW n \in Nat, NEW M \in 0 .. x.chunks - b,
         NEW k \in 1 .. M
  PROVE  Capped(G, n, k) \in Nat /\ Capped(G, n, k - 1) \in Nat /\ Capped(G, n, k) - Capped(G, n, k - 1) \in Nat
<1>1. PICK l : l = x.chunks - b
  OBVIOUS
<1>2. l \in Int /\ M \in 0 .. l
  <2>1. x.chunks \in Nat /\ b \in Nat
    BY NextIs
  <2> QED BY <1>1, <2>1
<1>3. k \in 0 .. l /\ k - 1 \in 0 .. l /\ k - 1 <= k
  BY <1>2
<1>4. \A c, d \in 0 .. l : c <= d => G[c] <= G[d]
  BY <1>1, ChunkTimes
<1>5. \A c \in 0 .. l : G[c] \in Nat
  BY <1>1 DEF Chunked
<1>6. PICK f, g : f = G[k - 1] /\ g = G[k]
  OBVIOUS
<1>7. f \in Nat /\ g \in Nat /\ f <= g
  BY <1>3, <1>4, <1>5, <1>6
<1>8. Capped(G, n, k) = (IF g <= n THEN g ELSE n) /\ Capped(G, n, k - 1) = IF f <= n THEN f ELSE n
  BY <1>6 DEF Capped
<1> QED BY <1>7, <1>8

FirstMap(a, w) == IF a = 0 THEN <<>> ELSE <<[chunk |-> 1, samples |-> w]>>

WholeMap(q, r, sc, a, w, M, G, n) ==
  /\ FirstMap(a, w) \o ShiftedMap(q, sc) \o r \in Seq(ChunkRun)
  /\ Len(FirstMap(a, w) \o ShiftedMap(q, sc) \o r) = a + (Len(q) + Len(r)) /\ Len(FirstMap(a, w)) = a
  /\ \A c \in 1 .. M + a :
       InMap(FirstMap(a, w) \o ShiftedMap(q, sc) \o r, c,
             IF c <= a THEN w ELSE Capped(G, n, c - a) - Capped(G, n, c - a - 1))

\* The map that is sent: that of the first chunk, if it has one, that of the others, counted
\* from the first, and that of the last chunk.
LEMMA MapJoined ==
  ASSUME NEW x, NEW b, NEW G, Chunked(x, b, G), NEW n \in Nat, NEW M \in 0 .. x.chunks - b,
         NEW sc \in Nat, NEW a \in {0, 1}, a = 0 => b = sc, a = 1 => b = sc + 1, NEW w \in Nat,
         NEW q, NEW r, MapUpTo(q, r, sc, b, M, G, n)
  PROVE  WholeMap(q, r, sc, a, w, M, G, n)
<1>1. /\ M \in Nat /\ q \in Seq(ChunkRun) /\ \A f \in 1 .. Len(q) : b + 1 <= q[f].chunk
      /\ \/ r = <<>>
         \/ /\ M >= 1
            /\ r = <<[chunk |-> b + M - sc, samples |-> Capped(G, n, M) - Capped(G, n, M - 1)]>>
      /\ \A k \in 0 .. M - 1 :
           r = <<>> \/ k < M - 1 => InMap(q, b + k + 1, Capped(G, n, k + 1) - Capped(G, n, k))
  BY DEF MapUpTo
<1>2. \A f \in 1 .. Len(q) : q[f].chunk \in Nat
  <2>1. \A g \in 1 .. Len(q) : q[g] \in ChunkRun
    BY <1>1
  <2> QED BY <2>1 DEF ChunkRun
<1>3. Len(q) \in Nat /\ b \in Nat
  BY <1>1
<1>4. \A f \in 1 .. Len(q) : sc <= q[f].chunk
  <2>1. ASSUME NEW f \in 1 .. Len(q) PROVE sc <= q[f].chunk
    <3>1. PICK h : h = q[f].chunk
      OBVIOUS
    <3>2. h \in Nat /\ b + 1 <= h
      BY <1>1, <1>2, <3>1
    <3> QED BY <3>1, <3>2
  <2> QED BY <2>1
<1>5. PICK Q : Q = ShiftedMap(q, sc)
  OBVIOUS
<1>6. /\ Q \in Seq(ChunkRun) /\ Len(Q) = Len(q)
      /\ \A f \in 1 .. Len(q) : Q[f].chunk = q[f].chunk - sc
  BY <1>1, <1>4, <1>5, ShiftedIs
<1>7. ASSUME NEW f \in 1 .. Len(Q) PROVE a < Q[f].chunk
  <2>1. PICK h : h = q[f].chunk
    OBVIOUS
  <2>2. h \in Nat /\ b + 1 <= h /\ Q[f].chunk = h - sc
    BY <1>1, <1>2, <1>6, <2>1
  <2>3. a < h - sc
    BY <2>2
  <2> QED BY <2>2, <2>3
<1>8. ASSUME r # <<>>
      PROVE  /\ r \in Seq(ChunkRun) /\ Len(r) = 1 /\ r[1].chunk = M + a /\ M >= 1
             /\ InMap(r, M + a, Capped(G, n, M) - Capped(G, n, M - 1))
  <2>1. M >= 1 /\ r = <<[chunk |-> b + M - sc, samples |-> Capped(G, n, M) - Capped(G, n, M - 1)]>>
    BY <1>1, <1>8
  <2>2. PICK d : d = Capped(G, n, M) - Capped(G, n, M - 1)
    OBVIOUS
  <2>3. M \in 1 .. M
    BY <1>1, <2>1
  <2>4. d \in Nat
    BY <2>2, <2>3, CappedGrows
  <2>5. PICK c : c = M + a
    OBVIOUS
  <2>6. c \in Nat /\ c <= c /\ b + M - sc = c
    BY <1>1, <2>5
  <2>7. r = <<[chunk |-> c, samples |-> d]>>
    BY <2>1, <2>2, <2>6
  <2>8. r \in Seq(ChunkRun) /\ Len(r) = 1 /\ r[1].chunk = c /\ InMap(r, c, d)
    BY <2>4, <2>6, <2>7, OneEntry
  <2> QED BY <2>1, <2>2, <2>5, <2>8
<1>9. r \in Seq(ChunkRun) /\ Len(r) \in Nat
  <2>1. CASE r = <<>>
    BY <2>1, EmptySeq
  <2>2. CASE r # <<>>
    BY <1>8, <2>2
  <2> QED BY <2>1, <2>2
<1>20. PICK A : A = FirstMap(a, w)
  OBVIOUS
<1>21. A = IF a = 0 THEN <<>> ELSE <<[chunk |-> 1, samples |-> w]>>
  BY <1>20 DEF FirstMap
<1>22. b = sc + a
  OBVIOUS
<1>10. A \in Seq(ChunkRun) /\ Len(A) = a /\ (a = 1 => InMap(A, 1, w))
  <2>1. CASE a = 0
    <3>1. A = <<>>
      BY <1>21, <2>1
    <3>2. <<>> \in Seq(ChunkRun) /\ Len(<<>>) = 0
      BY EmptySeq
    <3> QED BY <2>1, <3>1, <3>2
  <2>2. CASE a = 1
    <3>1. PICK B : B = <<[chunk |-> 1, samples |-> w]>>
      OBVIOUS
    <3>2. B \in Seq(ChunkRun) /\ Len(B) = 1 /\ InMap(B, 1, w)
      <4>1. 1 \in Nat /\ 1 <= 1
        OBVIOUS
      <4> QED BY <3>1, <4>1, OneEntry
    <3>3. A = B
      BY <1>21, <2>2, <3>1
    <3> QED BY <2>2, <3>2, <3>3
  <2> QED BY <2>1, <2>2
<1>11. PICK B : B = A
  OBVIOUS
<1>12. B \in Seq(ChunkRun) /\ Len(B) = a /\ (a = 1 => InMap(B, 1, w))
  BY <1>10, <1>11
<1>13. PICK u : u = B \o Q
  OBVIOUS
<1>14. u \in Seq(ChunkRun) /\ Len(u) = a + Len(q)
  BY <1>6, <1>12, <1>13, ConcatProperties
<1>15. PICK v : v = u \o r
  OBVIOUS
<1>16. v \in Seq(ChunkRun) /\ Len(v) = (a + Len(q)) + Len(r)
  <2>1. v \in Seq(ChunkRun) /\ Len(v) = Len(u) + Len(r)
    BY <1>9, <1>14, <1>15, ConcatProperties
  <2> QED BY <1>14, <2>1
<1>17. ASSUME NEW c \in 1 .. M + a
       PROVE  InMap(v, c, IF c <= a THEN w ELSE Capped(G, n, c - a) - Capped(G, n, c - a - 1))
  <2>1. \A f \in 1 .. Len(r) : M + a <= r[f].chunk
    <3>1. CASE r = <<>>
      BY <3>1
    <3>2. CASE r # <<>>
      <4>1. Len(r) = 1 /\ r[1].chunk = M + a
        BY <1>8, <3>2
      <4>2. M + a <= M + a
        BY <1>1
      <4>3. \A f \in 1 .. 1 : f = 1
        OBVIOUS
      <4> QED BY <4>1, <4>2, <4>3
    <3> QED BY <3>1, <3>2
  <2>2. ASSUME NEW g, InMap(u, c, g), r = <<>> \/ c < M + a PROVE InMap(v, c, g)
    <3>1. ASSUME NEW f \in 1 .. Len(r) PROVE c < r[f].chunk
      <4>1. r # <<>>
        <5> SUFFICES ASSUME r = <<>> PROVE FALSE
          OBVIOUS
        <5>1. Len(r) = 0
          BY EmptySeq
        <5> QED BY <3>1, <5>1
      <4>2. c < M + a /\ r[1].chunk = M + a /\ Len(r) = 1
        BY <1>8, <2>2, <4>1
      <4>3. f = 1
        BY <4>2
      <4> QED BY <4>2, <4>3
    <3> QED BY <1>9, <1>14, <1>15, <2>2, <3>1, JoinedFirst
  <2>3. CASE c <= a
    <3>1. a = 1 /\ c = 1
      BY <2>3
    <3>2. ASSUME NEW f \in 1 .. Len(Q) PROVE c < Q[f].chunk
      BY <1>7, <3>1
    <3>3. InMap(u, c, w)
      <4>1. InMap(B, c, w)
        BY <1>12, <3>1
      <4> QED BY <1>6, <1>12, <1>13, <3>2, <4>1, JoinedFirst
    <3>4. r = <<>> \/ c < M + a
      <4>1. r # <<>> => M >= 1
        BY <1>8
      <4> QED BY <1>1, <3>1, <4>1
    <3> QED BY <2>2, <2>3, <3>3, <3>4
  <2>4. CASE ~ c <= a
    <3>1. PICK k : k = c - a - 1
      OBVIOUS
    <3>2. k \in 0 .. M - 1 /\ k + 1 = c - a /\ b + k + 1 = sc + c /\ c \in Nat
      BY <1>1, <1>22, <2>4, <3>1
    <3>3. PICK d : d = Capped(G, n, k + 1) - Capped(G, n, k)
      OBVIOUS
    <3>4. CASE r = <<>> \/ c < M + a
      <4>1. r = <<>> \/ k < M - 1
        BY <1>1, <3>1, <3>2, <3>4
      <4>2. InMap(q, sc + c, d)
        BY <1>1, <3>2, <3>3, <4>1
      <4>3. InMap(Q, c, d)
        BY <1>1, <1>4, <1>5, <3>2, <4>2, ShiftedIn
      <4>4. InMap(u, c, d)
        BY <1>6, <1>12, <1>13, <4>3, JoinedLast
      <4>5. InMap(v, c, d)
        BY <2>2, <3>4, <4>4
      <4> QED BY <2>4, <3>1, <3>2, <3>3, <4>5
    <3>5. CASE ~ (r = <<>> \/ c < M + a)
      <4>1. c = M + a /\ k + 1 = M /\ k = M - 1 /\ r # <<>>
        <5>1. M \in Nat /\ a \in Nat
          BY <1>1
        <5>2. c = M + a
          BY <3>2, <3>5, <5>1
        <5>3. k = (M + a) - a - 1
          BY <3>1, <5>2
        <5>4. k + 1 = M /\ k = M - 1
          BY <5>1, <5>3
        <5> QED BY <3>5, <5>2, <5>4
      <4>2. InMap(r, c, d)
        BY <1>8, <3>3, <4>1
      <4>3. InMap(v, c, d)
        BY <1>9, <1>14, <1>15, <4>2, JoinedLast
      <4> QED BY <2>4, <3>1, <3>2, <3>3, <4>3
    <3> QED BY <3>4, <3>5
  <2> QED BY <2>3, <2>4
<1>18. FirstMap(a, w) \o ShiftedMap(q, sc) \o r = v
  BY <1>5, <1>11, <1>13, <1>15, <1>20
<1>19. (a + Len(q)) + Len(r) = a + (Len(q) + Len(r))
  BY <1>3, <1>9
<1> QED BY <1>10, <1>16, <1>17, <1>18, <1>19, <1>20 DEF WholeMap

SentMap(y) == y.stsc_start \o y.stsc \o y.stsc_end

\* crop_stsc_data.
StscCropped(x) ==
  LET z == EndOfStsc(StartOfStsc(x))
  IN  Sized([z EXCEPT !.stsc = ShiftedMap(z.stsc, z.start_chunk)], 16, 12, z.sample_to_chunk_entries)

StscFields == {"stsc", "stsc_start", "stsc_end", "sample_to_chunk_entries", "size", "start_chunk",
               "start_chunk_samples", "end_chunk", "end_chunk_samples"}

\* The map of y is that of the samples of x from v up to E, which are in the m chunks from sc on.
MapSent(x, y, F, v, E, sc, m) ==
  /\ sc \in 0 .. x.chunks - 1 /\ m \in Nat /\ sc + m <= x.chunks /\ y.start_chunk = sc
  /\ F[sc] <= v /\ v < F[sc + 1] /\ y.start_chunk_samples = v - F[sc]
  /\ SentMap(y) \in Seq(ChunkRun) /\ y.size = x.size + 16 + 12 * Len(SentMap(y))
  /\ \A c \in 1 .. m :
       InMap(SentMap(y), c, WantedIn(F, sc, v, E, c) - WantedIn(F, sc, v, E, c - 1))
  /\ WantedIn(F, sc, v, E, m) = E - v
  /\ mp4_length = 0 => sc + m = x.chunks
  /\ mp4_length # 0 =>
       /\ y.end_chunk = sc + m
       /\ \/ m = 0 \/ (y.stsc_start # <<>> /\ m = 1)
          \/ y.end_chunk_samples = WantedIn(F, sc, v, E, m) - WantedIn(F, sc, v, E, m - 1)
  /\ Keeps(x, y, StscFields)

\* No more samples are wanted than the range has.
LEMMA WantedCounts ==
  ASSUME NEW x, NEW F, Chunked(x, 0, F), NEW sc \in 0 .. x.chunks - 1, NEW v \in Nat,
         v < F[sc + 1], NEW E \in Nat, v <= E, NEW c \in 0 .. x.chunks - sc
  PROVE  WantedIn(F, sc, v, E, c) \in Nat /\ WantedIn(F, sc, v, E, c) <= E - v
<1>1. PICK N : N = x.chunks
  OBVIOUS
<1>2. /\ N \in Nat /\ sc \in Nat /\ sc + 1 \in 0 .. N /\ \A k \in 0 .. N : F[k] \in Nat
      /\ \A k, m \in 0 .. N : k <= m => F[k] <= F[m]
  BY <1>1, ChunkCounts
<1>3. CASE c = 0
  BY <1>3 DEF WantedIn
<1>4. CASE c # 0
  <2>1. sc + c \in 0 .. N /\ sc + 1 <= sc + c
    BY <1>1, <1>2, <1>4
  <2>2. PICK f, g : f = F[sc + c] /\ g = F[sc + 1]
    OBVIOUS
  <2>3. f \in Nat /\ g \in Nat /\ g <= f /\ v < g
    BY <1>2, <2>1, <2>2
  <2>4. WantedIn(F, sc, v, E, c) = (IF f <= E THEN f ELSE E) - v
    BY <1>4, <2>2 DEF WantedIn
  <2> QED BY <2>3, <2>4
<1> QED BY <1>3, <1>4

\* update_stsc leaves for each chunk the number of its samples within the range.
LEMMA StscSent ==
  ASSUME NEW x, DOMAIN x = Fields, NEW F, Chunked(x, 0, F), x.stsc_start = <<>>, x.stsc_end = <<>>,
         x.start_sample \in Nat, x.start_sample < F[x.chunks], x.size \in Nat,
         NEW E \in Nat, x.start_sample <= E, E <= F[x.chunks],
         mp4_length = 0 => E = F[x.chunks], mp4_length # 0 => x.end_sample = E
  PROVE  \E sc, m : MapSent(x, StscCropped(x), F, x.start_sample, E, sc, m)
<1>1. PICK z : z = StartOfStsc(x)
  OBVIOUS
<1>2. PICK v : v = x.start_sample
  OBVIOUS
<1>3. PICK sc : sc = z.start_chunk
  OBVIOUS
<1>4. PICK N : N = x.chunks
  OBVIOUS
<1> DEFINE same == {"stsc", "stsc_start", "sample_to_chunk_entries", "start_chunk",
                    "start_chunk_samples"}
<1>5. StartsAt(x, z, F, sc, v) /\ Keeps(x, z, same)
  BY <1>1, <1>2, <1>3, StartStsc
<1>6. /\ sc \in 0 .. N - 1 /\ F[sc] <= v /\ v < F[sc + 1]
      /\ z.start_chunk_samples = v - F[sc]
      /\ z.sample_to_chunk_entries = Len(z.stsc_start) + Len(z.stsc)
      /\ \/ z.stsc_start = <<>> /\ Chunked(z, sc, After(F, sc, v, N - sc))
         \/ /\ z.stsc_start = <<[chunk |-> 1, samples |-> F[sc + 1] - v]>> /\ sc + 1 < N
            /\ Chunked(z, sc + 1, After(F, sc + 1, F[sc + 1], N - (sc + 1)))
  BY <1>4, <1>5 DEF StartsAt
<1>7. /\ z.chunks = N /\ z.start_sample = v /\ z.stsc_end = <<>> /\ z.end_sample = x.end_sample
      /\ DOMAIN z = Fields
  BY <1>2, <1>4, <1>5 DEF Keeps, Fields
<1>8. v \in Nat /\ v <= E /\ N \in Nat /\ sc \in Nat
  BY <1>2, <1>4, <1>6, ChunkCounts
<1>9. PICK a, b, G, n : Prepared(z, F, sc, v, E, a, b, G, n) /\ Len(z.stsc_start) = a
  <2>1. mp4_length # 0 => z.start_sample = v /\ z.end_sample = E
    BY <1>7
  <2>2. sc \in 0 .. x.chunks - 1 /\ z.chunks = x.chunks
    BY <1>4, <1>6, <1>7
  <2>3. CASE z.stsc_start = <<>> /\ Chunked(z, sc, After(F, sc, v, N - sc))
    <3>1. PICK l : l = N - sc
      OBVIOUS
    <3>2. l \in Nat \ {0} /\ sc + l = x.chunks
      BY <1>4, <1>6, <1>8, <3>1
    <3>3. Chunked(z, sc, After(F, sc, v, l))
      BY <2>3, <3>1
    <3>4. Prepared(z, F, sc, v, E, 0, sc, After(F, sc, v, l), E - v)
      BY <1>6, <1>8, <2>1, <2>2, <2>3, <3>2, <3>3, PreparedWhole
    <3>5. Len(z.stsc_start) = 0
      BY <2>3, EmptySeq
    <3> QED BY <3>4, <3>5
  <2>4. CASE /\ z.stsc_start = <<[chunk |-> 1, samples |-> F[sc + 1] - v]>> /\ sc + 1 < N
             /\ Chunked(z, sc + 1, After(F, sc + 1, F[sc + 1], N - (sc + 1)))
    <3>1. PICK l : l = N - (sc + 1)
      OBVIOUS
    <3>2. l \in Nat \ {0} /\ (sc + 1) + l = x.chunks
      BY <1>4, <1>8, <2>4, <3>1
    <3>3. Chunked(z, sc + 1, After(F, sc + 1, F[sc + 1], l))
      BY <2>4, <3>1
    <3>4. \E G, n : Prepared(z, F, sc, v, E, 1, sc + 1, G, n)
      BY <1>6, <1>8, <2>1, <2>2, <2>4, <3>2, <3>3, PreparedSplit
    <3>5. Len(z.stsc_start) = 1
      BY <2>4
    <3> QED BY <3>4, <3>5
  <2> QED BY <1>6, <2>3, <2>4
<1>10. /\ a \in {0, 1} /\ b = sc + a /\ Chunked(z, b, G) /\ n \in 0 .. G[z.chunks - b]
       /\ n = (E - v) - WantedIn(F, sc, v, E, a)
       /\ \A k \in 0 .. z.chunks - b :
            Capped(G, n, k) = WantedIn(F, sc, v, E, k + a) - WantedIn(F, sc, v, E, a)
       /\ mp4_length = 0 => n = G[z.chunks - b]
       /\ mp4_length # 0 => n = z.end_sample - z.start_sample - InStart(z)
       /\ (IF mp4_length = 0 THEN z.stsc_start ELSE StartEntry(z))
            = IF a = 0 THEN <<>> ELSE <<[chunk |-> 1, samples |-> WantedIn(F, sc, v, E, 1)]>>
  BY <1>9, Zenon DEF Prepared
<1>11. /\ Len(z.stsc) \in Nat /\ z.sample_to_chunk_entries \in Nat
       /\ z.sample_to_chunk_entries - Len(z.stsc) = a
  <2>1. Len(z.stsc) \in Nat
    BY <1>10, NextIs
  <2> QED BY <1>6, <1>9, <1>10, <2>1
<1>12. PICK y : y = EndOfStsc(z)
  OBVIOUS
<1>13. PICK M : M \in Nat /\ Ends(z, y, b, G, n, M)
  <2>1. z.start_chunk \in Nat
    BY <1>3, <1>8
  <2>2. CASE mp4_length = 0
    <3>1. PICK M : M = z.chunks - b
      OBVIOUS
    <3>2. M \in Nat
      <4>1. a = 1 => sc + 1 < N
        <5>1. ASSUME a = 1 PROVE z.stsc_start # <<>>
          <6>1. Len(z.stsc_start) = 1
            BY <1>9, <5>1
          <6>2. Len(<<>>) = 0
            OBVIOUS
          <6>3. 1 # 0
            OBVIOUS
          <6> QED BY <6>1, <6>2, <6>3, Zenon
        <5> QED BY <1>6, <5>1
      <4> QED BY <1>6, <1>7, <1>8, <1>10, <3>1, <4>1
    <3>3. Ends(z, EndOfStsc(z), b, G, G[M], M)
      BY <1>7, <1>10, <1>11, <2>1, <2>2, <3>1, <3>2, EndlessStsc
    <3>4. n = G[M]
      BY <1>10, <2>2, <3>1
    <3> QED BY <1>12, <3>2, <3>3, <3>4
  <2>3. CASE mp4_length # 0
    <3>1. n = z.end_sample - z.start_sample - InStart(z)
      BY <1>10, <2>3
    <3>2. \E M \in Nat : Ends(z, EndOfStsc(z), b, G, n, M)
      BY <1>7, <1>10, <1>11, <2>1, <2>3, <3>1, EndStsc
    <3> QED BY <1>12, <3>2
  <2> QED BY <2>2, <2>3
<1>14. /\ MapUpTo(y.stsc, y.stsc_end, sc, b, M, G, n) /\ M \in 0 .. z.chunks - b /\ n <= G[M]
       /\ y.sample_to_chunk_entries = a + (Len(y.stsc) + Len(y.stsc_end))
       /\ Keeps(z, y, EndFields)
       /\ (mp4_length = 0 => y.stsc_start = z.stsc_start /\ M = z.chunks - b)
       /\ (mp4_length # 0 =>
             /\ y.stsc_start = StartEntry(z) /\ y.end_chunk = b + M
             /\ M >= 1 => y.end_chunk_samples = Capped(G, n, M) - Capped(G, n, M - 1))
  BY <1>3, <1>11, <1>13 DEF Ends
<1>15. PICK w : w = WantedIn(F, sc, v, E, 1)
  OBVIOUS
<1>16. y.stsc_start = IF a = 0 THEN <<>> ELSE <<[chunk |-> 1, samples |-> w]>>
  BY <1>10, <1>14, <1>15
<1>17. n \in Nat /\ b \in Nat /\ N - sc \in Nat /\ N - b \in Int
  <2>1. G[M] \in Nat /\ G[z.chunks - b] \in Nat
    <3>1. z.chunks - b \in 0 .. z.chunks - b
      <4>1. z.chunks - b \in Int
        BY <1>7, <1>8, <1>10
      <4> QED BY <1>13, <1>14, <4>1
    <3> QED BY <1>10, <1>14, <3>1 DEF Chunked
  <2> QED BY <1>6, <1>8, <1>10, <2>1
<1>18. \A c \in 0 .. N - sc : WantedIn(F, sc, v, E, c) \in Nat /\ WantedIn(F, sc, v, E, c) <= E - v
  <2>1. sc \in 0 .. x.chunks - 1
    BY <1>4, <1>6
  <2>2. ASSUME NEW c \in 0 .. x.chunks - sc
        PROVE  WantedIn(F, sc, v, E, c) \in Nat /\ WantedIn(F, sc, v, E, c) <= E - v
    BY <1>6, <1>8, <2>1, WantedCounts
  <2> QED BY <1>4, <2>2
<1>19. w \in Nat
  <2>1. 1 \in 0 .. N - sc
    BY <1>6, <1>8
  <2> QED BY <1>15, <1>18, <2>1
<1>20. PICK S : S = y.stsc_start \o ShiftedMap(y.stsc, sc) \o y.stsc_end
  OBVIOUS
<1>21. /\ S \in Seq(ChunkRun) /\ Len(S) = a + (Len(y.stsc) + Len(y.stsc_end)) /\ Len(y.stsc_start) = a
       /\ \A c \in 1 .. M + a :
            InMap(S, c, IF c <= a THEN w ELSE Capped(G, n, c - a) - Capped(G, n, c - a - 1))
  <2>1. PICK q, r : q = y.stsc /\ r = y.stsc_end
    OBVIOUS
  <2>2. y.stsc_start = FirstMap(a, w)
    BY <1>16 DEF FirstMap
  <2>3. MapUpTo(q, r, sc, b, M, G, n)
    BY <1>14, <2>1
  <2>4. (a = 0 => b = sc) /\ (a = 1 => b = sc + 1)
    BY <1>8, <1>10
  <2>5. /\ FirstMap(a, w) \o ShiftedMap(q, sc) \o r \in Seq(ChunkRun)
        /\ Len(FirstMap(a, w) \o ShiftedMap(q, sc) \o r) = a + (Len(q) + Len(r)) /\ Len(FirstMap(a, w)) = a
        /\ \A c \in 1 .. M + a :
              InMap(FirstMap(a, w) \o ShiftedMap(q, sc) \o r, c,
                    IF c <= a THEN w ELSE Capped(G, n, c - a) - Capped(G, n, c - a - 1))
    <3>1. /\ Chunked(z, b, G) /\ n \in Nat /\ M \in 0 .. z.chunks - b /\ sc \in Nat /\ a \in {0, 1}
          /\ w \in Nat
      BY <1>8, <1>10, <1>14, <1>17, <1>19
    <3>2. WholeMap(q, r, sc, a, w, M, G, n)
      BY <2>3, <2>4, <3>1, MapJoined
    <3> QED BY <3>2 DEF WholeMap
  <2> QED BY <1>20, <2>1, <2>2, <2>5
<1>22. PICK m : m = M + a
  OBVIOUS
<1>23. m \in Nat /\ sc + m = b + M /\ sc + m <= N /\ m \in 0 .. N - sc /\ a \in Nat
  <2>1. b = sc + a /\ a \in Nat /\ a \in {0, 1}
    BY <1>10
  <2>2. M \in 0 .. N - b /\ M \in Nat
    BY <1>7, <1>13, <1>14
  <2>3. m \in Nat /\ sc + m = b + M
    BY <1>8, <1>22, <2>1, <2>2
  <2>4. b + M <= N
    BY <1>8, <1>17, <2>2
  <2> QED BY <1>8, <2>1, <2>3, <2>4
<1>24. ASSUME NEW c \in 1 .. m, ~ c <= a
       PROVE  Capped(G, n, c - a) - Capped(G, n, c - a - 1)
                = WantedIn(F, sc, v, E, c) - WantedIn(F, sc, v, E, c - 1)
  <2>1. c - a \in 0 .. z.chunks - b /\ c - a - 1 \in 0 .. z.chunks - b /\ (c - a) + a = c
        /\ (c - a - 1) + a = c - 1 /\ c \in 0 .. N - sc /\ c - 1 \in 0 .. N - sc /\ a \in 0 .. N - sc
    <3>1. z.chunks - b = N - b /\ M <= N - b /\ N - b \in Int
      BY <1>7, <1>13, <1>14, <1>17
    <3> QED BY <1>13, <1>17, <1>22, <1>23, <1>24, <3>1
  <2>2. PICK f, g, h : /\ f = WantedIn(F, sc, v, E, c) /\ g = WantedIn(F, sc, v, E, c - 1)
                       /\ h = WantedIn(F, sc, v, E, a)
    OBVIOUS
  <2>3. f \in Nat /\ g \in Nat /\ h \in Nat
    BY <1>18, <2>1, <2>2
  <2>4. Capped(G, n, c - a) = f - h /\ Capped(G, n, c - a - 1) = g - h
    BY <1>10, <2>1, <2>2
  <2>5. (f - h) - (g - h) = f - g
    BY <2>3
  <2> QED BY <2>2, <2>4, <2>5
<1>25. ASSUME NEW c \in 1 .. m
       PROVE  InMap(S, c, WantedIn(F, sc, v, E, c) - WantedIn(F, sc, v, E, c - 1))
  <2>1. InMap(S, c, IF c <= a THEN w ELSE Capped(G, n, c - a) - Capped(G, n, c - a - 1))
    BY <1>21, <1>22
  <2>2. CASE c <= a
    <3>1. c = 1 /\ c - 1 = 0
      BY <1>10, <2>2
    <3>2. WantedIn(F, sc, v, E, c - 1) = 0
      BY <3>1 DEF WantedIn
    <3>3. WantedIn(F, sc, v, E, c) - WantedIn(F, sc, v, E, c - 1) = w
      BY <1>15, <1>19, <3>1, <3>2
    <3> QED BY <2>1, <2>2, <3>3
  <2>3. CASE ~ c <= a
    BY <1>24, <2>1, <2>3
  <2> QED BY <2>2, <2>3
<1>26. WantedIn(F, sc, v, E, m) = E - v
  <2>1. Capped(G, n, M) = n
    <3>1. G[M] \in Nat
      BY <1>10, <1>14 DEF Chunked
    <3>2. G[M] <= n => G[M] = n
      BY <1>14, <1>17, <3>1
    <3> QED BY <3>2 DEF Capped
  <2>2. a \in 0 .. N - sc
    <3>1. PICK d : d = N - sc
      OBVIOUS
    <3>2. d \in Nat /\ m \in 0 .. d /\ M \in Nat /\ a \in Nat
      BY <1>13, <1>17, <1>23, <3>1
    <3>3. a \in 0 .. d
      BY <1>22, <3>2
    <3> QED BY <3>1, <3>3
  <2>3. PICK f, h : f = WantedIn(F, sc, v, E, m) /\ h = WantedIn(F, sc, v, E, a)
    OBVIOUS
  <2>4. f \in Nat /\ h \in Nat
    BY <1>18, <1>23, <2>2, <2>3
  <2>5. n = f - h
    BY <1>10, <1>14, <1>22, <2>1, <2>3
  <2>6. n = (E - v) - h
    BY <1>10, <2>3
  <2>7. f = E - v
    BY <1>8, <2>4, <2>5, <2>6
  <2> QED BY <2>3, <2>7
<1> DEFINE Y == StscCropped(x)
<1>27. PICK k, Q : k = y.size + 16 + 12 * y.sample_to_chunk_entries /\ Q = ShiftedMap(y.stsc, sc)
  OBVIOUS
<1>28. y.start_chunk = sc /\ y.size = x.size /\ y.start_chunk_samples = v - F[sc] /\ DOMAIN y = Fields
  BY <1>3, <1>5, <1>6, <1>14 DEF Keeps, Fields, EndFields
<1>29. Y = [y EXCEPT !.stsc = Q, !.size = k]
  <2>1. Y = Sized([y EXCEPT !.stsc = Q], 16, 12, y.sample_to_chunk_entries)
    BY <1>1, <1>12, <1>27, <1>28 DEF StscCropped
  <2>2. PICK u : u = [y EXCEPT !.stsc = Q]
    OBVIOUS
  <2>3. u.size = y.size
    BY <1>28, <2>2 DEF Fields
  <2>4. Y = [u EXCEPT !.size = k]
    <3>1. Y = Sized(u, 16, 12, y.sample_to_chunk_entries)
      BY <2>1, <2>2
    <3> QED BY <1>27, <2>3, <3>1 DEF Sized
  <2> QED BY <2>2, <2>4
<1> HIDE DEF Y
<1>30. /\ Y.stsc = Q /\ Y.size = k /\ DOMAIN Y = Fields
       /\ \A f \in Fields \ {"stsc", "size"} : Y[f] = y[f]
  BY <1>28, <1>29 DEF Fields
<1>31. /\ Y.stsc_start = y.stsc_start /\ Y.stsc_end = y.stsc_end /\ Y.start_chunk = sc
       /\ Y.start_chunk_samples = v - F[sc] /\ Y.end_chunk = y.end_chunk
       /\ Y.end_chunk_samples = y.end_chunk_samples
  BY <1>28, <1>30 DEF Fields
<1>32. Keeps(x, Y, StscFields)
  BY <1>5, <1>14, <1>30 DEF Keeps, Fields, EndFields, StscFields
<1>33. SentMap(Y) = S
  BY <1>20, <1>27, <1>30, <1>31 DEF SentMap
<1>34. Y.size = x.size + 16 + 12 * Len(S)
  BY <1>14, <1>21, <1>27, <1>28, <1>30
<1>35. mp4_length = 0 => sc + m = N
  <2>1. mp4_length = 0 => M = N - b
    BY <1>7, <1>14
  <2> QED BY <1>8, <1>17, <1>23, <2>1
<1>36. mp4_length # 0 =>
         /\ Y.end_chunk = sc + m
         /\ \/ m = 0 \/ (Y.stsc_start # <<>> /\ m = 1)
            \/ Y.end_chunk_samples = WantedIn(F, sc, v, E, m) - WantedIn(F, sc, v, E, m - 1)
  <2> SUFFICES ASSUME mp4_length # 0
               PROVE  /\ Y.end_chunk = sc + m
                      /\ \/ m = 0 \/ (Y.stsc_start # <<>> /\ m = 1)
                         \/ Y.end_chunk_samples
                              = WantedIn(F, sc, v, E, m) - WantedIn(F, sc, v, E, m - 1)
    OBVIOUS
  <2>1. Y.end_chunk = sc + m
    BY <1>14, <1>23, <1>31
  <2>2. CASE M >= 1
    <3>1. Y.end_chunk_samples = Capped(G, n, M) - Capped(G, n, M - 1)
      BY <1>14, <1>31, <2>2
    <3>2. m \in 1 .. m /\ ~ m <= a /\ m - a = M /\ m - a - 1 = M - 1
      BY <1>13, <1>22, <1>23, <2>2
    <3>3. Capped(G, n, m - a) - Capped(G, n, m - a - 1)
                = WantedIn(F, sc, v, E, m) - WantedIn(F, sc, v, E, m - 1)
      BY <1>24, <3>2
    <3> QED BY <2>1, <3>1, <3>2, <3>3
  <2>3. CASE ~ M >= 1
    <3>1. M = 0
      BY <1>13, <2>3
    <3>2. CASE a = 0
      BY <1>22, <2>1, <3>1, <3>2
    <3>3. CASE a = 1
      <4>1. Len(y.stsc_start) = 1
        BY <1>21, <3>3
      <4>2. y.stsc_start # <<>>
        <5>1. Len(<<>>) = 0
          OBVIOUS
        <5>2. Len(y.stsc_start) # Len(<<>>)
          BY <4>1, <5>1
        <5> QED BY <5>2, Zenon
      <4> QED BY <1>22, <1>31, <2>1, <3>1, <3>3, <4>2
    <3> QED BY <1>10, <3>2, <3>3
  <2> QED BY <2>2, <2>3
<1>37. MapSent(x, Y, F, v, E, sc, m)
  BY <1>4, <1>6, <1>21, <1>23, <1>25, <1>26, <1>31, <1>32, <1>33, <1>34, <1>35, <1>36 DEF MapSent
<1> QED BY <1>2, <1>37 DEF Y

\* A track has the chunk map of the file.
WholeChunkMap(x) ==
  x.chunks = Len(t.stco) /\ x.stsc = [e \in DOMAIN t.stsc |-> [t.stsc[e] EXCEPT !.chunk = @ + 1]]

\* The chunks of a croppable track have all of its samples.
LEMMA ChunksHaveAll ==
  ASSUME IndexInv, pc = "done", Croppable
  PROVE  Firsts(t)[Len(t.stco)] = size
<1> DEFINE F == Firsts(t)
           L == Len(t.stco)
<1>1. /\ t \in Tables /\ size \in Nat
      /\ \A c \in Chunks : chunks[c].size = InChunkOf(t, c) /\ chunks[c].sample = F[c]
  BY SamplesKnown
<1>2. L \in Nat \ {0} /\ Chunks = 0 .. L - 1
  BY TablesKnown
<1>3. L - 1 \in Chunks /\ L - 1 \in 0 .. L - 1 /\ L - 1 + 1 = L
  BY <1>2
<1>4. chunks[L - 1].sample + chunks[L - 1].size = size
  BY DEF Croppable
<1>5. F[L - 1 + 1] = F[L - 1] + InChunkOf(t, L - 1)
  BY <1>1, <1>3, FirstsRise
<1> QED BY <1>1, <1>3, <1>4, <1>5

\* Its chunk map says how many are in each.
LEMMA FirstsChunked ==
  ASSUME IndexInv, pc = "done", Croppable, NEW x, WholeChunkMap(x)
  PROVE  Chunked(x, 0, Firsts(t))
<1> DEFINE F == Firsts(t)
<1>1. PICK q, N, L : q = t.stsc /\ N = Len(t.stsc) /\ L = Len(t.stco)
  OBVIOUS
<1>2. t \in Tables
  BY TablesKnown
<1>3. /\ N \in Nat \ {0} /\ DOMAIN q = 1 .. N /\ L \in Nat \ {0}
      /\ \A e \in 1 .. N : q[e].chunk \in 0 .. L - 1 /\ q[e].samples \in Nat
      /\ q[1].chunk = 0
      /\ \A d, e \in 1 .. N : d < e => q[d].chunk < q[e].chunk
  BY <1>1, <1>2, ChunksRise
<1>4. q \in Seq([chunk : Nat, samples : Nat])
  BY <1>1, <1>2, TablesAssumption DEF Typed
<1>5. \A e \in 1 .. N : q[e] \in [chunk : Nat, samples : Nat]
  <2>1. N = Len(q)
    BY <1>1
  <2> QED BY <1>4, <2>1, ElementOfSeq
<1>6. \A e \in 1 .. N : q[e].samples # 0
  <2>1. \A e \in DOMAIN q : q[e].samples > 0
    BY <1>1 DEF Croppable
  <2> QED BY <1>3, <2>1
<1>7. PICK p : p = x.stsc
  OBVIOUS
<1>8. p = [e \in 1 .. N |-> [q[e] EXCEPT !.chunk = @ + 1]] /\ x.chunks = L
  BY <1>1, <1>3, <1>7 DEF WholeChunkMap
<1>9. ASSUME NEW e \in 1 .. N
      PROVE  p[e] \in ChunkRun /\ p[e].chunk = q[e].chunk + 1 /\ p[e].samples = q[e].samples
  <2>1. PICK r : r = q[e]
    OBVIOUS
  <2>2. r \in [chunk : Nat, samples : Nat]
    BY <1>5, <2>1
  <2>3. p[e] = [r EXCEPT !.chunk = r.chunk + 1]
    BY <1>8, <2>1
  <2>4. r.chunk \in Nat /\ r.samples \in Nat /\ DOMAIN r = {"chunk", "samples"}
    BY <2>2
  <2>5. p[e] = [chunk |-> r.chunk + 1, samples |-> r.samples]
    BY <2>2, <2>3
  <2>6. p[e] \in [chunk : Nat, samples : Nat]
    BY <2>4, <2>5
  <2>7. p[e].chunk = r.chunk + 1 /\ p[e].samples = r.samples
    BY <2>5
  <2> QED BY <2>1, <2>6, <2>7 DEF ChunkRun
<1>10. p \in Seq(ChunkRun) /\ Len(p) = N
  <2>1. p = [e \in 1 .. N |-> p[e]]
    BY <1>8
  <2> QED BY <1>3, <1>9, <2>1, FunctionSeq
<1>11. ASSUME NEW e \in 1 .. N
       PROVE  NextChunk(x, e) = (IF e < N THEN q[e + 1].chunk + 1 ELSE L + 1) /\ p[e].chunk < NextChunk(x, e)
  <2>1. NextChunk(x, e) = IF e < N THEN p[e + 1].chunk ELSE L + 1
    BY <1>7, <1>8, <1>10 DEF NextChunk
  <2>2. CASE e < N
    <3>1. e + 1 \in 1 .. N /\ e < e + 1
      BY <1>3, <2>2
    <3>2. q[e].chunk < q[e + 1].chunk /\ q[e].chunk \in Nat /\ q[e + 1].chunk \in Nat
      BY <1>3, <3>1
    <3>3. p[e].chunk = q[e].chunk + 1 /\ p[e + 1].chunk = q[e + 1].chunk + 1
      BY <1>9, <3>1
    <3> QED BY <2>1, <2>2, <3>2, <3>3
  <2>3. CASE ~ e < N
    <3>1. p[e].chunk = q[e].chunk + 1 /\ q[e].chunk \in 0 .. L - 1
      BY <1>3, <1>9
    <3> QED BY <1>3, <2>1, <2>3, <3>1
  <2> QED BY <2>2, <2>3
<1>12. /\ F[0] = 0 /\ \A c \in 0 .. L : F[c] \in Nat
       /\ \A c \in 0 .. L - 1 : F[c + 1] = F[c] + InChunkOf(t, c)
  BY <1>1, <1>2, FirstsRise
<1> HIDE DEF F
<1>13. ASSUME NEW e \in 1 .. N, NEW k \in 0 .. L - 1, p[e].chunk <= k + 1, k + 1 < NextChunk(x, e)
       PROVE  F[k + 1] = F[k] + p[e].samples
  <2>1. q[e].chunk <= k
    BY <1>3, <1>9, <1>13
  <2>2. e < N => k < q[e + 1].chunk
    <3>1. e < N => e + 1 \in 1 .. N
      BY <1>3
    <3> QED BY <1>3, <1>11, <1>13, <3>1
  <2>3. EntryFor(t, k) = e
    <3>1. k \in Nat /\ e \in 1 .. Len(t.stsc) /\ t.stsc[e].chunk <= k
      BY <1>1, <1>3, <2>1
    <3>2. e < Len(t.stsc) => k < t.stsc[e + 1].chunk
      BY <1>1, <2>2
    <3> QED BY <1>2, <3>1, <3>2, EntryForIs
  <2>4. InChunkOf(t, k) = q[e].samples
    BY <1>1, <2>3 DEF InChunkOf
  <2>5. p[e].samples = q[e].samples
    BY <1>9
  <2> QED BY <1>12, <2>4, <2>5
<1>14. \A e \in 1 .. N : p[e].samples # 0
  BY <1>6, <1>9
<1>15. p[1].chunk = 1
  BY <1>3, <1>9
<1>16. x.chunks \in Nat /\ L - 0 = L /\ L - 0 - 1 = L - 1 /\ \A k \in 0 .. L - 1 : 0 + k + 1 = k + 1
  BY <1>3, <1>8
<1>17. Chunked(x, 0, F)
  <2>1. \A e \in 1 .. Len(x.stsc) : x.stsc[e].samples # 0 /\ x.stsc[e].chunk < NextChunk(x, e)
    BY <1>7, <1>10, <1>11, <1>14
  <2>2. \A e \in 1 .. Len(x.stsc) : \A k \in 0 .. x.chunks - 0 - 1 :
          x.stsc[e].chunk <= 0 + k + 1 /\ 0 + k + 1 < NextChunk(x, e) =>
            F[k + 1] = F[k] + x.stsc[e].samples
    <3>1. ASSUME NEW e \in 1 .. N, NEW k \in 0 .. L - 1
          PROVE  p[e].chunk <= 0 + k + 1 /\ 0 + k + 1 < NextChunk(x, e) =>
                   F[k + 1] = F[k] + p[e].samples
      <4>1. 0 + k + 1 = k + 1
        BY <1>16
      <4> QED BY <1>13, <4>1
    <3>2. x.stsc = p /\ Len(x.stsc) = N /\ x.chunks - 0 - 1 = L - 1
      BY <1>7, <1>8, <1>10, <1>16
    <3> QED BY <3>1, <3>2, Zenon
  <2>3. x.stsc \in Seq(ChunkRun) /\ Len(x.stsc) >= 1 /\ x.stsc[1].chunk = 0 + 1
    BY <1>3, <1>7, <1>10, <1>15
  <2>4. F[0] = 0 /\ \A k \in 0 .. x.chunks - 0 : F[k] \in Nat
    BY <1>8, <1>12, <1>16
  <2>5. 0 \in Nat
    OBVIOUS
  <2>6. F[0] = 0
    BY <1>12
  <2> QED BY <1>16, <2>1, <2>2, <2>3, <2>4, <2>5, <2>6, Zenon DEF Chunked
<1> QED BY <1>17 DEF F

\* The track, after each of its tables.
TimesCropped   == SttsCropped(ReadTrak)
MarksCropped   == StssCropped(TimesCropped)
OffsetsCropped == CttsCropped(MarksCropped)
MapCropped     == StscCropped(OffsetsCropped)

\* The bytes of the tables of times, markers and offsets.
HeadUpTo(x) ==
  16 + 8 * Len(x.stts)
  + (IF t.stss = {} THEN 0 ELSE 16 + 4 * Cardinality(x.stss))
  + (IF x.ctts = <<>> THEN 0 ELSE 16 + 8 * Len(x.ctts))

\* These tables describe the samples that are sent.
Described(x) ==
  /\ TimesFrom(x.stts, EndSample) /\ CttsSent(x.ctts)
  /\ \A k \in 1 .. EndSample - FirstSample :
       k \in x.stss <=> samples[FirstSample + k - 1].is_smooth_ss
  /\ HeadUpTo(x) \in Nat /\ Cardinality(x.stss) \in Nat /\ Len(x.ctts) \in Nat

\* What is known of the range, and of a track that is cropped to it.
InRange(x) ==
  /\ EndSample \in FirstSample .. size /\ x.start_sample = FirstSample
  /\ mp4_length # 0 => x.end_sample = EndSample
  /\ x.stsz = t.stsz.sizes /\ x.stco = t.stco /\ x.chunks = Len(t.stco)

\* The tables before the map is cut.
LEMMA OffsetsStage ==
  ASSUME Asked
  PROVE  /\ Described(OffsetsCropped) /\ InRange(OffsetsCropped) /\ WholeChunkMap(OffsetsCropped)
         /\ OffsetsCropped.size = HeadUpTo(OffsetsCropped) /\ DOMAIN OffsetsCropped = Fields
         /\ OffsetsCropped.stsc_start = <<>> /\ OffsetsCropped.stsc_end = <<>>
<1>1. PICK r, x, y, z : r = ReadTrak /\ x = TimesCropped /\ y = MarksCropped /\ z = OffsetsCropped
  OBVIOUS
<1>2. DOMAIN r = Fields
  BY <1>1, ReadFields
<1>3. /\ r.stsc = [e \in DOMAIN t.stsc |-> [t.stsc[e] EXCEPT !.chunk = @ + 1]]
      /\ r.stsc_start = <<>> /\ r.stsc_end = <<>> /\ r.stsz = t.stsz.sizes /\ r.stco = t.stco
      /\ r.chunks = Len(t.stco) /\ r.ctts = t.ctts /\ r.stss = t.stss
  BY <1>1 DEF ReadTrak
<1>4. /\ TimesFrom(x.stts, EndSample) /\ EndSample \in FirstSample .. size
      /\ x.start_sample = FirstSample /\ (mp4_length # 0 => x.end_sample = EndSample)
      /\ x.size = 16 + 8 * Len(x.stts)
      /\ Keeps(r, x, {"stts", "start_sample", "end_sample", "size"})
  <2>1. x = SttsCropped(ReadTrak)
    BY <1>1 DEF TimesCropped
  <2> QED BY <1>1, <2>1, SttsStage
<1>5. /\ \A k \in 1 .. EndSample - FirstSample :
           k \in y.stss <=> samples[FirstSample + k - 1].is_smooth_ss
      /\ y.size = x.size + IF t.stss = {} THEN 0 ELSE 16 + 4 * Cardinality(y.stss)
      /\ Cardinality(y.stss) \in Nat
      /\ Keeps(x, y, {"stss", "size"})
  <2>1. x = SttsCropped(ReadTrak) /\ y = StssCropped(x)
    BY <1>1 DEF TimesCropped, MarksCropped
  <2> QED BY <2>1, StssStage
<1>6. Len(x.stts) \in Nat
  <2>1. x.stts \in Seq(Run)
    BY <1>4 DEF TimesFrom
  <2> QED BY <2>1
<1>7. /\ y.ctts = t.ctts /\ y.start_sample = FirstSample /\ (mp4_length # 0 => y.end_sample = EndSample)
      /\ y.stts = x.stts /\ DOMAIN y = Fields
  BY <1>3, <1>4, <1>5 DEF Keeps, Fields
<1>8. PICK a, b, c : /\ a = 16 + 8 * Len(x.stts)
                     /\ b = IF t.stss = {} THEN 0 ELSE 16 + 4 * Cardinality(y.stss)
                     /\ c = IF z.ctts = <<>> THEN 0 ELSE 16 + 8 * Len(z.ctts)
  OBVIOUS
<1>9. a \in Nat /\ b \in Nat /\ y.size = a + b /\ y.size \in Nat
  <2>1. a \in Nat
    BY <1>6, <1>8
  <2>2. b \in Nat
    BY <1>5, <1>8
  <2> QED BY <1>4, <1>5, <1>8, <2>1, <2>2
<1>10. /\ CttsSent(z.ctts) /\ Len(z.ctts) \in Nat
       /\ z.size = y.size + IF z.ctts = <<>> THEN 0 ELSE 16 + 8 * Len(z.ctts)
       /\ Keeps(y, z, {"ctts", "size"})
  <2>1. z = CttsCropped(y)
    BY <1>1 DEF OffsetsCropped
  <2> QED BY <1>4, <1>7, <1>9, <2>1, CttsStage
<1>11. c \in Nat /\ z.size = a + b + c
  <2>1. c \in Nat
    BY <1>8, <1>10
  <2> QED BY <1>8, <1>9, <1>10, <2>1
<1>12. z.stts = x.stts /\ z.stss = y.stss /\ DOMAIN z = Fields
  BY <1>7, <1>10 DEF Keeps, Fields
<1>13. HeadUpTo(z) = a + b + c
  BY <1>8, <1>12, Zenon DEF HeadUpTo
<1>14. Described(z) /\ z.size = HeadUpTo(z)
  <2>1. a + b + c \in Nat
    BY <1>9, <1>11
  <2>2. TimesFrom(z.stts, EndSample)
    BY <1>4, <1>12
  <2>3. \A k \in 1 .. EndSample - FirstSample :
           k \in z.stss <=> samples[FirstSample + k - 1].is_smooth_ss
    BY <1>5, <1>12
  <2>4. Cardinality(z.stss) \in Nat /\ Len(z.ctts) \in Nat
    BY <1>5, <1>10, <1>12
  <2> QED BY <1>10, <1>11, <1>13, <2>1, <2>2, <2>3, <2>4 DEF Described
<1>15. /\ z.stsc = r.stsc /\ z.stsc_start = <<>> /\ z.stsc_end = <<>> /\ z.stsz = t.stsz.sizes
       /\ z.stco = t.stco /\ z.chunks = Len(t.stco) /\ z.start_sample = x.start_sample
       /\ z.end_sample = x.end_sample
  BY <1>3, <1>4, <1>5, <1>10, Zenon DEF Keeps, Fields
<1>16. InRange(z) /\ WholeChunkMap(z)
  BY <1>3, <1>4, <1>15 DEF InRange, WholeChunkMap
<1> QED BY <1>1, <1>12, <1>14, <1>15, <1>16

\* The tables when it is.
LEMMA MapStage ==
  ASSUME Asked
  PROVE  /\ Described(MapCropped) /\ InRange(MapCropped) /\ DOMAIN MapCropped = Fields
         /\ MapCropped.size = HeadUpTo(MapCropped) + (16 + 12 * Len(SentMap(MapCropped)))
         /\ Len(SentMap(MapCropped)) \in Nat
         /\ Chunked(OffsetsCropped, 0, Firsts(t)) /\ OffsetsCropped.chunks = Len(t.stco)
         /\ \E sc, m : MapSent(OffsetsCropped, MapCropped, Firsts(t), FirstSample, EndSample, sc, m)
<1>1. PICK z, y : z = OffsetsCropped /\ y = MapCropped
  OBVIOUS
<1>2. /\ Described(z) /\ InRange(z) /\ WholeChunkMap(z) /\ z.size = HeadUpTo(z) /\ DOMAIN z = Fields
      /\ z.stsc_start = <<>> /\ z.stsc_end = <<>>
  BY <1>1, OffsetsStage
<1>3. IndexInv /\ pc = "done" /\ Croppable
  BY DEF Asked
<1>4. PICK F, L : F = Firsts(t) /\ L = Len(t.stco)
  OBVIOUS
<1>5. Chunked(z, 0, F) /\ F[L] = size /\ z.chunks = L
  BY <1>2, <1>3, <1>4, ChunksHaveAll, FirstsChunked DEF WholeChunkMap
<1>6. FirstSample \in 0 .. size - 1 /\ size \in Nat /\ (mp4_length = 0 => EndSample = size)
  BY RangeKnown
<1>7. PICK v, E : v = FirstSample /\ E = EndSample
  OBVIOUS
<1>8. /\ z.start_sample = v /\ v \in 0 .. size - 1 /\ E \in v .. size
      /\ (mp4_length = 0 => E = size) /\ (mp4_length # 0 => z.end_sample = E)
  BY <1>2, <1>6, <1>7 DEF InRange
<1>9. z.size \in Nat
  BY <1>2 DEF Described
<1>10. PICK sc, m : MapSent(z, StscCropped(z), F, z.start_sample, E, sc, m)
  <2>1. z.start_sample \in Nat /\ z.start_sample < F[z.chunks] /\ E \in Nat /\ z.start_sample <= E
        /\ E <= F[z.chunks]
    BY <1>5, <1>6, <1>8
  <2>2. (mp4_length = 0 => E = F[z.chunks]) /\ (mp4_length # 0 => z.end_sample = E)
    BY <1>5, <1>8
  <2> QED BY <1>2, <1>5, <1>9, <2>1, <2>2, StscSent
<1>11. MapSent(z, y, F, v, E, sc, m)
  BY <1>1, <1>8, <1>10 DEF MapCropped
<1>12. Keeps(z, y, StscFields) /\ SentMap(y) \in Seq(ChunkRun) /\ y.size = z.size + 16 + 12 * Len(SentMap(y))
  BY <1>11 DEF MapSent
<1>13. /\ y.stts = z.stts /\ y.stss = z.stss /\ y.ctts = z.ctts /\ y.stsz = z.stsz /\ y.stco = z.stco
       /\ y.chunks = z.chunks /\ y.start_sample = z.start_sample /\ y.end_sample = z.end_sample
       /\ DOMAIN y = Fields
  BY <1>12 DEF Keeps, Fields, StscFields
<1>14. HeadUpTo(y) = HeadUpTo(z)
  BY <1>13, Zenon DEF HeadUpTo
<1>15. Described(y)
  BY <1>2, <1>13, <1>14 DEF Described
<1>16. InRange(y)
  BY <1>2, <1>13 DEF InRange
<1>17. Len(SentMap(y)) \in Nat
  BY <1>12
<1>18. y.size = HeadUpTo(y) + (16 + 12 * Len(SentMap(y)))
  <2>1. PICK l, h : l = Len(SentMap(y)) /\ h = HeadUpTo(y)
    OBVIOUS
  <2>2. l \in Nat /\ h \in Nat /\ z.size = h
    BY <1>2, <1>9, <1>14, <1>17, <2>1
  <2>3. y.size = z.size + 16 + 12 * l
    BY <1>12, <2>1
  <2> QED BY <2>1, <2>2, <2>3
<1> QED BY <1>1, <1>4, <1>5, <1>7, <1>11, <1>13, <1>15, <1>16, <1>17, <1>18

\* update_stsz_atom.
StszCropped(x) ==
  LET first == x.start_sample
      end   == IF mp4_length = 0 THEN Len(x.stsz) ELSE x.end_sample
      y == [x EXCEPT
              !.stsz = SubSeq(@, first + 1, end),
              !.start_chunk_samples_size = SizeOf(x.stsz, first - x.start_chunk_samples + 1, first),
              !.end_chunk_samples_size =
                 IF mp4_length = 0 THEN 0 ELSE SizeOf(x.stsz, end - x.end_chunk_samples + 1, end)]
  IN  Sized(y, 20, 4, Len(y.stsz))

SizesCropped == StszCropped(MapCropped)

\* A table of sizes that has those of the n samples from v on adds up to their bytes.
LEMMA SizesSum ==
  ASSUME t \in Tables, NEW v \in Nat, NEW n \in Nat, v + n <= CountOf(t),
         NEW q, \A k \in 1 .. n : q[k] = SizeIn(t, v + k - 1),
         NEW a \in 0 .. n, NEW b \in a .. n
  PROVE  SizeOf(q, a + 1, b) = BytesUpTo(t)[v + b] - BytesUpTo(t)[v + a]
<1> DEFINE u == BytesUpTo(t)
           w == [d \in 1 .. b - a |-> q[a + d]]
<1>1. PICK N : N = CountOf(t)
  OBVIOUS
<1>2. /\ N \in Nat /\ \A k \in 0 .. N - 1 : SizeIn(t, k) \in Nat /\ u[k + 1] = u[k] + SizeIn(t, k)
      /\ \A k \in 0 .. N : u[k] \in Nat
  BY <1>1, BytesRise
<1>3. PICK l : l = b - a
  OBVIOUS
<1>4. l \in Nat /\ a \in Nat /\ b = a + l /\ a + l <= n
  BY <1>3
<1>5. SizeOf(q, a + 1, b) = Sum(w, l)
  <2>1. b - (a + 1) + 1 = l /\ \A d : (a + 1) - 1 + d = a + d
    BY <1>4
  <2>2. [d \in 1 .. b - (a + 1) + 1 |-> q[(a + 1) - 1 + d]] = w
    BY <1>3, <2>1
  <2> QED BY <2>1, <2>2 DEF SizeOf
<1> HIDE DEF u
<1>6. ASSUME NEW d \in 1 .. l
      PROVE  w[d] \in Nat /\ v + a + (d - 1) \in 0 .. N /\ v + a + d \in 0 .. N
             /\ u[v + a + d] = u[v + a + (d - 1)] + w[d]
  <2>1. PICK k : k = v + a + (d - 1)
    OBVIOUS
  <2>2. k \in 0 .. N - 1 /\ k + 1 = v + a + d /\ k \in 0 .. N /\ k + 1 \in 0 .. N
    BY <1>1, <1>2, <1>4, <2>1
  <2>3. w[d] = q[a + d]
    BY <1>3
  <2>4. q[a + d] = SizeIn(t, k)
    <3>1. a + d \in 1 .. n /\ v + (a + d) - 1 = k
      BY <1>4, <2>1
    <3> QED BY <3>1
  <2> QED BY <1>2, <2>1, <2>2, <2>3, <2>4
<1> DEFINE S == {d \in 0 .. l : Sum(w, d) = u[v + a + d] - u[v + a]}
<1>7. /\ Sum(w, 0) = 0 /\ \A d \in 1 .. l : Sum(w, d) = Sum(w, d - 1) + w[d]
  <2>1. \A d \in 1 .. l : w[d] \in Nat
    BY <1>6
  <2> HIDE DEF w
  <2> QED BY <1>4, <2>1, SumIs
<1>8. v + a \in 0 .. N /\ u[v + a] \in Nat /\ v + a + 0 = v + a
  <2>1. v + a \in 0 .. N
    BY <1>1, <1>2, <1>4
  <2> QED BY <1>2, <1>4, <2>1
<1> HIDE DEF w
<1>9. 0 \in S
  BY <1>4, <1>7, <1>8
<1>10. ASSUME NEW d \in 0 .. l - 1, d \in S PROVE d + 1 \in S
  <2>1. d + 1 \in 1 .. l /\ (d + 1) - 1 = d /\ d + 1 \in 0 .. l
    BY <1>4
  <2>2. PICK f, g, h : f = u[v + a + d] /\ g = u[v + a + (d + 1)] /\ h = w[d + 1]
    OBVIOUS
  <2>3. h \in Nat /\ v + a + d \in 0 .. N /\ v + a + (d + 1) \in 0 .. N /\ g = f + h
    BY <1>6, <2>1, <2>2
  <2>4. f \in Nat /\ g \in Nat
    BY <1>2, <2>2, <2>3
  <2>5. Sum(w, d) = f - u[v + a] /\ Sum(w, d + 1) = Sum(w, d) + h
    BY <1>7, <1>10, <2>1, <2>2
  <2>6. Sum(w, d + 1) = g - u[v + a]
    BY <1>8, <2>3, <2>4, <2>5
  <2> QED BY <2>1, <2>2, <2>6
<1>11. l \in S
  <2>1. 0 .. l \subseteq S
    <3> HIDE DEF S
    <3> QED BY <1>4, <1>9, <1>10, UpTo
  <2> QED BY <1>4, <2>1
<1>12. v + a + l = v + b
  BY <1>4
<1> QED BY <1>5, <1>11, <1>12 DEF u

StszFields == {"stsz", "start_chunk_samples_size", "end_chunk_samples_size", "size"}

\* The sizes that are sent are those of the samples that are sent; those that are left out of
\* the first chunk, and those that are sent of the last, are measured.
SizesSent(x, y, F, sc) ==
  /\ y.stsz \in Seq(Nat) /\ Len(y.stsz) = EndSample - FirstSample
  /\ \A k \in 1 .. EndSample - FirstSample : y.stsz[k] = SizeIn(t, FirstSample + k - 1)
  /\ y.start_chunk_samples_size = BytesUpTo(t)[FirstSample] - BytesUpTo(t)[F[sc]]
  /\ mp4_length # 0 /\ x.end_chunk_samples \in 0 .. EndSample =>
       y.end_chunk_samples_size
         = BytesUpTo(t)[EndSample] - BytesUpTo(t)[EndSample - x.end_chunk_samples]
  /\ y.size = x.size + (20 + 4 * Len(y.stsz))
  /\ Keeps(x, y, StszFields)

\* update_stsz leaves the sizes of the range, and adds up those of its broken chunks.
LEMMA StszStage ==
  ASSUME Asked, NEW x, x = MapCropped, NEW F, NEW sc, F[sc] \in 0 .. FirstSample,
         x.start_chunk_samples = FirstSample - F[sc]
  PROVE  SizesSent(x, SizesCropped, F, sc)
<1>1. PICK y, v, E, d, l : y = SizesCropped /\ v = FirstSample /\ E = EndSample
                           /\ d = x.end_chunk_samples /\ l = F[sc]
  OBVIOUS
<1>2. InRange(x) /\ DOMAIN x = Fields /\ Described(x)
      /\ x.size = HeadUpTo(x) + (16 + 12 * Len(SentMap(x))) /\ Len(SentMap(x)) \in Nat
  BY MapStage
<1>3. /\ t \in Tables /\ size = CountOf(t) /\ size \in Nat
      /\ \A n \in 0 .. size - 1 : samples[n].size = SizeIn(t, n)
  BY SamplesKnown DEF Asked
<1>4. v \in 0 .. size - 1 /\ (mp4_length = 0 => E = size)
  BY <1>1, RangeKnown
<1>5. PICK q : q = t.stsz.sizes
  OBVIOUS
<1>6. /\ q \in Seq(Nat) /\ Len(q) = size /\ \A n \in 1 .. size : q[n] = SizeIn(t, n - 1)
  <2>1. t.stsz.sample_size = 0
    BY DEF Asked, Croppable
  <2>2. q \in Seq(Nat)
    BY <1>3, <1>5, TablesAssumption DEF Typed
  <2>3. Len(q) = size
    BY <1>3, <1>5, <2>1 DEF CountOf
  <2>4. ASSUME NEW n \in 1 .. size PROVE q[n] = SizeIn(t, n - 1)
    <3>1. n - 1 + 1 = n
      OBVIOUS
    <3> QED BY <1>5, <2>1, <3>1 DEF SizeIn
  <2> QED BY <2>2, <2>3, <2>4
<1>7. /\ x.stsz = q /\ E \in v .. size /\ x.start_sample = v /\ (mp4_length # 0 => x.end_sample = E)
  BY <1>1, <1>2, <1>5 DEF InRange
<1>8. x.start_chunk_samples = v - l /\ l \in 0 .. v
  BY <1>1
<1>9. ASSUME NEW a \in 0 .. size, NEW b \in a .. size
      PROVE  SizeOf(q, a + 1, b) = BytesUpTo(t)[b] - BytesUpTo(t)[a]
  <2>1. PICK z, n : z = 0 /\ n = size
    OBVIOUS
  <2>2. /\ z \in Nat /\ n \in Nat /\ z + n <= CountOf(t) /\ z + b = b /\ z + a = a
        /\ a \in 0 .. n /\ b \in a .. n /\ \A k \in 1 .. n : z + k - 1 = k - 1
    BY <1>3, <2>1
  <2>3. \A k \in 1 .. n : q[k] = SizeIn(t, z + k - 1)
    <3>1. ASSUME NEW k \in 1 .. n PROVE q[k] = SizeIn(t, z + k - 1)
      <4>1. z + k - 1 = k - 1 /\ k \in 1 .. size
        BY <2>1, <2>2
      <4> QED BY <1>6, <4>1
    <3> QED BY <3>1
  <2>4. SizeOf(q, a + 1, b) = BytesUpTo(t)[z + b] - BytesUpTo(t)[z + a]
    BY <1>3, <2>2, <2>3, SizesSum
  <2> QED BY <2>2, <2>4
<1>10. PICK end : end = IF mp4_length = 0 THEN Len(q) ELSE x.end_sample
  OBVIOUS
<1>11. end = E
  BY <1>4, <1>6, <1>7, <1>10
<1>12. PICK p, g, h : /\ p = SubSeq(q, v + 1, E) /\ g = SizeOf(q, v - x.start_chunk_samples + 1, v)
                      /\ h = IF mp4_length = 0 THEN 0 ELSE SizeOf(q, E - d + 1, E)
  OBVIOUS
<1>13. /\ p \in Seq(Nat) /\ Len(p) = E - v /\ \A k \in 1 .. E - v : p[k] = SizeIn(t, v + k - 1)
  <2>1. E - v \in Nat /\ v + 1 \in 1 .. Len(q) + 1 /\ E \in v .. Len(q)
    BY <1>4, <1>6, <1>7
  <2>2. p \in Seq(Nat) /\ Len(p) = E - v
    BY <1>4, <1>6, <1>12, <2>1, SMTT(20)
  <2>3. ASSUME NEW k \in 1 .. E - v PROVE p[k] = SizeIn(t, v + k - 1)
    <3>1. p[k] = q[v + k]
      BY <1>4, <1>6, <1>12, <2>1
    <3>2. v + k \in 1 .. size /\ v + k - 1 = (v + k) - 1
      BY <1>3, <1>4, <1>7
    <3> QED BY <1>6, <3>1, <3>2
  <2> QED BY <2>2, <2>3
<1>14. g = BytesUpTo(t)[v] - BytesUpTo(t)[l]
  <2>1. v - x.start_chunk_samples + 1 = l + 1 /\ l \in 0 .. size /\ v \in l .. size
    BY <1>3, <1>4, <1>8
  <2> QED BY <1>9, <1>12, <2>1
<1>15. mp4_length # 0 /\ d \in 0 .. E => h = BytesUpTo(t)[E] - BytesUpTo(t)[E - d]
  <2> SUFFICES ASSUME mp4_length # 0, d \in 0 .. E PROVE h = BytesUpTo(t)[E] - BytesUpTo(t)[E - d]
    OBVIOUS
  <2>1. E - d \in 0 .. size /\ E \in E - d .. size
    BY <1>3, <1>4, <1>7
  <2> QED BY <1>9, <1>12, <2>1
<1>16. PICK k : k = x.size + 20 + 4 * Len(p)
  OBVIOUS
<1>17. y = [x EXCEPT !.stsz = p, !.start_chunk_samples_size = g, !.end_chunk_samples_size = h, !.size = k]
  <2>1. PICK z : z = [x EXCEPT !.stsz = p, !.start_chunk_samples_size = g, !.end_chunk_samples_size = h]
    OBVIOUS
  <2>2. z.stsz = p /\ z.size = x.size
    BY <1>2, <2>1 DEF Fields
  <2>3. y = Sized(z, 20, 4, Len(z.stsz))
    <3>1. y = StszCropped(x)
      BY <1>1 DEF SizesCropped
    <3>2. z = [x EXCEPT !.stsz = SubSeq(@, v + 1, end), !.start_chunk_samples_size = g,
                        !.end_chunk_samples_size = h]
      BY <1>7, <1>11, <1>12, <2>1
    <3>3. h = IF mp4_length = 0 THEN 0 ELSE SizeOf(q, end - x.end_chunk_samples + 1, end)
      BY <1>1, <1>11, <1>12
    <3> QED BY <1>7, <1>10, <1>12, <3>1, <3>2, <3>3, Zenon DEF StszCropped
  <2>4. y = [z EXCEPT !.size = k]
    BY <1>16, <2>2, <2>3 DEF Sized
  <2> QED BY <2>1, <2>4
<1>18. /\ y.stsz = p /\ y.start_chunk_samples_size = g /\ y.end_chunk_samples_size = h /\ y.size = k
       /\ Keeps(x, y, StszFields)
  BY <1>2, <1>17 DEF Keeps, Fields, StszFields
<1>19. y.size = x.size + (20 + 4 * Len(p))
  <2>1. x.size \in Nat
    BY <1>2 DEF Described
  <2>2. Len(p) \in Nat
    BY <1>13
  <2> QED BY <1>16, <1>18, <2>1, <2>2
<1> QED BY <1>1, <1>13, <1>14, <1>15, <1>18, <1>19 DEF SizesSent

\* update_stco_atom.
StcoCropped(x) ==
  LET end  == IF mp4_length = 0 THEN x.chunks ELSE x.end_chunk
      stco == SubSeq([x.stco EXCEPT ![x.start_chunk + 1] = FirstPlace(x)], x.start_chunk + 1, end)
      y == [x EXCEPT
              !.stco = stco,
              !.start_offset = IF stco = <<>> THEN FileEnd ELSE FirstPlace(x),
              !.end_offset = IF stco = <<>> THEN 0
                             ELSE IF mp4_length = 0 THEN MdatEnd
                             ELSE stco[Len(stco)] + x.end_chunk_samples_size]
  IN  Sized(y, 16, 4, Len(stco))

StcoFields == {"stco", "start_offset", "end_offset", "size"}

\* The places of the m chunks from sc on, the first without the samples that are left out.
PlacesSent(x, y, sc, m) ==
  /\ y.stco \in Seq(Nat) /\ Len(y.stco) = m
  /\ \A c \in 1 .. m : y.stco[c] = t.stco[sc + c] + IF c = 1 THEN x.start_chunk_samples_size ELSE 0
  /\ y.start_offset = IF m = 0 THEN FileEnd ELSE y.stco[1]
  /\ y.end_offset = IF m = 0 THEN 0 ELSE IF mp4_length = 0 THEN MdatEnd
                    ELSE y.stco[m] + x.end_chunk_samples_size
  /\ y.size = x.size + (16 + 4 * m)
  /\ Keeps(x, y, StcoFields)

\* update_stco leaves the places of the chunks of the range.
LEMMA StcoStage ==
  ASSUME t \in Tables, NEW x, DOMAIN x = Fields, x.stco = t.stco, x.chunks = Len(t.stco),
         NEW sc \in 0 .. Len(t.stco) - 1, NEW m \in Nat, sc + m <= Len(t.stco), x.start_chunk = sc,
         mp4_length = 0 => sc + m = Len(t.stco), mp4_length # 0 => x.end_chunk = sc + m,
         x.start_chunk_samples_size \in Nat, x.size \in Nat
  PROVE  PlacesSent(x, StcoCropped(x), sc, m)
<1>1. PICK y, L, f, g : /\ y = StcoCropped(x) /\ L = Len(t.stco) /\ f = FirstPlace(x)
                        /\ g = x.start_chunk_samples_size
  OBVIOUS
<1>2. t.stco \in Seq(Nat) /\ L \in Nat \ {0} /\ sc \in Nat /\ sc + 1 \in 1 .. L
  <2>1. t.stco \in Seq(Nat)
    BY TablesAssumption DEF Typed
  <2>2. L \in Nat \ {0}
    BY <1>1, ChunksRise
  <2> QED BY <1>1, <2>1, <2>2
<1>3. PICK q : q = t.stco
  OBVIOUS
<1>4. q \in Seq(Nat) /\ Len(q) = L /\ DOMAIN q = 1 .. L /\ \A c \in 1 .. L : q[c] \in Nat
  BY <1>1, <1>2, <1>3
<1>5. f = q[sc + 1] + g /\ f \in Nat
  <2>1. f = q[sc + 1] + g
    BY <1>1, <1>3 DEF FirstPlace
  <2>2. q[sc + 1] \in Nat
    BY <1>2, <1>4
  <2> QED BY <1>1, <2>1, <2>2
<1>6. PICK p : p = [q EXCEPT ![sc + 1] = f]
  OBVIOUS
<1>7. p \in Seq(Nat) /\ Len(p) = L /\ \A c \in 1 .. L : p[c] = IF c = sc + 1 THEN f ELSE q[c]
  <2>1. DOMAIN p = 1 .. L /\ \A c \in 1 .. L : p[c] = IF c = sc + 1 THEN f ELSE q[c]
    BY <1>4, <1>6
  <2>2. p \in [1 .. L -> Nat]
    BY <1>4, <1>5, <1>6
  <2> QED BY <1>2, <2>1, <2>2, FunctionSeq
<1>8. PICK r : r = SubSeq(p, sc + 1, sc + m)
  OBVIOUS
<1>9. r \in Seq(Nat) /\ Len(r) = m /\ \A c \in 1 .. m : r[c] = p[sc + c]
  <2>1. sc + m <= Len(p)
    BY <1>1, <1>7
  <2>2. sc \in Nat /\ m \in Nat
    BY <1>2
  <2>3. PICK a, n : a = sc /\ n = m
    OBVIOUS
  <2>4. /\ SubSeq(p, a + 1, a + n) \in Seq(Nat) /\ Len(SubSeq(p, a + 1, a + n)) = n
        /\ \A c \in 1 .. n : SubSeq(p, a + 1, a + n)[c] = p[a + c]
    BY <1>7, <2>1, <2>2, <2>3, PartOf
  <2> QED BY <1>8, <2>3, <2>4
<1>10. ASSUME NEW c \in 1 .. m PROVE r[c] = q[sc + c] + IF c = 1 THEN g ELSE 0
  <2>1. sc + c \in 1 .. L /\ (sc + c = sc + 1 <=> c = 1)
    BY <1>1, <1>2
  <2>2. r[c] = IF c = 1 THEN f ELSE q[sc + c]
    BY <1>7, <1>9, <2>1
  <2>3. q[sc + c] \in Nat
    BY <1>4, <2>1
  <2> QED BY <1>5, <2>2, <2>3
<1>11. r = <<>> <=> m = 0
  <2>1. r = <<>> => Len(r) = 0
    OBVIOUS
  <2>2. Len(r) = 0 => r = <<>>
    BY <1>9
  <2> QED BY <1>9, <2>1, <2>2
<1>12. PICK h, a, b, k :
         /\ h = IF mp4_length = 0 THEN x.chunks ELSE x.end_chunk
         /\ a = IF r = <<>> THEN FileEnd ELSE f
         /\ b = IF r = <<>> THEN 0 ELSE IF mp4_length = 0 THEN MdatEnd
                ELSE r[Len(r)] + x.end_chunk_samples_size
         /\ k = x.size + 16 + 4 * Len(r)
  OBVIOUS
<1>13. h = sc + m
  BY <1>12
<1>14. y = [x EXCEPT !.stco = r, !.start_offset = a, !.end_offset = b, !.size = k]
  <2>1. PICK z : z = [x EXCEPT !.stco = r, !.start_offset = a, !.end_offset = b]
    OBVIOUS
  <2>2. z.size = x.size
    BY <2>1 DEF Fields
  <2>3. r = SubSeq([x.stco EXCEPT ![x.start_chunk + 1] = FirstPlace(x)], x.start_chunk + 1, h)
    BY <1>1, <1>3, <1>6, <1>8, <1>13
  <2>4. y = Sized(z, 16, 4, Len(r))
    BY <1>1, <1>12, <2>1, <2>3, Zenon DEF StcoCropped
  <2>5. y = [z EXCEPT !.size = k]
    BY <1>12, <2>2, <2>4 DEF Sized
  <2> QED BY <2>1, <2>5
<1>15. y.stco = r /\ y.start_offset = a /\ y.end_offset = b /\ y.size = k /\ Keeps(x, y, StcoFields)
  BY <1>14 DEF Keeps, Fields, StcoFields
<1>16. a = IF m = 0 THEN FileEnd ELSE r[1]
  <2>1. m # 0 => r[1] = f
    <3>1. m # 0 => 1 \in 1 .. m /\ sc + 1 \in 1 .. L
      BY <1>2
    <3> QED BY <1>7, <1>9, <3>1
  <2> QED BY <1>11, <1>12, <2>1
<1>17. b = IF m = 0 THEN 0 ELSE IF mp4_length = 0 THEN MdatEnd ELSE r[m] + x.end_chunk_samples_size
  BY <1>9, <1>11, <1>12
<1>18. k = x.size + (16 + 4 * m)
  BY <1>9, <1>12
<1> QED BY <1>1, <1>3, <1>9, <1>10, <1>15, <1>16, <1>17, <1>18 DEF PlacesSent

PlacesCropped == StcoCropped(SizesCropped)

\* How many of the samples that are sent are in the first c of the chunks that are.
SentIn(sc, c) == WantedIn(Firsts(t), sc, FirstSample, EndSample, c)

\* The tables of y are those of the samples that are sent, which are in m chunks from sc on; all
\* but their places are those that are sent.
TablesSent(y, sc, m) ==
  /\ sc \in 0 .. Len(t.stco) - 1 /\ m \in Nat /\ sc + m <= Len(t.stco)
  /\ Firsts(t)[sc] <= FirstSample /\ FirstSample < Firsts(t)[sc + 1]
  /\ Described(y) /\ DOMAIN y = Fields
  /\ SentMap(y) \in Seq(ChunkRun)
  /\ \A c \in 1 .. m : InMap(SentMap(y), c, SentIn(sc, c) - SentIn(sc, c - 1))
  /\ SentIn(sc, m) = EndSample - FirstSample
  /\ y.stsz \in Seq(Nat) /\ Len(y.stsz) = EndSample - FirstSample
  /\ \A k \in 1 .. EndSample - FirstSample : y.stsz[k] = SizeIn(t, FirstSample + k - 1)
  /\ y.size = HeadUpTo(y) + (16 + 12 * Len(SentMap(y))) + (20 + 4 * Len(y.stsz)) + (16 + 4 * m)

\* Their places in the file, and the range of its bytes.
PlacesKept(y, sc, m) ==
  /\ y.stco \in Seq(Nat) /\ Len(y.stco) = m
  /\ \A c \in 1 .. m :
       y.stco[c] = t.stco[sc + c]
                     + IF c = 1 THEN BytesUpTo(t)[FirstSample] - BytesUpTo(t)[Firsts(t)[sc]] ELSE 0
  /\ y.start_offset = IF m = 0 THEN FileEnd ELSE y.stco[1]
  /\ m # 0 /\ mp4_length = 0 => y.end_offset = MdatEnd
  /\ m # 0 /\ mp4_length # 0 /\ ~ (y.stsc_start # <<>> /\ y.end_chunk = y.start_chunk + 1) =>
       y.end_offset = y.stco[m] + (BytesUpTo(t)[EndSample]
                                     - BytesUpTo(t)[EndSample - (SentIn(sc, m) - SentIn(sc, m - 1))])

\* All tables together, as they are before they are moved.
LEMMA PlacesStage ==
  ASSUME Asked
  PROVE  \E sc, m : TablesSent(PlacesCropped, sc, m) /\ PlacesKept(PlacesCropped, sc, m)
<1>1. PICK w, x, y, z : w = OffsetsCropped /\ x = MapCropped /\ y = SizesCropped /\ z = PlacesCropped
  OBVIOUS
<1>2. PICK F, u, v, E, L : F = Firsts(t) /\ u = BytesUpTo(t) /\ v = FirstSample /\ E = EndSample
                           /\ L = Len(t.stco)
  OBVIOUS
<1>3. PICK sc, m : MapSent(w, x, F, v, E, sc, m)
  BY <1>1, <1>2, MapStage
<1>4. /\ Described(x) /\ InRange(x) /\ DOMAIN x = Fields
      /\ x.size = HeadUpTo(x) + (16 + 12 * Len(SentMap(x))) /\ Len(SentMap(x)) \in Nat
      /\ Chunked(w, 0, F) /\ w.chunks = L
  BY <1>1, <1>2, MapStage
<1>5. /\ sc \in 0 .. L - 1 /\ m \in Nat /\ sc + m <= L /\ x.start_chunk = sc
      /\ F[sc] <= v /\ v < F[sc + 1] /\ x.start_chunk_samples = v - F[sc]
      /\ SentMap(x) \in Seq(ChunkRun)
      /\ \A c \in 1 .. m : InMap(SentMap(x), c, SentIn(sc, c) - SentIn(sc, c - 1))
      /\ SentIn(sc, m) = E - v
      /\ mp4_length = 0 => sc + m = L
      /\ mp4_length # 0 =>
           /\ x.end_chunk = sc + m
           /\ \/ m = 0 \/ (x.stsc_start # <<>> /\ m = 1)
              \/ x.end_chunk_samples = SentIn(sc, m) - SentIn(sc, m - 1)
  BY <1>2, <1>3, <1>4 DEF MapSent, SentIn
<1>6. /\ t \in Tables /\ size = CountOf(t) /\ size \in Nat
  BY SamplesKnown DEF Asked
<1>7. v \in 0 .. size - 1 /\ E \in v .. size /\ v \in Nat /\ E \in Nat /\ v <= E
  <2>1. v \in 0 .. size - 1
    BY <1>2, RangeKnown
  <2>2. E \in v .. size
    BY <1>2, <1>4 DEF InRange
  <2> QED BY <1>6, <2>1, <2>2
<1>8. L \in Nat \ {0} /\ sc \in Nat /\ sc \in 0 .. L
  <2>1. L \in Nat \ {0}
    BY <1>2, <1>6, ChunksRise
  <2> QED BY <1>5, <2>1
<1>9. F[sc] \in 0 .. v
  <2>1. F[sc] \in Nat
    BY <1>2, <1>6, <1>8, FirstsRise
  <2> QED BY <1>5, <1>7, <2>1
<1>10. u[v] \in Nat /\ u[F[sc]] \in Nat /\ u[v] - u[F[sc]] \in Nat
  <2>1. v \in 0 .. size /\ F[sc] \in 0 .. size /\ F[sc] <= v
    BY <1>6, <1>7, <1>9
  <2>2. u[v] \in Nat /\ u[F[sc]] \in Nat /\ u[F[sc]] <= u[v]
    BY <1>2, <1>6, <2>1, BytesRise
  <2> QED BY <2>2
<1>11. SizesSent(x, y, F, sc)
  BY <1>1, <1>2, <1>5, <1>9, StszStage
<1>12. /\ y.stsz \in Seq(Nat) /\ Len(y.stsz) = E - v
       /\ \A k \in 1 .. E - v : y.stsz[k] = SizeIn(t, v + k - 1)
       /\ y.start_chunk_samples_size = u[v] - u[F[sc]]
       /\ mp4_length # 0 /\ x.end_chunk_samples \in 0 .. E =>
            y.end_chunk_samples_size = u[E] - u[E - x.end_chunk_samples]
       /\ y.size = x.size + (20 + 4 * Len(y.stsz))
       /\ Keeps(x, y, StszFields)
  BY <1>2, <1>11 DEF SizesSent
<1>13. y.stco = t.stco /\ y.chunks = L /\ y.start_chunk = sc /\ DOMAIN y = Fields
       /\ y.end_chunk = x.end_chunk
  <2>1. x.stco = t.stco /\ x.chunks = L
    BY <1>2, <1>4 DEF InRange
  <2> QED BY <1>5, <1>12, <2>1 DEF Keeps, Fields, StszFields
<1>14. PICK a, b, c : a = HeadUpTo(x) /\ b = Len(SentMap(x)) /\ c = Len(y.stsz)
  OBVIOUS
<1>15. a \in Nat /\ b \in Nat /\ c \in Nat /\ x.size = a + (16 + 12 * b) /\ y.size = x.size + (20 + 4 * c)
  <2>1. a \in Nat
    BY <1>4, <1>14 DEF Described
  <2>2. c \in Nat
    BY <1>12, <1>14
  <2> QED BY <1>4, <1>12, <1>14, <2>1, <2>2
<1>16. y.size \in Nat /\ y.size = a + (16 + 12 * b) + (20 + 4 * c)
  BY <1>15
<1>17. PlacesSent(y, z, sc, m)
  <2>1. /\ y.stco = t.stco /\ y.chunks = Len(t.stco) /\ sc \in 0 .. Len(t.stco) - 1
        /\ sc + m <= Len(t.stco) /\ (mp4_length = 0 => sc + m = Len(t.stco))
    BY <1>2, <1>5, <1>13
  <2>2. y.start_chunk = sc /\ (mp4_length # 0 => y.end_chunk = sc + m)
    BY <1>5, <1>13
  <2>3. y.start_chunk_samples_size \in Nat /\ y.size \in Nat /\ m \in Nat
    BY <1>5, <1>10, <1>12, <1>16
  <2>4. z = StcoCropped(y)
    BY <1>1 DEF PlacesCropped
  <2> QED BY <1>6, <1>13, <2>1, <2>2, <2>3, <2>4, StcoStage
<1>18. /\ z.stco \in Seq(Nat) /\ Len(z.stco) = m
       /\ \A k \in 1 .. m : z.stco[k] = t.stco[sc + k] + IF k = 1 THEN u[v] - u[F[sc]] ELSE 0
       /\ z.start_offset = (IF m = 0 THEN FileEnd ELSE z.stco[1])
       /\ z.end_offset = (IF m = 0 THEN 0 ELSE IF mp4_length = 0 THEN MdatEnd
                          ELSE z.stco[m] + y.end_chunk_samples_size)
       /\ z.size = y.size + (16 + 4 * m)
       /\ Keeps(y, z, StcoFields)
  BY <1>12, <1>17 DEF PlacesSent
<1>19. /\ z.stts = x.stts /\ z.stss = x.stss /\ z.ctts = x.ctts /\ z.stsc_start = x.stsc_start
       /\ z.stsc = x.stsc /\ z.stsc_end = x.stsc_end /\ z.stsz = y.stsz
       /\ z.start_chunk = sc /\ z.end_chunk = x.end_chunk /\ DOMAIN z = Fields
  BY <1>12, <1>13, <1>18 DEF Keeps, Fields, StszFields, StcoFields
<1>20. HeadUpTo(z) = a /\ SentMap(z) = SentMap(x) /\ Described(z)
  <2>1. HeadUpTo(z) = HeadUpTo(x)
    BY <1>19, Zenon DEF HeadUpTo
  <2>2. SentMap(z) = SentMap(x)
    BY <1>19 DEF SentMap
  <2>3. Described(z)
    BY <1>4, <1>19, <2>1 DEF Described
  <2> QED BY <1>14, <2>1, <2>2, <2>3
<1>21. z.size = HeadUpTo(z) + (16 + 12 * Len(SentMap(z))) + (20 + 4 * Len(z.stsz)) + (16 + 4 * m)
  <2>1. z.size = a + (16 + 12 * b) + (20 + 4 * c) + (16 + 4 * m)
    BY <1>16, <1>18
  <2> QED BY <1>14, <1>19, <1>20, <2>1
<1>22. TablesSent(z, sc, m)
  BY <1>2, <1>5, <1>12, <1>19, <1>20, <1>21 DEF TablesSent
<1>23. ASSUME m # 0, mp4_length # 0, ~ (z.stsc_start # <<>> /\ z.end_chunk = z.start_chunk + 1)
       PROVE  z.end_offset = z.stco[m] + (u[E] - u[E - (SentIn(sc, m) - SentIn(sc, m - 1))])
  <2>1. x.end_chunk_samples = SentIn(sc, m) - SentIn(sc, m - 1)
    <3>1. z.end_chunk = sc + m /\ z.start_chunk = sc
      BY <1>5, <1>19, <1>23
    <3>2. ~ (x.stsc_start # <<>> /\ m = 1)
      BY <1>19, <1>23, <3>1
    <3> QED BY <1>5, <1>23, <3>2
  <2>2. SentIn(sc, m - 1) \in Nat /\ SentIn(sc, m - 1) <= E - v
    <3>1. m - 1 \in 0 .. w.chunks - sc /\ sc \in 0 .. w.chunks - 1
      BY <1>4, <1>5, <1>8, <1>23
    <3>2. WantedIn(F, sc, v, E, m - 1) \in Nat /\ WantedIn(F, sc, v, E, m - 1) <= E - v
      BY <1>4, <1>5, <1>7, <3>1, WantedCounts
    <3> QED BY <1>2, <3>2 DEF SentIn
  <2>3. PICK a1, b1 : a1 = SentIn(sc, m) /\ b1 = SentIn(sc, m - 1)
    OBVIOUS
  <2>4. a1 - b1 \in 0 .. E
    BY <1>5, <1>7, <2>2, <2>3
  <2>5. y.end_chunk_samples_size = u[E] - u[E - (a1 - b1)]
    BY <1>12, <1>23, <2>1, <2>3, <2>4
  <2> QED BY <1>18, <1>23, <2>3, <2>5
<1>24. PlacesKept(z, sc, m)
  <2>1. /\ z.stco \in Seq(Nat) /\ Len(z.stco) = m
        /\ \A k \in 1 .. m : z.stco[k] = t.stco[sc + k] + IF k = 1 THEN u[v] - u[F[sc]] ELSE 0
        /\ z.start_offset = (IF m = 0 THEN FileEnd ELSE z.stco[1])
        /\ m # 0 /\ mp4_length = 0 => z.end_offset = MdatEnd
    BY <1>18
  <2> QED BY <1>2, <1>23, <2>1 DEF PlacesKept
<1> QED BY <1>1, <1>22, <1>24

\* The samples of a chunk that are sent are in that chunk, and its place is that of the first.
LEMMA ChunkSent ==
  ASSUME Asked, NEW y, NEW sc, NEW m, TablesSent(y, sc, m), PlacesKept(y, sc, m), NEW c \in 1 .. m
  PROVE  /\ SentIn(sc, c - 1) \in Nat /\ SentIn(sc, c) \in Nat /\ SentIn(sc, c - 1) <= SentIn(sc, c)
         /\ SentIn(sc, c) <= EndSample - FirstSample
         /\ SentIn(sc, c - 1) < SentIn(sc, c) =>
              /\ Firsts(t)[sc + c - 1] <= FirstSample + SentIn(sc, c - 1)
              /\ FirstSample + SentIn(sc, c) <= Firsts(t)[sc + c]
              /\ y.stco[c] = t.stco[sc + c] + (BytesUpTo(t)[FirstSample + SentIn(sc, c - 1)]
                                                 - BytesUpTo(t)[Firsts(t)[sc + c - 1]])
<1>1. PICK F, u, v, E, L : F = Firsts(t) /\ u = BytesUpTo(t) /\ v = FirstSample /\ E = EndSample
                           /\ L = Len(t.stco)
  OBVIOUS
<1>2. /\ sc \in 0 .. L - 1 /\ m \in Nat /\ sc + m <= L /\ F[sc] <= v /\ v < F[sc + 1] /\ Described(y)
  BY <1>1 DEF TablesSent
<1>3. t \in Tables /\ size = CountOf(t) /\ size \in Nat
  BY SamplesKnown DEF Asked
<1>4. v \in 0 .. size - 1 /\ E \in v .. size /\ v \in Nat /\ E \in Nat /\ v <= E
  <2>1. v \in 0 .. size - 1
    BY <1>1, RangeKnown
  <2>2. E \in v .. size
    BY <1>1, MapStage DEF InRange
  <2> QED BY <1>3, <2>1, <2>2
<1>5. L \in Nat /\ sc \in Nat /\ sc + c \in 0 .. L /\ sc + (c - 1) \in 0 .. L /\ sc + 1 \in 0 .. L
      /\ c - 1 \in Nat /\ sc + 1 <= sc + c /\ sc + (c - 1) <= sc + c
      /\ (c # 1 => sc + 1 <= sc + (c - 1)) /\ sc + c - 1 = sc + (c - 1)
  <2>1. L \in Nat
    BY <1>1, <1>3, ChunksRise
  <2> QED BY <1>2, <2>1
<1>6. PICK f, g, h : f = F[sc + c] /\ g = F[sc + (c - 1)] /\ h = F[sc + 1]
  OBVIOUS
<1>7. f \in Nat /\ g \in Nat /\ h \in Nat /\ h <= f /\ g <= f /\ (c # 1 => h <= g) /\ v < h
  <2>1. f \in Nat /\ g \in Nat /\ h \in Nat
    BY <1>1, <1>3, <1>5, <1>6, FirstsRise
  <2>2. h <= f /\ g <= f
    BY <1>1, <1>3, <1>5, <1>6, FirstsRise
  <2>3. c # 1 => h <= g
    BY <1>1, <1>3, <1>5, <1>6, FirstsRise
  <2> QED BY <1>2, <1>6, <2>1, <2>2, <2>3
<1>8. PICK a, b : a = SentIn(sc, c - 1) /\ b = SentIn(sc, c)
  OBVIOUS
<1>9. b = (IF f <= E THEN f ELSE E) - v
  <2>1. c # 0
    BY <1>5
  <2> QED BY <1>1, <1>6, <1>8, <2>1 DEF SentIn, WantedIn
<1>10. a = IF c - 1 = 0 THEN 0 ELSE (IF g <= E THEN g ELSE E) - v
  BY <1>1, <1>6, <1>8 DEF SentIn, WantedIn
<1>11. c - 1 = 0 <=> c = 1
  BY <1>5
<1>12. a \in Nat /\ b \in Nat /\ a <= b /\ b <= E - v
  <2>1. b \in Nat /\ b <= E - v
    BY <1>4, <1>7, <1>9
  <2>2. CASE c = 1
    <3>1. a = 0
      BY <1>10, <1>11, <2>2
    <3> QED BY <2>1, <3>1
  <2>3. CASE c # 1
    <3>1. a = (IF g <= E THEN g ELSE E) - v
      BY <1>10, <1>11, <2>3
    <3>2. h <= g
      BY <1>7, <2>3
    <3> QED BY <1>4, <1>7, <1>9, <2>1, <3>1, <3>2
  <2> QED BY <2>2, <2>3
<1>13. ASSUME a < b
       PROVE  g <= v + a /\ v + b <= f /\ y.stco[c] = t.stco[sc + c] + (u[v + a] - u[g])
  <2>1. v + b <= f
    BY <1>4, <1>7, <1>9
  <2>2. y.stco[c] = t.stco[sc + c] + IF c = 1 THEN u[v] - u[F[sc]] ELSE 0
    BY <1>1 DEF PlacesKept
  <2>3. CASE c = 1
    <3>1. a = 0 /\ g = F[sc] /\ v + a = v
      BY <1>4, <1>5, <1>6, <1>10, <2>3
    <3>2. g <= v
      BY <1>2, <3>1
    <3> QED BY <2>1, <2>2, <2>3, <3>1, <3>2
  <2>4. CASE c # 1
    <3>1. a = (IF g <= E THEN g ELSE E) - v
      BY <1>10, <1>11, <2>4
    <3>2. g <= E /\ v + a = g
      BY <1>4, <1>7, <1>9, <1>13, <3>1
    <3>3. u[g] \in Nat
      <4>1. g \in 0 .. CountOf(t)
        BY <1>3, <1>4, <1>7, <3>2
      <4> QED BY <1>1, <1>3, <4>1, BytesRise
    <3>4. t.stco[sc + c] \in Nat
      <4>1. sc + c \in 1 .. L
        BY <1>2, <1>5
      <4> QED BY <1>1, <1>3, <4>1, ChunksRise
    <3>5. y.stco[c] = t.stco[sc + c] + (u[v + a] - u[g])
      BY <2>2, <2>4, <3>2, <3>3, <3>4
    <3> QED BY <1>7, <2>1, <3>2, <3>5
  <2> QED BY <2>3, <2>4
<1> QED BY <1>1, <1>5, <1>6, <1>8, <1>12, <1>13

\* The places are moved by d.
Moved(x, d) == [x EXCEPT !.stco = [c \in DOMAIN @ |-> @[c] + d]]

\* The places of the samples that are sent are those they have in the file, moved.
LEMMA SentPlacesAre ==
  ASSUME Asked, NEW y, NEW sc, NEW m, TablesSent(y, sc, m), PlacesKept(y, sc, m),
         adjustment \in Int, mp4_trak = Moved(y, adjustment)
  PROVE  /\ SentPlaces \in Seq(Int) /\ Len(SentPlaces) = EndSample - FirstSample
         /\ \A k \in 1 .. EndSample - FirstSample :
              SentPlaces[k] = samples[FirstSample + k - 1].pos + adjustment
<1>1. PICK F, u, v, E, L, d : F = Firsts(t) /\ u = BytesUpTo(t) /\ v = FirstSample /\ E = EndSample
                              /\ L = Len(t.stco) /\ d = adjustment
  OBVIOUS
<1>2. PICK l : l = E - v
  OBVIOUS
<1>3. /\ sc \in 0 .. L - 1 /\ m \in Nat /\ sc + m <= L /\ DOMAIN y = Fields /\ SentMap(y) \in Seq(ChunkRun)
      /\ \A c \in 1 .. m : InMap(SentMap(y), c, SentIn(sc, c) - SentIn(sc, c - 1))
      /\ SentIn(sc, m) = l /\ y.stsz \in Seq(Nat) /\ Len(y.stsz) = l
      /\ \A k \in 1 .. l : y.stsz[k] = SizeIn(t, v + k - 1)
  BY <1>1, <1>2 DEF TablesSent
<1>4. y.stco \in Seq(Nat) /\ Len(y.stco) = m /\ DOMAIN y.stco = 1 .. m
      /\ \A c \in 1 .. m : y.stco[c] \in Nat
  <2>1. y.stco \in Seq(Nat) /\ Len(y.stco) = m
    BY DEF PlacesKept
  <2> QED BY <2>1
<1>5. t \in Tables /\ size = CountOf(t) /\ size \in Nat
  BY SamplesKnown DEF Asked
<1>6. v \in 0 .. size - 1 /\ E \in v .. size /\ v \in Nat /\ E \in Nat /\ l \in Nat /\ v + l <= CountOf(t)
      /\ v + l = E
  <2>1. v \in 0 .. size - 1
    BY <1>1, RangeKnown
  <2>2. E \in v .. size
    BY <1>1, MapStage DEF InRange
  <2> QED BY <1>2, <1>5, <2>1, <2>2
<1>7. L \in Nat /\ sc \in Nat
  <2>1. L \in Nat
    BY <1>1, <1>5, ChunksRise
  <2> QED BY <1>3, <2>1
<1>8. PICK x, p, q : x = mp4_trak /\ p = mp4_trak.stco /\ q = mp4_trak.stsz
  OBVIOUS
<1>9. p = [c \in 1 .. m |-> y.stco[c] + d] /\ q = y.stsz /\ SentStsc = SentMap(y)
  <2>1. mp4_trak = [y EXCEPT !.stco = [c \in 1 .. m |-> y.stco[c] + d]]
    BY <1>1, <1>4 DEF Moved
  <2>2. p = [c \in 1 .. m |-> y.stco[c] + d] /\ q = y.stsz
    BY <1>3, <1>8, <2>1 DEF Fields
  <2>3. mp4_trak.stsc_start = y.stsc_start /\ mp4_trak.stsc = y.stsc /\ mp4_trak.stsc_end = y.stsc_end
    BY <1>3, <2>1 DEF Fields
  <2> QED BY <2>2, <2>3 DEF SentStsc, SentMap
<1>10. DOMAIN p = 1 .. m /\ \A c \in 1 .. m : p[c] = y.stco[c] + d /\ p[c] \in Int
  <2>1. d \in Int
    BY <1>1
  <2> QED BY <1>4, <1>9, <2>1
<1>11. PICK w : w = [c \in DOMAIN mp4_trak.stco |-> InChunk(c)]
  OBVIOUS
<1>12. ASSUME NEW c \in 1 .. m
       PROVE  /\ SentIn(sc, c - 1) \in Nat /\ SentIn(sc, c) \in Nat /\ SentIn(sc, c - 1) <= SentIn(sc, c)
              /\ SentIn(sc, c) <= l /\ w[c] = SentIn(sc, c) - SentIn(sc, c - 1) /\ w[c] \in Nat
  <2>1. /\ SentIn(sc, c - 1) \in Nat /\ SentIn(sc, c) \in Nat /\ SentIn(sc, c - 1) <= SentIn(sc, c)
        /\ SentIn(sc, c) <= l
    BY <1>1, <1>2, ChunkSent
  <2>2. w[c] = InChunk(c)
    BY <1>8, <1>10, <1>11
  <2>3. c \in Nat /\ InMap(SentMap(y), c, SentIn(sc, c) - SentIn(sc, c - 1))
    BY <1>3
  <2>4. PICK a, S : a = SentIn(sc, c) - SentIn(sc, c - 1) /\ S = SentMap(y)
    OBVIOUS
  <2>5. S[Max({e \in DOMAIN S : S[e].chunk <= c})].samples = a
    BY <1>3, <2>3, <2>4, InMapMax
  <2>6. InChunk(c) = a
    BY <1>9, <2>4, <2>5 DEF InChunk
  <2>7. a \in Nat
    BY <2>1, <2>4
  <2> QED BY <2>1, <2>2, <2>4, <2>6, <2>7
<1>13. w \in Seq(Nat) /\ Len(w) = m
  <2>1. w \in [1 .. m -> Nat]
    BY <1>8, <1>10, <1>11, <1>12
  <2> QED BY <1>3, <2>1, FunctionSeq
<1>14. /\ Sum(w, 0) = 0 /\ \A c \in 1 .. m : Sum(w, c) = Sum(w, c - 1) + w[c]
  BY <1>13, SeqSum
<1>15. SentIn(sc, 0) = 0
  BY DEF SentIn, WantedIn
<1>16. \A c \in 0 .. m : Sum(w, c) = SentIn(sc, c)
  <2> DEFINE S == {c \in 0 .. m : Sum(w, c) = SentIn(sc, c)}
  <2>1. 0 \in S
    BY <1>3, <1>14, <1>15
  <2>2. ASSUME NEW c \in 0 .. m - 1, c \in S PROVE c + 1 \in S
    <3>1. c + 1 \in 1 .. m /\ (c + 1) - 1 = c /\ c + 1 \in 0 .. m
      BY <1>3
    <3>2. Sum(w, c + 1) = Sum(w, c) + w[c + 1]
      BY <1>14, <3>1
    <3>3. /\ SentIn(sc, c) \in Nat /\ SentIn(sc, c + 1) \in Nat
          /\ w[c + 1] = SentIn(sc, c + 1) - SentIn(sc, c)
      BY <1>12, <3>1
    <3>4. Sum(w, c) = SentIn(sc, c)
      BY <2>2
    <3>5. Sum(w, c + 1) = SentIn(sc, c + 1)
      BY <3>2, <3>3, <3>4
    <3> QED BY <3>1, <3>5
  <2>3. 0 .. m \subseteq S
    <3> HIDE DEF S
    <3> QED BY <1>3, <2>1, <2>2, UpTo
  <2> QED BY <2>3
<1> DEFINE Part(c) == [n \in 1 .. w[c] |-> p[c] + SizeOf(q, Sum(w, c - 1) + 1, Sum(w, c - 1) + n - 1)]
<1>17. PICK seqs : seqs = [c \in 1 .. m |-> Part(c)]
  OBVIOUS
<1>18. SentPlaces = FlattenSeq(seqs)
  BY <1>8, <1>10, <1>11, <1>17 DEF SentPlaces
<1>19. ASSUME NEW c \in 1 .. m, NEW n \in 1 .. w[c]
       PROVE  /\ Part(c)[n] = samples[v + (Sum(w, c - 1) + n) - 1].pos + d /\ Part(c)[n] \in Int
  <2>1. PICK a, b : a = SentIn(sc, c - 1) /\ b = SentIn(sc, c)
    OBVIOUS
  <2>2. a \in Nat /\ b \in Nat /\ a <= b /\ b <= l /\ w[c] = b - a
    BY <1>12, <2>1
  <2>3. c - 1 \in 0 .. m /\ Sum(w, c - 1) = a
    <3>1. c - 1 \in 0 .. m
      BY <1>3
    <3> QED BY <1>16, <2>1, <3>1
  <2>4. PICK e : e = a + n - 1
    OBVIOUS
  <2>5. n \in Nat /\ e = a + (n - 1) /\ a \in 0 .. l /\ e \in a .. l /\ e < b /\ e \in Nat /\ a < b
    BY <1>6, <2>2, <2>4
  <2>6. SizeOf(q, a + 1, e) = u[v + e] - u[v + a]
    <3>1. \A k \in 1 .. l : q[k] = SizeIn(t, v + k - 1)
      BY <1>3, <1>9
    <3>2. t \in Tables /\ v \in Nat /\ l \in Nat /\ v + l <= CountOf(t) /\ a \in 0 .. l /\ e \in a .. l
      BY <1>5, <1>6, <2>5
    <3>3. SizeOf(q, a + 1, e) = BytesUpTo(t)[v + e] - BytesUpTo(t)[v + a]
      BY <3>1, <3>2, SizesSum, ZenonT(30)
    <3> QED BY <1>1, <3>3
  <2>7. Part(c)[n] = p[c] + (u[v + e] - u[v + a])
    BY <2>3, <2>4, <2>6
  <2>8. PICK f, g : f = F[sc + c] /\ g = F[sc + c - 1]
    OBVIOUS
  <2>9. g <= v + a /\ v + b <= f /\ y.stco[c] = t.stco[sc + c] + (u[v + a] - u[g])
    BY <1>1, <2>1, <2>5, <2>8, ChunkSent
  <2>10. sc + c - 1 = sc + (c - 1) /\ sc + c - 1 \in 0 .. L - 1 /\ sc + c - 1 + 1 = sc + c /\ sc + c \in 0 .. L
         /\ sc + c - 1 \in 0 .. L /\ sc + c \in 1 .. L
    BY <1>3, <1>7
  <2>11. f \in Nat /\ g \in Nat
    BY <1>1, <1>5, <2>8, <2>10, FirstsRise
  <2>12. g <= v + e /\ v + e < f /\ v + e \in 0 .. size - 1 /\ v + a \in 0 .. size /\ v + e \in 0 .. size
         /\ g \in 0 .. size
    BY <1>5, <1>6, <2>2, <2>5, <2>9, <2>11
  <2>13. samples[v + e].pos = t.stco[sc + c] + (u[v + e] - u[g])
    <3>1. Placed(L)
      BY <1>1 DEF Asked, IndexInv, SamplesPlaced
    <3>2. PICK k : k = sc + c - 1
      OBVIOUS
    <3>3. k \in Chunks /\ k < L /\ k + 1 = sc + c
      BY <1>1, <1>7, <2>10, <3>2 DEF Chunks
    <3>4. F[k] <= v + e /\ v + e < F[k + 1]
      BY <2>8, <2>12, <3>2, <3>3
    <3>5. samples[v + e].pos = t.stco[k + 1] + (u[v + e] - u[F[k]])
      BY <1>1, <2>12, <3>1, <3>3, <3>4 DEF Placed
    <3> QED BY <2>8, <3>2, <3>3, <3>5
  <2>14. u[v + e] \in Nat /\ u[v + a] \in Nat /\ u[g] \in Nat
    BY <1>1, <1>5, <2>12, BytesRise
  <2>15. t.stco[sc + c] \in Nat
    BY <1>1, <1>5, <2>10, ChunksRise
  <2>16. p[c] = y.stco[c] + d /\ d \in Int
    BY <1>1, <1>10
  <2>17. Part(c)[n] = samples[v + e].pos + d /\ Part(c)[n] \in Int
    <3>1. PICK g1, g2, g3, g4 : g1 = u[v + e] /\ g2 = u[v + a] /\ g3 = u[g] /\ g4 = t.stco[sc + c]
      OBVIOUS
    <3>2. PICK h1, h2 : h1 = Part(c)[n] /\ h2 = samples[v + e].pos
      OBVIOUS
    <3>3. h1 = (g4 + (g2 - g3)) + d + (g1 - g2) /\ h2 = g4 + (g1 - g3)
      BY <2>7, <2>9, <2>13, <2>16, <3>1, <3>2
    <3>4. g1 \in Nat /\ g2 \in Nat /\ g3 \in Nat /\ g4 \in Nat /\ d \in Int
      BY <2>14, <2>15, <2>16, <3>1
    <3>5. h1 = h2 + d /\ h1 \in Int
      BY <3>3, <3>4
    <3> QED BY <3>2, <3>5
  <2>18. v + (Sum(w, c - 1) + n) - 1 = v + e
    BY <1>6, <2>2, <2>3, <2>5
  <2> QED BY <2>17, <2>18
<1> HIDE DEF Part
<1>20. seqs \in Seq(Seq(Int)) /\ Len(seqs) = m /\ \A c \in 1 .. m : seqs[c] = Part(c) /\ Len(seqs[c]) = w[c]
  <2>1. ASSUME NEW c \in 1 .. m PROVE Part(c) \in Seq(Int) /\ Len(Part(c)) = w[c]
    <3>1. w[c] \in Nat
      BY <1>12
    <3>2. Part(c) \in [1 .. w[c] -> Int]
      <4>1. Part(c) = [n \in 1 .. w[c] |-> Part(c)[n]]
        BY DEF Part
      <4>2. \A n \in 1 .. w[c] : Part(c)[n] \in Int
        BY <1>19
      <4> HIDE DEF Part
      <4> QED BY <4>1, <4>2
    <3> QED BY <3>1, <3>2, FunctionSeq
  <2>2. seqs \in [1 .. m -> Seq(Int)]
    BY <1>17, <2>1
  <2>3. seqs \in Seq(Seq(Int)) /\ Len(seqs) = m
    BY <1>3, <2>2, FunctionSeq
  <2> QED BY <1>17, <2>1, <2>3
<1>21. /\ FlattenSeq(seqs) \in Seq(Int) /\ Len(FlattenSeq(seqs)) = Sum(w, m)
       /\ \A c \in 1 .. m : \A n \in 1 .. w[c] : FlattenSeq(seqs)[Sum(w, c - 1) + n] = seqs[c][n]
  <2>1. Len(w) = Len(seqs) /\ \A e \in 1 .. Len(w) : Len(seqs[e]) = w[e]
    BY <1>13, <1>20
  <2>2. w \in Seq(Nat) /\ seqs \in Seq(Seq(Int))
    BY <1>13, <1>20
  <2>3. /\ FlattenSeq(seqs) \in Seq(Int) /\ Len(FlattenSeq(seqs)) = Sum(w, Len(w))
        /\ \A c \in 1 .. Len(w) : \A n \in 1 .. w[c] : FlattenSeq(seqs)[Sum(w, c - 1) + n] = seqs[c][n]
    BY <2>1, <2>2, FlattenIs
  <2> QED BY <1>13, <2>3
<1>22. Sum(w, m) = l
  <2>1. m \in 0 .. m
    BY <1>3
  <2> QED BY <1>3, <1>16, <2>1
<1>23. ASSUME NEW k \in 1 .. l PROVE SentPlaces[k] = samples[v + k - 1].pos + d
  <2>1. PICK c \in 1 .. m : \E n \in 1 .. w[c] : k = Sum(w, c - 1) + n
    <3>1. Len(w) \in Nat /\ DOMAIN w = 1 .. Len(w) /\ \A e \in 1 .. Len(w) : w[e] \in Nat
      BY <1>13, NatSeq
    <3>2. k \in 1 .. Sum(w, Len(w))
      BY <1>13, <1>22
    <3>3. \E e \in 1 .. Len(w) : \E n \in 1 .. w[e] : k = Sum(w, e - 1) + n
      BY <3>1, <3>2, EntryWith
    <3> QED BY <1>13, <3>3
  <2>2. PICK n \in 1 .. w[c] : k = Sum(w, c - 1) + n
    BY <2>1
  <2>3. SentPlaces[k] = Part(c)[n]
    BY <1>18, <1>20, <1>21, <2>2
  <2> QED BY <1>19, <2>2, <2>3
<1> QED BY <1>1, <1>2, <1>18, <1>21, <1>22, <1>23

\* What CropsExactly says of the tables that are sent.
SentExactly ==
  LET n       == EndSample - FirstSample
      timed   == Expanded(mp4_trak.stts)
      delayed == Expanded(mp4_trak.ctts)
  IN  /\ Len(timed) = n /\ Len(mp4_trak.stsz) = n /\ Len(SentPlaces) = n
      /\ \A k \in 1 .. n :
           LET old == samples[FirstSample + k - 1]
           IN  /\ timed[k].duration = samples[FirstSample + k].pts - old.pts
               /\ mp4_trak.stsz[k] = old.size
               /\ Len(t.ctts) = 0 \/ Sum(Counts(t.ctts), Len(t.ctts)) >= size =>
                    old.cto = IF k \in DOMAIN delayed THEN delayed[k].offset ELSE 0
               /\ old.is_smooth_ss <=> k \in mp4_trak.stss
               /\ SentPlaces[k] - adjustment = old.pos

\* The other tables are those of y.
LEMMA MovedTables ==
  ASSUME NEW y, DOMAIN y = Fields, NEW d
  PROVE  /\ DOMAIN Moved(y, d) = Fields
         /\ \A f \in Fields \ {"stco"} : Moved(y, d)[f] = y[f]
         /\ Moved(y, d).stco = [c \in DOMAIN y.stco |-> y.stco[c] + d]
<1>1. PICK p : p = [c \in DOMAIN y.stco |-> y.stco[c] + d]
  OBVIOUS
<1>2. Moved(y, d) = [y EXCEPT !.stco = p]
  BY <1>1 DEF Moved
<1> QED BY <1>1, <1>2 DEF Fields

\* Moved, these are the tables CropsExactly asks for.
LEMMA SentIsExact ==
  ASSUME Asked, NEW y, NEW sc, NEW m, TablesSent(y, sc, m), PlacesKept(y, sc, m),
         adjustment \in Int, mp4_trak = Moved(y, adjustment)
  PROVE  SentExactly
<1>1. PICK v, E, x, n, d : v = FirstSample /\ E = EndSample /\ x = mp4_trak /\ n = E - v /\ d = adjustment
  OBVIOUS
<1>2. Described(y) /\ DOMAIN y = Fields /\ y.stsz \in Seq(Nat) /\ Len(y.stsz) = n
      /\ \A k \in 1 .. n : y.stsz[k] = SizeIn(t, v + k - 1)
  BY <1>1 DEF TablesSent
<1>3. x.stts = y.stts /\ x.stss = y.stss /\ x.ctts = y.ctts /\ x.stsz = y.stsz
  <2>1. \A f \in Fields \ {"stco"} : x[f] = y[f]
    <3>1. \A f \in Fields \ {"stco"} : Moved(y, adjustment)[f] = y[f]
      BY <1>2, MovedTables, Zenon
    <3> QED BY <1>1, <3>1
  <2> QED BY <2>1 DEF Fields
<1>4. /\ size \in Nat /\ \A k \in 0 .. size : samples[k] \in Sample
      /\ \A k \in 0 .. size - 1 : samples[k].size = SizeIn(t, k)
  BY SamplesKnown DEF Asked
<1>5. v \in 0 .. size - 1 /\ E \in v .. size /\ v \in Nat /\ E \in Nat /\ n \in Nat /\ v + n = E
  <2>1. v \in 0 .. size - 1
    BY <1>1, RangeKnown
  <2>2. E \in v .. size
    BY <1>1, MapStage DEF InRange
  <2> QED BY <1>1, <1>4, <2>1, <2>2
<1>6. /\ x.stts \in Seq(Run) /\ Total(x.stts) = n
      /\ \A k \in 0 .. n - 1 : RunAt(x.stts, k).duration = samples[v + k + 1].pts - samples[v + k].pts
  BY <1>1, <1>2, <1>3 DEF Described, TimesFrom
<1>7. PICK timed, delayed : timed = Expanded(x.stts) /\ delayed = Expanded(x.ctts)
  OBVIOUS
<1>8. Len(timed) = n /\ \A k \in 0 .. n - 1 : timed[k + 1] = RunAt(x.stts, k)
  <2>1. \A r \in Run : r.count \in Nat
    BY DEF Run
  <2> QED BY <1>6, <1>7, <2>1, ExpandedIs
<1>9. /\ SentPlaces \in Seq(Int) /\ Len(SentPlaces) = n
      /\ \A k \in 1 .. n : SentPlaces[k] = samples[v + k - 1].pos + d
  BY <1>1, SentPlacesAre
<1>10. Len(t.ctts) = 0 \/ Sum(Counts(t.ctts), Len(t.ctts)) >= size =>
         \A k \in 1 .. n : samples[v + k - 1].cto = IF k \in DOMAIN delayed THEN delayed[k].offset ELSE 0
  BY <1>1, <1>2, <1>3, <1>7 DEF Described, CttsSent
<1>11. \A k \in 1 .. n : k \in x.stss <=> samples[v + k - 1].is_smooth_ss
  BY <1>1, <1>2, <1>3 DEF Described
<1>12. ASSUME NEW k \in 1 .. n
       PROVE  /\ timed[k].duration = samples[v + k].pts - samples[v + k - 1].pts
              /\ x.stsz[k] = samples[v + k - 1].size
              /\ SentPlaces[k] - d = samples[v + k - 1].pos
  <2>1. /\ k - 1 \in 0 .. n - 1 /\ (k - 1) + 1 = k /\ v + (k - 1) + 1 = v + k /\ v + (k - 1) = v + k - 1
        /\ v + k - 1 \in 0 .. size - 1 /\ v + k - 1 \in 0 .. size
    BY <1>4, <1>5
  <2>2. timed[k].duration = samples[v + k].pts - samples[v + k - 1].pts
    <3>1. timed[(k - 1) + 1] = RunAt(x.stts, k - 1)
      BY <1>8, <2>1
    <3>2. RunAt(x.stts, k - 1).duration = samples[v + (k - 1) + 1].pts - samples[v + (k - 1)].pts
      BY <1>6, <2>1
    <3> QED BY <2>1, <3>1, <3>2
  <2>3. x.stsz[k] = samples[v + k - 1].size
    <3>1. x.stsz[k] = SizeIn(t, v + k - 1)
      BY <1>2, <1>3
    <3> QED BY <1>4, <2>1, <3>1
  <2>4. SentPlaces[k] - d = samples[v + k - 1].pos
    <3>1. samples[v + k - 1].pos \in Nat
      BY <1>4, <2>1 DEF Sample
    <3>2. PICK p : p = samples[v + k - 1].pos
      OBVIOUS
    <3>3. SentPlaces[k] = p + d
      BY <1>9, <3>2
    <3>4. d \in Int
      BY <1>1
    <3> QED BY <3>1, <3>2, <3>3, <3>4
  <2> QED BY <2>2, <2>3, <2>4
<1>13. Len(x.stsz) = n
  BY <1>2, <1>3
<1>14. \A k \in 1 .. n :
         /\ timed[k].duration = samples[v + k].pts - samples[v + k - 1].pts
         /\ x.stsz[k] = samples[v + k - 1].size
         /\ Len(t.ctts) = 0 \/ Sum(Counts(t.ctts), Len(t.ctts)) >= size =>
              samples[v + k - 1].cto = IF k \in DOMAIN delayed THEN delayed[k].offset ELSE 0
         /\ samples[v + k - 1].is_smooth_ss <=> k \in x.stss
         /\ SentPlaces[k] - d = samples[v + k - 1].pos
  <2> TAKE k \in 1 .. n
  <2>1. samples[v + k - 1].is_smooth_ss <=> k \in x.stss
    BY <1>11
  <2>2. Len(t.ctts) = 0 \/ Sum(Counts(t.ctts), Len(t.ctts)) >= size =>
          samples[v + k - 1].cto = IF k \in DOMAIN delayed THEN delayed[k].offset ELSE 0
    BY <1>10
  <2> QED BY <1>12, <2>1, <2>2, Zenon
<1>15. \A k \in 1 .. EndSample - FirstSample :
         /\ timed[k].duration = samples[FirstSample + k].pts - samples[FirstSample + k - 1].pts
         /\ mp4_trak.stsz[k] = samples[FirstSample + k - 1].size
         /\ Len(t.ctts) = 0 \/ Sum(Counts(t.ctts), Len(t.ctts)) >= size =>
              samples[FirstSample + k - 1].cto = IF k \in DOMAIN delayed THEN delayed[k].offset ELSE 0
         /\ samples[FirstSample + k - 1].is_smooth_ss <=> k \in mp4_trak.stss
         /\ SentPlaces[k] - adjustment = samples[FirstSample + k - 1].pos
  BY <1>1, <1>14
<1>16. /\ Len(timed) = EndSample - FirstSample /\ Len(mp4_trak.stsz) = EndSample - FirstSample
       /\ Len(SentPlaces) = EndSample - FirstSample
  BY <1>1, <1>8, <1>9, <1>13
<1>17. timed = Expanded(mp4_trak.stts) /\ delayed = Expanded(mp4_trak.ctts)
  BY <1>1, <1>7
<1> QED BY <1>15, <1>16, <1>17, Zenon DEF SentExactly

\* The bytes of the track begin where its first sample does.
LEMMA BeginsAtFirst ==
  ASSUME Asked, NEW y, NEW sc, NEW m, TablesSent(y, sc, m), PlacesKept(y, sc, m)
  PROVE  /\ m = 0 => EndSample = FirstSample /\ y.start_offset = FileEnd
         /\ m # 0 => y.start_offset = samples[FirstSample].pos
         /\ y.start_offset \in Nat
<1>1. PICK F, u, v, E, L : F = Firsts(t) /\ u = BytesUpTo(t) /\ v = FirstSample /\ E = EndSample
                           /\ L = Len(t.stco)
  OBVIOUS
<1>2. /\ sc \in 0 .. L - 1 /\ m \in Nat /\ sc + m <= L /\ F[sc] <= v /\ v < F[sc + 1]
      /\ SentIn(sc, m) = E - v
  BY <1>1 DEF TablesSent
<1>3. y.start_offset = (IF m = 0 THEN FileEnd ELSE y.stco[1]) /\ y.stco \in Seq(Nat) /\ Len(y.stco) = m
  BY DEF PlacesKept
<1>4. size \in Nat /\ v \in 0 .. size - 1 /\ E \in v .. size /\ samples[v] \in Sample
  <2>1. v \in 0 .. size - 1 /\ size \in Nat
    BY <1>1, RangeKnown
  <2>2. E \in v .. size
    BY <1>1, MapStage DEF InRange
  <2>3. samples[v] \in Sample
    BY <2>1, SamplesKnown DEF Asked
  <2> QED BY <2>1, <2>2, <2>3
<1>5. m = 0 => E = v /\ y.start_offset = FileEnd
  <2>1. SentIn(sc, 0) = 0
    BY DEF SentIn, WantedIn
  <2>2. m = 0 => E - v = 0
    BY <1>2, <2>1
  <2> QED BY <1>3, <1>4, <2>2
<1>6. ASSUME m # 0 PROVE y.start_offset = samples[v].pos
  <2>1. 1 \in 1 .. m
    BY <1>2, <1>6
  <2>2. y.stco[1] = t.stco[sc + 1] + (u[v] - u[F[sc]])
    BY <1>1, <2>1 DEF PlacesKept
  <2>3. Placed(L)
    BY <1>1 DEF Asked, IndexInv, SamplesPlaced
  <2>4. sc \in Chunks /\ sc < L
    <3>1. L \in Nat
      BY <1>1, SamplesKnown, ChunksRise DEF Asked
    <3> QED BY <1>1, <1>2, <3>1 DEF Chunks
  <2>5. samples[v].pos = t.stco[sc + 1] + (u[v] - u[F[sc]])
    BY <1>1, <1>2, <1>4, <2>3, <2>4 DEF Placed
  <2> QED BY <1>3, <1>6, <2>2, <2>5
<1>7. y.start_offset \in Nat
  <2>1. FileEnd \in Nat
    BY CropAssumption
  <2>2. samples[v].pos \in Nat
    BY <1>4 DEF Sample
  <2> QED BY <1>5, <1>6, <2>1, <2>2
<1> QED BY <1>1, <1>5, <1>6, <1>7

\* They end behind each of its samples.
LEMMA EndsBehind ==
  ASSUME Asked, NEW y, NEW sc, NEW m, TablesSent(y, sc, m), PlacesKept(y, sc, m), m # 0,
         Ordered, samples[size].pos <= MdatEnd,
         ~ (y.stsc_start # <<>> /\ y.end_chunk = y.start_chunk + 1),
         NEW n \in FirstSample .. EndSample - 1
  PROVE  y.end_offset \in Nat /\ samples[n].pos + samples[n].size <= y.end_offset
<1>1. PICK F, u, v, E, L : F = Firsts(t) /\ u = BytesUpTo(t) /\ v = FirstSample /\ E = EndSample
                           /\ L = Len(t.stco)
  OBVIOUS
<1>2. /\ sc \in 0 .. L - 1 /\ m \in Nat /\ sc + m <= L /\ SentIn(sc, m) = E - v
  BY <1>1 DEF TablesSent
<1>3. /\ t \in Tables /\ size = CountOf(t) /\ size \in Nat /\ \A k \in 0 .. size : samples[k] \in Sample
      /\ \A k \in 0 .. size - 1 : samples[k].size = SizeIn(t, k)
  BY SamplesKnown DEF Asked
<1>4. v \in 0 .. size - 1 /\ E \in v .. size /\ v \in Nat /\ E \in Nat /\ n \in v .. E - 1
  <2>1. v \in 0 .. size - 1
    BY <1>1, RangeKnown
  <2>2. E \in v .. size
    BY <1>1, MapStage DEF InRange
  <2> QED BY <1>1, <1>3, <2>1, <2>2
<1>5. /\ n \in Nat /\ n \in 0 .. size - 1 /\ n \in 0 .. size /\ n + 1 \in 0 .. size /\ n + 1 <= E
      /\ E \in 0 .. size /\ size \in 0 .. size /\ n + 1 <= size
  BY <1>3, <1>4
<1>6. /\ \A k \in 0 .. size : u[k] \in Nat
      /\ \A k \in 0 .. size - 1 : SizeIn(t, k) \in Nat /\ u[k + 1] = u[k] + SizeIn(t, k)
      /\ \A k, l \in 0 .. size : k <= l => u[k] <= u[l]
  BY <1>1, <1>3, BytesRise
<1>7. PICK p, z, a, b : p = samples[n].pos /\ z = samples[n].size /\ a = u[n] /\ b = u[n + 1]
  OBVIOUS
<1>8. p \in Nat /\ z \in Nat /\ a \in Nat /\ b \in Nat /\ b = a + z
  <2>1. p \in Nat /\ z = SizeIn(t, n)
    BY <1>3, <1>5, <1>7 DEF Sample
  <2> QED BY <1>5, <1>6, <1>7, <2>1
<1>9. IndexInv /\ pc = "done"
  BY DEF Asked
<1>10. CASE mp4_length = 0
  <2>1. y.end_offset = MdatEnd /\ MdatEnd \in Nat
    BY <1>10, CropAssumption DEF PlacesKept
  <2>2. samples[size].pos \in Nat /\ samples[size].pos >= p + (u[size] - a)
    <3>1. n \in 0 .. size /\ size \in n .. size
      BY <1>3, <1>5
    <3> QED BY <1>1, <1>7, <1>9, <3>1, PlacesRise
  <2>3. b <= u[size] /\ u[size] \in Nat
    BY <1>5, <1>6, <1>7
  <2>4. p + z <= samples[size].pos
    BY <1>8, <2>2, <2>3
  <2>5. p + z <= MdatEnd
    BY <1>8, <2>1, <2>2, <2>4
  <2> QED BY <1>7, <2>1, <2>5
<1>11. CASE mp4_length # 0
  <2>1. PICK f, g, k : f = F[sc + m] /\ g = F[sc + m - 1] /\ k = SentIn(sc, m - 1)
    OBVIOUS
  <2>2. /\ L \in Nat /\ sc \in Nat /\ sc + m \in 0 .. L /\ sc + m \in 1 .. L /\ sc + m - 1 = sc + (m - 1)
        /\ sc + m - 1 \in 0 .. L - 1 /\ sc + m - 1 \in 0 .. L /\ m \in 1 .. m /\ sc + m - 1 + 1 = sc + m
    <3>1. L \in Nat
      BY <1>1, <1>3, ChunksRise
    <3> QED BY <1>2, <3>1
  <2>3. f \in Nat /\ g \in Nat /\ g <= size
    <3>1. f \in Nat
      BY <1>1, <1>3, <2>1, <2>2, FirstsRise
    <3>2. g \in 0 .. size
      BY <1>1, <1>9, <2>1, <2>2, OrderedChunks
    <3> QED BY <1>3, <3>1, <3>2
  <2>4. E <= f
    <3>1. E - v = (IF f <= E THEN f ELSE E) - v
      BY <1>1, <1>2, <2>1 DEF SentIn, WantedIn
    <3> QED BY <1>4, <2>3, <3>1
  <2>5. /\ k \in Nat /\ k <= E - v
        /\ k < E - v => g <= v + k /\ y.stco[m] = t.stco[sc + m] + (u[v + k] - u[g])
    <3>1. /\ SentIn(sc, m - 1) \in Nat /\ SentIn(sc, m - 1) <= SentIn(sc, m)
          /\ SentIn(sc, m - 1) < SentIn(sc, m) =>
               /\ Firsts(t)[sc + m - 1] <= FirstSample + SentIn(sc, m - 1)
               /\ y.stco[m] = t.stco[sc + m] + (BytesUpTo(t)[FirstSample + SentIn(sc, m - 1)]
                                                  - BytesUpTo(t)[Firsts(t)[sc + m - 1]])
      BY <2>2, ChunkSent
    <3> QED BY <1>1, <1>2, <2>1, <3>1
  <2>6. y.end_offset = y.stco[m] + (u[E] - u[E - ((E - v) - k)])
    BY <1>1, <1>2, <1>11, <2>1 DEF PlacesKept
  <2>7. E - ((E - v) - k) = v + k /\ v + k \in 0 .. size /\ v + k <= E
    BY <1>3, <1>4, <2>5
  <2>8. PICK q, r, s1, s2, s3 : /\ q = t.stco[sc + m] /\ r = y.stco[m] /\ s1 = u[E] /\ s2 = u[v + k]
                                /\ s3 = u[g]
    OBVIOUS
  <2>9. s1 \in Nat /\ s2 \in Nat /\ s3 \in Nat /\ s2 <= s1 /\ q \in Nat /\ r \in Nat
    <3>1. q \in Nat
      BY <1>1, <1>3, <2>2, <2>8, ChunksRise
    <3>2. r \in Nat
      <4>1. y.stco \in Seq(Nat) /\ Len(y.stco) = m
        BY DEF PlacesKept
      <4> QED BY <2>2, <2>8, <4>1
    <3>3. g \in 0 .. size
      BY <1>3, <2>3
    <3>4. s1 \in Nat /\ s2 \in Nat /\ s3 \in Nat /\ s2 <= s1
      BY <1>5, <1>6, <2>7, <2>8, <3>3
    <3> QED BY <3>1, <3>2, <3>4
  <2>10. y.end_offset = r + (s1 - s2) /\ y.end_offset \in Nat
    BY <2>6, <2>7, <2>8, <2>9
  <2>11. PICK h : h = Base(sc + m - 1)
    OBVIOUS
  <2>12. h = q - s3 /\ h \in Int
    <3>1. PICK l : l = sc + m - 1
      OBVIOUS
    <3>2. l + 1 = sc + m
      BY <2>2, <3>1
    <3>3. h = t.stco[l + 1] - u[F[l]]
      BY <1>1, <2>11, <3>1 DEF Base
    <3>4. h = q - s3
      BY <2>1, <2>8, <3>1, <3>2, <3>3
    <3> QED BY <2>9, <3>4
  <2>13. h + s1 <= y.end_offset
    <3>1. CASE k < E - v
      <4>1. r = q + (s2 - s3)
        BY <2>5, <2>8, <3>1
      <4> QED BY <2>9, <2>10, <2>12, <4>1
    <3>2. CASE ~ k < E - v
      <4>1. k = E - v /\ v + k = E
        BY <1>4, <2>5, <3>2
      <4>2. s2 = s1 /\ y.end_offset = r
        BY <2>8, <2>9, <2>10, <4>1
      <4>3. m # 1
        <5>1. SentIn(sc, 0) = 0
          BY DEF SentIn, WantedIn
        <5>2. m = 1 => k = 0
          BY <2>1, <5>1
        <5>3. E - v # 0
          BY <1>4
        <5> QED BY <4>1, <5>2, <5>3
      <4>4. r = q
        <5>1. y.stco[m] = t.stco[sc + m] + 0
          BY <2>2, <4>3 DEF PlacesKept
        <5> QED BY <2>8, <2>9, <5>1
      <4>5. E <= g
        <5>1. m - 1 # 0
          BY <1>2, <4>3
        <5>2. k = (IF g <= E THEN g ELSE E) - v
          BY <1>1, <2>1, <2>2, <5>1 DEF SentIn, WantedIn
        <5> QED BY <1>4, <2>3, <4>1, <5>2
      <4>6. s1 <= s3
        <5>1. g \in 0 .. size
          BY <1>3, <2>3
        <5> QED BY <1>5, <1>6, <2>8, <4>5, <5>1
      <4> QED BY <2>9, <2>12, <4>2, <4>4, <4>6
    <3> QED BY <3>1, <3>2
  <2>14. PICK c \in 0 .. L - 1 : F[c] <= n /\ p = Base(c) + a
    BY <1>1, <1>5, <1>7, <1>9, ChunkOfSample
  <2>15. c \in Nat /\ c <= sc + m - 1
    <3>1. c \in Nat /\ c \in 0 .. L
      BY <2>2
    <3>2. ASSUME sc + m <= c PROVE FALSE
      <4>1. f <= F[c]
        BY <1>1, <1>3, <2>1, <2>2, <3>1, <3>2, FirstsRise
      <4>2. F[c] \in Nat
        BY <1>1, <1>3, <3>1, FirstsRise
      <4> QED BY <1>4, <1>5, <2>3, <2>4, <2>14, <4>1, <4>2
    <3> QED BY <1>2, <2>2, <3>1, <3>2
  <2>16. Base(c) <= h
    <3>1. sc + m - 1 \in c .. L - 1
      BY <2>2, <2>15
    <3> QED BY <1>1, <1>9, <2>11, <2>14, <3>1, BasesRise
  <2>17. Base(c) \in Int
    BY <1>1, <1>9, <2>14, OrderedChunks
  <2>18. b <= s1
    BY <1>5, <1>6, <1>7, <2>8
  <2>19. p + z <= y.end_offset
    <3>1. PICK eo, l : eo = y.end_offset /\ l = Base(c)
      OBVIOUS
    <3>2. eo \in Nat /\ h + s1 <= eo /\ l <= h /\ l \in Int /\ p = l + a
      BY <2>10, <2>13, <2>14, <2>16, <2>17, <3>1
    <3>3. p + z <= eo
      BY <1>8, <2>9, <2>12, <2>18, <3>2
    <3> QED BY <3>1, <3>3
  <2> QED BY <1>7, <2>10, <2>19
<1> QED BY <1>10, <1>11

\* The range of bytes is that of all tracks, and the places are moved to where it comes in the
\* answer.
Extended(y) ==
  /\ others \in Others
  /\ start_offset = Min({others.start_offset, y.start_offset})
  /\ end_offset = Max({start_offset, others.end_offset, y.end_offset})
  /\ moov_size = HeadSize + y.size

\* What is known of it.
LEMMA ExtendedKnown ==
  ASSUME Asked, NEW y, NEW sc, NEW m, TablesSent(y, sc, m), PlacesKept(y, sc, m), Extended(y)
  PROVE  /\ start_offset \in Nat /\ start_offset <= y.start_offset
         /\ y.end_offset \in Nat => y.end_offset <= end_offset /\ end_offset \in Nat
         /\ y.size \in Nat /\ moov_size \in Nat
<1>1. others.start_offset \in Nat /\ others.end_offset \in Nat /\ HeadSize \in Nat
  <2>1. others \in [start_offset : Nat, end_offset : Nat]
    BY CropAssumption DEF Extended
  <2> QED BY <2>1, CropAssumption
<1>2. PICK a, b, c, d : a = others.start_offset /\ b = others.end_offset /\ c = y.start_offset
                        /\ d = y.end_offset
  OBVIOUS
<1>3. c \in Nat
  BY <1>2, BeginsAtFirst
<1>4. start_offset = Min({a, c}) /\ end_offset = Max({start_offset, b, d})
  BY <1>2 DEF Extended
<1>5. start_offset \in Nat /\ start_offset <= c
  BY <1>1, <1>2, <1>3, <1>4, Lesser
<1>6. d \in Nat => d <= end_offset /\ end_offset \in Nat
  BY <1>1, <1>2, <1>4, <1>5, Greatest
<1>7. y.size \in Nat
  <2>1. /\ HeadUpTo(y) \in Nat /\ Len(SentMap(y)) \in Nat /\ Len(y.stsz) \in Nat /\ m \in Nat
        /\ y.size = HeadUpTo(y) + (16 + 12 * Len(SentMap(y))) + (20 + 4 * Len(y.stsz)) + (16 + 4 * m)
    <3>1. SentMap(y) \in Seq(ChunkRun) /\ y.stsz \in Seq(Nat) /\ HeadUpTo(y) \in Nat
      BY DEF TablesSent, Described
    <3>2. Len(SentMap(y)) \in Nat /\ Len(y.stsz) \in Nat
      BY <3>1
    <3> QED BY <3>1, <3>2 DEF TablesSent
  <2>2. PICK f, g, h : f = HeadUpTo(y) /\ g = Len(SentMap(y)) /\ h = Len(y.stsz)
    OBVIOUS
  <2> QED BY <2>1, <2>2
<1> QED BY <1>1, <1>2, <1>5, <1>6, <1>7 DEF Extended

\* What is sent in front of the samples has the size that is reckoned with.
LEMMA HeadIs ==
  ASSUME NEW y, NEW sc, NEW m, TablesSent(y, sc, m), PlacesKept(y, sc, m), NEW d, mp4_trak = Moved(y, d)
  PROVE  SentHead = HeadSize + y.size + 8
<1>1. PICK x : x = mp4_trak
  OBVIOUS
<1>2. Described(y) /\ DOMAIN y = Fields
  BY DEF TablesSent
<1>3. \A f \in Fields \ {"stco"} : x[f] = y[f]
  <2>1. \A f \in Fields \ {"stco"} : Moved(y, d)[f] = y[f]
    BY <1>2, MovedTables, Zenon
  <2> QED BY <1>1, <2>1
<1>4. Len(x.stco) = m
  <2>1. y.stco \in Seq(Nat) /\ Len(y.stco) = m /\ m \in Nat
    BY DEF PlacesKept, TablesSent
  <2>2. Moved(y, d).stco = [c \in DOMAIN y.stco |-> y.stco[c] + d]
    <3>1. PICK p : p = [c \in DOMAIN y.stco |-> y.stco[c] + d]
      OBVIOUS
    <3>2. Moved(y, d) = [y EXCEPT !.stco = p]
      BY <3>1 DEF Moved
    <3> QED BY <1>2, <3>1, <3>2 DEF Fields
  <2>3. DOMAIN y.stco = 1 .. m
    BY <2>1
  <2>4. x.stco = [c \in 1 .. m |-> y.stco[c] + d]
    BY <1>1, <2>2, <2>3
  <2> QED BY <2>1, <2>4
<1>5. /\ x.stts = y.stts /\ x.stss = y.stss /\ x.ctts = y.ctts /\ x.stsz = y.stsz
      /\ x.stsc_start = y.stsc_start /\ x.stsc = y.stsc /\ x.stsc_end = y.stsc_end
  BY <1>3 DEF Fields
<1>6. SentStsc = SentMap(y)
  BY <1>1, <1>5 DEF SentStsc, SentMap
<1>7. PICK a, b, c, e, f :
        /\ a = Len(y.stts) /\ e = Len(SentMap(y)) /\ f = Len(y.stsz)
        /\ b = IF t.stss = {} THEN 0 ELSE 16 + 4 * Cardinality(y.stss)
        /\ c = IF y.ctts = <<>> THEN 0 ELSE 16 + 8 * Len(y.ctts)
  OBVIOUS
<1>8. a \in Nat /\ b \in Nat /\ c \in Nat /\ e \in Nat /\ f \in Nat /\ m \in Nat
  <2>1. y.stts \in Seq(Run) /\ Cardinality(y.stss) \in Nat /\ Len(y.ctts) \in Nat
    BY <1>2 DEF Described, TimesFrom
  <2>2. b \in Nat /\ c \in Nat
    BY <1>7, <2>1
  <2>3. a \in Nat
    BY <1>7, <2>1
  <2>4. e \in Nat /\ f \in Nat /\ m \in Nat
    <3>1. SentMap(y) \in Seq(ChunkRun) /\ y.stsz \in Seq(Nat) /\ m \in Nat
      BY DEF TablesSent
    <3> QED BY <1>7, <3>1
  <2> QED BY <2>2, <2>3, <2>4
<1>9. SentHead = HeadSize + 8 + 16 + 8 * a + b + c + 16 + 12 * e + 20 + 4 * f + 16 + 4 * m
  BY <1>1, <1>4, <1>5, <1>6, <1>7, Zenon DEF SentHead
<1>10. HeadUpTo(y) = 16 + 8 * a + b + c
  BY <1>7, Zenon DEF HeadUpTo
<1>11. y.size = HeadUpTo(y) + (16 + 12 * e) + (20 + 4 * f) + (16 + 4 * m)
  BY <1>7 DEF TablesSent
<1>12. HeadSize \in Nat
  BY CropAssumption
<1> QED BY <1>8, <1>9, <1>10, <1>11, <1>12

\* So the bytes of each sample are where the tables say.
LEMMA SentFollow ==
  ASSUME Asked, NEW y, NEW sc, NEW m, TablesSent(y, sc, m), PlacesKept(y, sc, m), Extended(y),
         adjustment = moov_size + 8 - start_offset, mp4_trak = Moved(y, adjustment),
         Ordered, samples[size].pos <= MdatEnd, ~ EndsWhereItBegins
  PROVE  \A k \in DOMAIN SentPlaces :
           LET old == samples[FirstSample + k - 1]
           IN  /\ SentPlaces[k] - SentHead + start_offset = old.pos
               /\ old.pos >= start_offset /\ old.pos + old.size <= end_offset
<1>1. PICK v, E, n, d : v = FirstSample /\ E = EndSample /\ n = E - v /\ d = adjustment
  OBVIOUS
<1>2. start_offset \in Nat /\ start_offset <= y.start_offset /\ y.size \in Nat /\ moov_size \in Nat
      /\ (y.end_offset \in Nat => y.end_offset <= end_offset /\ end_offset \in Nat)
  BY ExtendedKnown
<1>3. adjustment \in Int
  BY <1>2
<1>4. /\ SentPlaces \in Seq(Int) /\ Len(SentPlaces) = n
      /\ \A k \in 1 .. n : SentPlaces[k] = samples[v + k - 1].pos + d
  BY <1>1, <1>3, SentPlacesAre
<1>5. DOMAIN SentPlaces = 1 .. n
  BY <1>4
<1>6. SentHead = moov_size + 8
  BY HeadIs DEF Extended
<1>7. size \in Nat /\ v \in 0 .. size - 1 /\ E \in v .. size /\ \A k \in 0 .. size : samples[k] \in Sample
  <2>1. v \in 0 .. size - 1 /\ size \in Nat
    BY <1>1, RangeKnown
  <2>2. E \in v .. size
    BY <1>1, MapStage DEF InRange
  <2>3. \A k \in 0 .. size : samples[k] \in Sample
    BY SamplesKnown DEF Asked
  <2> QED BY <2>1, <2>2, <2>3
<1>8. IndexInv /\ pc = "done"
  BY DEF Asked
<1>9. ASSUME NEW k \in 1 .. n, NEW old, old = samples[v + k - 1]
      PROVE  /\ SentPlaces[k] - SentHead + start_offset = old.pos
             /\ old.pos >= start_offset /\ old.pos + old.size <= end_offset
  <2>1. PICK l : l = v + k - 1
    OBVIOUS
  <2>2. l \in v .. E - 1 /\ l \in v .. size /\ v \in 0 .. size /\ l \in 0 .. size /\ E # v
    BY <1>1, <1>7, <2>1
  <2>3. PICK p, q : p = old.pos /\ q = SentPlaces[k]
    OBVIOUS
  <2>4. p \in Nat /\ q = p + d
    <3>1. old \in Sample
      BY <1>7, <1>9, <2>1, <2>2
    <3>2. q = p + d
      BY <1>4, <1>9, <2>3
    <3> QED BY <2>3, <3>1, <3>2 DEF Sample
  <2>5. q - SentHead + start_offset = p
    BY <1>1, <1>2, <1>6, <2>4
  <2>6. m # 0
    BY <1>1, <2>2, BeginsAtFirst
  <2>7. p >= start_offset
    <3>1. y.start_offset = samples[v].pos
      BY <1>1, <2>6, BeginsAtFirst
    <3>2. /\ samples[v].pos \in Nat /\ samples[l].pos \in Nat
          /\ BytesUpTo(t)[v] \in Nat /\ BytesUpTo(t)[l] \in Nat
          /\ samples[l].pos >= samples[v].pos + (BytesUpTo(t)[l] - BytesUpTo(t)[v])
      BY <1>8, <2>2, PlacesRise
    <3>3. BytesUpTo(t)[v] <= BytesUpTo(t)[l]
      <4>1. t \in Tables /\ size = CountOf(t)
        BY SamplesKnown DEF Asked
      <4>2. v <= l
        BY <1>7, <2>2
      <4> QED BY <2>2, <4>1, <4>2, BytesRise
    <3>4. samples[l].pos = p
      BY <1>9, <2>1, <2>3
    <3> QED BY <1>2, <3>1, <3>2, <3>3, <3>4
  <2>8. p + old.size <= end_offset
    <3>1. ~ (y.stsc_start # <<>> /\ y.end_chunk = y.start_chunk + 1)
      <4>1. Moved(y, d).stsc_start = y.stsc_start /\ Moved(y, d).end_chunk = y.end_chunk
            /\ Moved(y, d).start_chunk = y.start_chunk
        <5>1. DOMAIN y = Fields
          BY DEF TablesSent
        <5>2. \A f \in Fields \ {"stco"} : Moved(y, d)[f] = y[f]
          BY <5>1, MovedTables, Zenon
        <5> QED BY <5>2 DEF Fields
      <4> QED BY <1>1, <4>1 DEF EndsWhereItBegins
    <3>2. l \in FirstSample .. EndSample - 1
      BY <1>1, <2>2
    <3>3. y.end_offset \in Nat /\ samples[l].pos + samples[l].size <= y.end_offset
      BY <2>6, <3>1, <3>2, EndsBehind
    <3>4. samples[l].pos = p /\ samples[l].size = old.size
      BY <1>9, <2>1, <2>3
    <3>5. old.size \in Nat
      BY <1>7, <1>9, <2>1, <2>2 DEF Sample
    <3>6. p + old.size \in Nat
      BY <2>4, <3>5
    <3> QED BY <1>2, <3>3, <3>4, <3>6
  <2> QED BY <2>3, <2>5, <2>7, <2>8
<1>10. \A k \in 1 .. n :
         /\ SentPlaces[k] - SentHead + start_offset = samples[v + k - 1].pos
         /\ samples[v + k - 1].pos >= start_offset
         /\ samples[v + k - 1].pos + samples[v + k - 1].size <= end_offset
  BY <1>9
<1> QED BY <1>1, <1>5, <1>10

\* The track after each table depends on the index and the request only, so that it stays what
\* it is while the answer is made.
LEMMA StagesKept ==
  ASSUME UNCHANGED <<indexVars, start, mp4_length>>
  PROVE  /\ ReadTrak' = ReadTrak /\ TimesCropped' = TimesCropped /\ MarksCropped' = MarksCropped
         /\ OffsetsCropped' = OffsetsCropped /\ MapCropped' = MapCropped
         /\ SizesCropped' = SizesCropped /\ PlacesCropped' = PlacesCropped
<1>1. t' = t /\ start' = start /\ mp4_length' = mp4_length
  BY DEF indexVars
<1>2. ReadTrak' = ReadTrak
  BY <1>1 DEF ReadTrak
<1>3. Ticks(start)' = Ticks(start) /\ Ticks(mp4_length)' = Ticks(mp4_length)
  BY <1>1 DEF Ticks
<1>4. ASSUME NEW x PROVE SttsCropped(x)' = SttsCropped(x)
  <2>1. ASSUME NEW y PROVE StartOfStts(y)' = StartOfStts(y)
    BY <1>3 DEF StartOfStts
  <2>2. ASSUME NEW y PROVE EndOfStts(y)' = EndOfStts(y)
    BY <1>1, <1>3 DEF EndOfStts
  <2> QED BY <2>1, <2>2 DEF SttsCropped
<1>5. ASSUME NEW x PROVE StssCropped(x)' = StssCropped(x)
  BY <1>1 DEF StssCropped, CroppedStss
<1>6. ASSUME NEW x PROVE CttsCropped(x)' = CttsCropped(x)
  <2>1. ASSUME NEW y PROVE EndOfCtts(y)' = EndOfCtts(y)
    BY <1>1 DEF EndOfCtts
  <2> QED BY <2>1 DEF CttsCropped
<1>7. ASSUME NEW x PROVE StscCropped(x)' = StscCropped(x)
  <2>1. ASSUME NEW y PROVE EndOfStsc(y)' = EndOfStsc(y)
    BY <1>1 DEF EndOfStsc
  <2> QED BY <2>1 DEF StscCropped
<1>8. ASSUME NEW x PROVE StszCropped(x)' = StszCropped(x)
  BY <1>1 DEF StszCropped
<1>9. ASSUME NEW x PROVE StcoCropped(x)' = StcoCropped(x)
  BY <1>1 DEF StcoCropped
<1>10. TimesCropped' = TimesCropped
  BY <1>2, <1>4 DEF TimesCropped
<1>11. MarksCropped' = MarksCropped
  BY <1>5, <1>10 DEF MarksCropped
<1>12. OffsetsCropped' = OffsetsCropped
  BY <1>6, <1>11 DEF OffsetsCropped
<1>13. MapCropped' = MapCropped
  BY <1>7, <1>12 DEF MapCropped
<1>14. SizesCropped' = SizesCropped
  BY <1>8, <1>13 DEF SizesCropped
<1>15. PlacesCropped' = PlacesCropped
  BY <1>9, <1>14 DEF PlacesCropped
<1> QED BY <1>2, <1>10, <1>11, <1>12, <1>13, <1>14, <1>15

\* So is what was asked.
LEMMA AskedKept ==
  ASSUME Asked, UNCHANGED <<indexVars, start, mp4_length>>
  PROVE  Asked'
<1>1. IndexInv' /\ SamplesDelayed'
  <2>1. IndexInv /\ SamplesDelayed /\ [IndexNext]_indexVars
    BY DEF Asked
  <2> QED BY <2>1, IndexInvKept, DelayedKept
<1>2. t' = t /\ chunks' = chunks /\ samples' = samples /\ size' = size /\ pc' = pc /\ start' = start
      /\ mp4_length' = mp4_length
  BY DEF indexVars
<1>3. Croppable'
  <2>1. Croppable
    BY DEF Asked
  <2> QED BY <1>2, <2>1 DEF Croppable
<1> QED BY <1>1, <1>2, <1>3 DEF Asked, Ticks

\* Once the index is complete it stays so.
LEMMA IndexDone == pc = "done" => ~ IndexNext
BY DEF IndexNext, MapChunks, Mapped, NumberChunk, Sizes, Times, EndTime, Offsets, EndOffset, Places,
       EndPlace, Sync

\* The inductive invariant: each phase finds the track as the ones before it have left it.
CropInv ==
  /\ IndexInv /\ SamplesDelayed /\ others \in Others
  /\ phase \in {"index", "whole", "skipped", "stts", "stss", "ctts", "stsc", "stsz", "stco", "offsets",
                "error", "adjust", "sent"}
  /\ phase # "index" => pc = "done"
  /\ phase \notin {"index", "whole", "skipped"} => Asked
  /\ phase = "stts" => mp4_trak = ReadTrak
  /\ phase = "stss" => mp4_trak = TimesCropped
  /\ phase = "ctts" => mp4_trak = MarksCropped
  /\ phase = "stsc" => mp4_trak = OffsetsCropped
  /\ phase = "stsz" => mp4_trak = MapCropped
  /\ phase = "stco" => mp4_trak = SizesCropped
  /\ phase \in {"offsets", "error", "adjust"} => mp4_trak = PlacesCropped
  /\ phase \in {"error", "adjust", "sent"} => Extended(PlacesCropped)
  /\ phase = "error" => start_offset > MdatEnd
  /\ phase = "sent" =>
       adjustment = moov_size + 8 - start_offset /\ mp4_trak = Moved(PlacesCropped, adjustment)

\* At first nothing has been asked.
LEMMA InitCropInv == CropInit => CropInv
<1> SUFFICES ASSUME CropInit PROVE CropInv
  OBVIOUS
<1>1. IndexInit /\ others \in Others /\ phase = "index"
  BY DEF CropInit
<1>2. IndexInv
  BY <1>1, InitIndexInv
<1>3. SamplesDelayed
  BY <1>1 DEF IndexInit, SamplesDelayed
<1> QED BY <1>1, <1>2, <1>3 DEF CropInv

\* A step from one table to the next.
LEMMA NextTable ==
  ASSUME CropInv, phase \notin {"index", "whole", "skipped"},
         UNCHANGED <<indexVars, start, mp4_length, others, start_offset, end_offset, moov_size, adjustment>>,
         \/ phase' = "stss" /\ mp4_trak' = TimesCropped
         \/ phase' = "ctts" /\ mp4_trak' = MarksCropped
         \/ phase' = "stsc" /\ mp4_trak' = OffsetsCropped
         \/ phase' = "stsz" /\ mp4_trak' = MapCropped
         \/ phase' = "stco" /\ mp4_trak' = SizesCropped
         \/ phase' = "offsets" /\ mp4_trak' = PlacesCropped
  PROVE  CropInv'
<1>1. UNCHANGED <<indexVars, start, mp4_length>> /\ pc' = pc /\ others' = others
  BY DEF indexVars
<1>2. Asked /\ others \in Others
  BY DEF CropInv
<1>3. Asked'
  BY <1>1, <1>2, AskedKept
<1>4. IndexInv' /\ SamplesDelayed' /\ pc' = "done" /\ (others \in Others)'
  BY <1>1, <1>2, <1>3 DEF Asked
<1>5. /\ TimesCropped' = TimesCropped /\ MarksCropped' = MarksCropped /\ OffsetsCropped' = OffsetsCropped
      /\ MapCropped' = MapCropped /\ SizesCropped' = SizesCropped /\ PlacesCropped' = PlacesCropped
  BY <1>1, StagesKept
<1> QED BY <1>3, <1>4, <1>5 DEF CropInv

\* A request finds the tables as they are.
LEMMA RequestKeeps == ASSUME CropInv, Request PROVE CropInv'
<1>1. /\ pc = "done" /\ Croppable /\ mp4_trak' = ReadTrak /\ UNCHANGED indexVars /\ others' = others
  BY DEF Request
<1>2. PICK from \in StartArgs, to \in EndArgs, moov_first \in BOOLEAN :
        /\ start'  = IF from < 0 /\ to > 0 THEN 0 ELSE from
        /\ mp4_length' = IF to > 0 /\ to > start' THEN to - start' ELSE 0
        /\ phase'  = IF start' < 0 \/ (start' = 0 /\ mp4_length' = 0 /\ moov_first) THEN "whole"
                     ELSE IF samples[size].pts <= Ticks(start') THEN "skipped"
                     ELSE "stts"
  BY DEF Request
<1>3. t' = t /\ chunks' = chunks /\ samples' = samples /\ size' = size /\ pc' = pc
  BY <1>1 DEF indexVars
<1>4. IndexInv' /\ SamplesDelayed' /\ (others \in Others)'
  <2>1. IndexInv /\ SamplesDelayed /\ [IndexNext]_indexVars /\ others \in Others
    BY <1>1 DEF CropInv
  <2> QED BY <1>1, <2>1, IndexInvKept, DelayedKept
<1>5. Croppable'
  BY <1>1, <1>3 DEF Croppable
<1>6. ReadTrak' = ReadTrak
  BY <1>3 DEF ReadTrak
<1>7. from \in Int /\ to \in Int
  BY CropAssumption
<1>8. ASSUME phase' = "stts" PROVE Asked'
  <2>1. ~ start' < 0 /\ ~ samples[size].pts <= Ticks(start')
    BY <1>2, <1>8
  <2>2. start' \in Nat
    BY <1>2, <1>7, <2>1
  <2>3. mp4_length' \in Nat
    BY <1>2, <1>7, <2>2
  <2>4. Ticks(start') \in Nat
    BY <2>2, TicksKnown
  <2>5. samples[size].pts \in Nat
    <3>1. IndexInv
      BY DEF CropInv
    <3>2. size \in Nat /\ \A n \in 0 .. size : samples[n] \in Sample
      BY <1>1, <3>1, SamplesKnown
    <3> QED BY <3>2 DEF Sample
  <2>6. samples[size].pts > Ticks(start')
    BY <2>1, <2>4, <2>5
  <2>7. Ticks(start)' = Ticks(start')
    BY DEF Ticks
  <2> QED BY <1>1, <1>3, <1>4, <1>5, <2>2, <2>3, <2>6, <2>7 DEF Asked
<1>9. phase' \in {"whole", "skipped", "stts"}
  BY <1>2
<1> QED BY <1>1, <1>3, <1>4, <1>6, <1>8, <1>9 DEF CropInv

\* Each table is cut when those before it are.
LEMMA TablesKeep ==
  ASSUME CropInv, UpdateStts \/ UpdateStss \/ UpdateCtts \/ UpdateStsc \/ UpdateStsz \/ UpdateStco
  PROVE  CropInv'
<1>1. CASE UpdateStts
  <2>1. phase = "stts" /\ mp4_trak = ReadTrak
    BY <1>1 DEF UpdateStts, CropInv
  <2>2. mp4_trak' = TimesCropped
    BY <1>1, <2>1 DEF UpdateStts, SttsCropped, TimesCropped
  <2> QED BY <1>1, <2>1, <2>2, NextTable DEF UpdateStts
<1>2. CASE UpdateStss
  <2>1. phase = "stss" /\ mp4_trak = TimesCropped
    BY <1>2 DEF UpdateStss, CropInv
  <2>2. mp4_trak' = MarksCropped
    BY <1>2, <2>1 DEF UpdateStss, StssCropped, MarksCropped
  <2> QED BY <1>2, <2>1, <2>2, NextTable DEF UpdateStss
<1>3. CASE UpdateCtts
  <2>1. phase = "ctts" /\ mp4_trak = MarksCropped
    BY <1>3 DEF UpdateCtts, CropInv
  <2>2. mp4_trak' = OffsetsCropped
    BY <1>3, <2>1 DEF UpdateCtts, CttsCropped, OffsetsCropped
  <2> QED BY <1>3, <2>1, <2>2, NextTable DEF UpdateCtts
<1>4. CASE UpdateStsc
  <2>1. phase = "stsc" /\ mp4_trak = OffsetsCropped
    BY <1>4 DEF UpdateStsc, CropInv
  <2>2. mp4_trak' = MapCropped
    BY <1>4, <2>1 DEF UpdateStsc, StscCropped, ShiftedMap, MapCropped
  <2> QED BY <1>4, <2>1, <2>2, NextTable DEF UpdateStsc
<1>5. CASE UpdateStsz
  <2>1. phase = "stsz" /\ mp4_trak = MapCropped
    BY <1>5 DEF UpdateStsz, CropInv
  <2>2. mp4_trak' = SizesCropped
    BY <1>5, <2>1 DEF UpdateStsz, StszCropped, SizesCropped
  <2> QED BY <1>5, <2>1, <2>2, NextTable DEF UpdateStsz
<1>6. CASE UpdateStco
  <2>1. phase = "stco" /\ mp4_trak = SizesCropped
    BY <1>6 DEF UpdateStco, CropInv
  <2>2. mp4_trak' = PlacesCropped
    BY <1>6, <2>1 DEF UpdateStco, StcoCropped, PlacesCropped
  <2> QED BY <1>6, <2>1, <2>2, NextTable DEF UpdateStco
<1> QED BY <1>1, <1>2, <1>3, <1>4, <1>5, <1>6

\* So all steps keep the invariant.
LEMMA CropInvKept == CropInv /\ [CropNext]_<<indexVars, cropvars>> => CropInv'
<1> SUFFICES ASSUME CropInv, [CropNext]_<<indexVars, cropvars>> PROVE CropInv'
  OBVIOUS
<1>1. CASE Index
  <2>1. pc # "done"
    BY <1>1, IndexDone DEF Index
  <2>2. phase = "index"
    BY <2>1 DEF CropInv
  <2>3. phase' = "index" /\ others' = others
    BY <1>1, <2>2 DEF Index, cropvars
  <2>4. IndexInv' /\ SamplesDelayed'
    <3>1. IndexInv /\ SamplesDelayed /\ [IndexNext]_indexVars
      BY <1>1 DEF Index, CropInv
    <3> QED BY <3>1, IndexInvKept, DelayedKept
  <2> QED BY <2>3, <2>4 DEF CropInv
<1>2. CASE Request
  BY <1>2, RequestKeeps
<1>3. CASE UpdateStts \/ UpdateStss \/ UpdateCtts \/ UpdateStsc \/ UpdateStsz \/ UpdateStco
  BY <1>3, TablesKeep
<1>4. ASSUME UNCHANGED <<indexVars, start, mp4_length, others>>,
             phase \notin {"index", "whole", "skipped"},
             phase' \in {"error", "adjust", "sent"}, Extended(PlacesCropped)',
             phase' \in {"error", "adjust"} => mp4_trak' = PlacesCropped,
             phase' = "error" => start_offset' > MdatEnd,
             phase' = "sent" => adjustment' = moov_size' + 8 - start_offset'
                                /\ mp4_trak' = Moved(PlacesCropped, adjustment')
      PROVE  CropInv'
  <2>1. UNCHANGED <<indexVars, start, mp4_length>> /\ pc' = pc /\ others' = others
    BY <1>4 DEF indexVars
  <2>2. Asked /\ others \in Others
    BY <1>4 DEF CropInv
  <2>3. Asked'
    BY <2>1, <2>2, AskedKept
  <2>4. IndexInv' /\ SamplesDelayed' /\ pc' = "done" /\ (others \in Others)'
    BY <2>1, <2>2, <2>3 DEF Asked
  <2>5. PlacesCropped' = PlacesCropped
    BY <2>1, StagesKept
  <2>6. Moved(PlacesCropped, adjustment)' = Moved(PlacesCropped, adjustment')
    BY <2>5 DEF Moved
  <2> QED BY <1>4, <2>3, <2>4, <2>5, <2>6 DEF CropInv
<1>5. CASE Extents
  <2>1. phase = "offsets" /\ mp4_trak = PlacesCropped /\ others \in Others
    BY <1>5 DEF Extents, CropInv
  <2>2. UNCHANGED <<indexVars, start, mp4_length, others>> /\ mp4_trak' = mp4_trak
    BY <1>5 DEF Extents
  <2>3. PlacesCropped' = PlacesCropped
    BY <2>2, StagesKept
  <2>4. Extended(PlacesCropped)'
    <3>1. /\ start_offset' = Min({others.start_offset, mp4_trak.start_offset})
          /\ end_offset'   = Max({start_offset', others.end_offset, mp4_trak.end_offset})
          /\ moov_size' = HeadSize + mp4_trak.size
      BY <1>5 DEF Extents
    <3> QED BY <2>1, <2>2, <2>3, <3>1 DEF Extended
  <2>5. phase' = IF start_offset' > MdatEnd THEN "error" ELSE "adjust"
    BY <1>5 DEF Extents
  <2> QED BY <1>4, <2>1, <2>2, <2>4, <2>5
<1>6. CASE Adjust
  <2>1. phase = "adjust" /\ mp4_trak = PlacesCropped /\ Extended(PlacesCropped)
    BY <1>6 DEF Adjust, CropInv
  <2>2. /\ UNCHANGED <<indexVars, start, mp4_length, others>> /\ phase' = "sent"
        /\ UNCHANGED <<start_offset, end_offset, moov_size>>
        /\ adjustment' = moov_size + 8 - start_offset
        /\ mp4_trak' = Moved(PlacesCropped, adjustment')
    BY <1>6, <2>1 DEF Adjust, Moved
  <2>3. PlacesCropped' = PlacesCropped
    BY <2>2, StagesKept
  <2>4. Extended(PlacesCropped)'
    BY <2>1, <2>2, <2>3 DEF Extended
  <2> QED BY <1>4, <2>1, <2>2, <2>4
<1>7. CASE UNCHANGED <<indexVars, cropvars>>
  <2>1. UNCHANGED <<indexVars, start, mp4_length>> /\ pc' = pc
    BY <1>7 DEF indexVars, cropvars
  <2>2. /\ others' = others /\ phase' = phase /\ mp4_trak' = mp4_trak /\ start_offset' = start_offset
        /\ end_offset' = end_offset /\ moov_size' = moov_size /\ adjustment' = adjustment
    BY <1>7 DEF cropvars
  <2>3. Asked => Asked'
    BY <2>1, AskedKept
  <2>4. IndexInv' /\ SamplesDelayed'
    <3>1. IndexInv /\ SamplesDelayed /\ [IndexNext]_indexVars
      BY <2>1 DEF CropInv
    <3> QED BY <3>1, IndexInvKept, DelayedKept
  <2>5. /\ ReadTrak' = ReadTrak /\ TimesCropped' = TimesCropped /\ MarksCropped' = MarksCropped
        /\ OffsetsCropped' = OffsetsCropped /\ MapCropped' = MapCropped
        /\ SizesCropped' = SizesCropped /\ PlacesCropped' = PlacesCropped
    BY <2>1, StagesKept
  <2>6. Extended(PlacesCropped) => Extended(PlacesCropped)'
    BY <2>2, <2>5 DEF Extended
  <2>7. Moved(PlacesCropped, adjustment)' = Moved(PlacesCropped, adjustment)
    BY <2>2, <2>5 DEF Moved
  <2> QED BY <2>1, <2>2, <2>3, <2>4, <2>5, <2>6, <2>7 DEF CropInv
<1> QED BY <1>1, <1>2, <1>3, <1>5, <1>6, <1>7 DEF CropNext

\* Every request leaves the tables as the phases say.
THEOREM CropIsMade == CropSpec => []CropInv
<1> QED BY InitCropInv, CropInvKept, PTL DEF CropSpec

\* What is sent has all samples of the range.
LEMMA InvCrops == CropInv => CropsExactly
<1> SUFFICES ASSUME CropInv PROVE CropsExactly
  OBVIOUS
<1>1. ASSUME phase = "error" PROVE EndSample = FirstSample \/ samples[FirstSample].pos > MdatEnd
  <2>1. Asked /\ Extended(PlacesCropped) /\ start_offset > MdatEnd
    BY <1>1 DEF CropInv
  <2>2. PICK sc, m : TablesSent(PlacesCropped, sc, m) /\ PlacesKept(PlacesCropped, sc, m)
    BY <2>1, PlacesStage
  <2>3. PICK y : y = PlacesCropped
    OBVIOUS
  <2>4. start_offset \in Nat /\ start_offset <= y.start_offset
    BY <2>1, <2>2, <2>3, ExtendedKnown
  <2>5. /\ m = 0 => EndSample = FirstSample
        /\ m # 0 => y.start_offset = samples[FirstSample].pos
        /\ y.start_offset \in Nat
    BY <2>1, <2>2, <2>3, BeginsAtFirst
  <2>6. MdatEnd \in Nat
    BY CropAssumption
  <2>7. y.start_offset > MdatEnd
    BY <2>1, <2>4, <2>5, <2>6
  <2> QED BY <2>5, <2>7
<1>2. ASSUME phase = "sent" PROVE SentExactly
  <2>1. Asked /\ Extended(PlacesCropped) /\ mp4_trak = Moved(PlacesCropped, adjustment)
        /\ adjustment = moov_size + 8 - start_offset
    BY <1>2 DEF CropInv
  <2>2. PICK sc, m : TablesSent(PlacesCropped, sc, m) /\ PlacesKept(PlacesCropped, sc, m)
    BY <2>1, PlacesStage
  <2>3. PICK y : y = PlacesCropped
    OBVIOUS
  <2>4. start_offset \in Nat /\ moov_size \in Nat
    BY <2>1, <2>2, <2>3, ExtendedKnown
  <2>5. adjustment \in Int
    BY <2>1, <2>4
  <2> QED BY <2>1, <2>2, <2>3, <2>5, SentIsExact
<1> QED BY <1>1, <1>2 DEF CropsExactly, SentExactly

\* The tables that are sent describe exactly the samples that are asked for, and only a range
\* without any, or behind mdat, is refused.
THEOREM CropIsExact == CropSpec => []CropsExactly
<1> QED BY CropIsMade, InvCrops, PTL

\* And its bytes.
LEMMA InvFollow == CropInv => BytesFollow
<1> SUFFICES ASSUME CropInv, phase = "sent", Ordered, samples[size].pos <= MdatEnd, ~ EndsWhereItBegins
             PROVE  \A k \in DOMAIN SentPlaces :
                      LET old == samples[FirstSample + k - 1]
                      IN  /\ SentPlaces[k] - SentHead + start_offset = old.pos
                          /\ old.pos >= start_offset /\ old.pos + old.size <= end_offset
  BY DEF BytesFollow
<1>1. Asked /\ Extended(PlacesCropped) /\ mp4_trak = Moved(PlacesCropped, adjustment)
      /\ adjustment = moov_size + 8 - start_offset
  BY DEF CropInv
<1>2. PICK sc, m : TablesSent(PlacesCropped, sc, m) /\ PlacesKept(PlacesCropped, sc, m)
  BY <1>1, PlacesStage
<1> QED BY <1>1, <1>2, SentFollow

\* And their bytes are where these tables say.
THEOREM CropBytesFollow == CropSpec => []BytesFollow
<1> QED BY CropIsMade, InvFollow, PTL
=============================================================================
