------------------------------ MODULE Playlist ------------------------------
(***************************************************************************)
(* mp4_create_m3u8 (src/output_m3u8.h): the loop that writes the media     *)
(* playlist.  It walks the samples of the first track once, and writes an  *)
(* entry whenever it stands on a sync sample, or on the end sample, and    *)
(* the time since the last cut is long enough.                             *)
(*                                                                         *)
(* The loop variables keep the code's names: cur and prev are pointers     *)
(* into samples_, here sample numbers; i counts the sync samples passed;   *)
(* prev_i is the number the next entry is named by.                        *)
(***************************************************************************)
EXTENDS Segmentation

CONSTANTS
  Traks,     \* the tracks a file may have as its first one
  Lengths    \* the values of conf->length

ASSUME TraksAssumption   == \A t \in Traks : IsTrak(t)
ASSUME LengthsAssumption == Lengths \subseteq Nat

VARIABLES trak, length, cur, prev, i, prev_i, entries

loop == <<cur, prev, i, prev_i, entries>>
vars == <<trak, length, cur, prev, i, prev_i, entries>>

\* One past the end sample: the value of cur that stops the loop.
last == trak.size + 1

Init ==
  /\ trak \in Traks
  /\ length \in Lengths
  /\ cur = 0 /\ prev = 0
  /\ i = 0 /\ prev_i = 0
  /\ entries = <<>>

\* A sample that is no sync sample is passed over.
SkipSample ==
  /\ cur # last
  /\ ~ Smooth(trak, cur)
  /\ cur' = cur + 1
  /\ UNCHANGED <<trak, length, prev, i, prev_i, entries>>

CutHere ==
  /\ prev # cur
  /\ LongEnough(trak, prev, cur, length) \/ cur + 1 = last

\* A sync sample that is the last cut, or too near to it, is only counted.
PassSync ==
  /\ cur # last
  /\ Smooth(trak, cur)
  /\ ~ CutHere
  /\ i' = i + 1
  /\ cur' = cur + 1
  /\ UNCHANGED <<trak, length, prev, prev_i, entries>>

\* Mutant of CutSegment: ++i comes before prev_i = i.
CutSegmentCountsFirst ==
  /\ cur # last
  /\ Smooth(trak, cur)
  /\ CutHere
  /\ entries' = Append(entries, [number |-> prev_i, from |-> prev, to |-> cur])
  /\ prev' = cur
  /\ i' = i + 1
  /\ prev_i' = i'
  /\ cur' = cur + 1
  /\ UNCHANGED <<trak, length>>

\* An entry is written for the samples from prev up to cur.
CutSegment ==
  /\ cur # last
  /\ Smooth(trak, cur)
  /\ CutHere
  /\ entries' = Append(entries, [number |-> prev_i, from |-> prev, to |-> cur])
  /\ prev' = cur
  /\ prev_i' = i
  /\ i' = i + 1
  /\ cur' = cur + 1
  /\ UNCHANGED <<trak, length>>

Next == SkipSample \/ PassSync \/ CutSegment

Spec == Init /\ [][Next]_vars /\ WF_vars(Next)

Done == cur = last

-----------------------------------------------------------------------------
\* Each variable has its type, and the loop never walks past the end sample.
TypeOK ==
  /\ IsTrak(trak) /\ length \in Nat
  /\ cur \in 0 .. last
  /\ prev \in 0 .. trak.size
  /\ i \in Nat /\ prev_i \in Nat
  /\ entries \in Seq([number : Nat, from : 0 .. trak.size, to : 0 .. trak.size])

\* The counters i and prev_i count iterations of the loop; what they are used
\* for is to name the sync samples cur and prev stand on.
CountersAreRanks ==
  /\ cur # last => i = Rank(trak, cur)
  /\ prev_i = Rank(trak, prev)

\* No sync sample between the last cut and cur was far enough to cut at.
NoCutMissed ==
  \A s \in prev + 1 .. trak.size :
    s < cur /\ Smooth(trak, s) => s # trak.size /\ ~ LongEnough(trak, prev, s, length)

\* The last cut is where the last entry ends; cur has moved on since.
PrevIsLastCut ==
  IF entries = <<>> THEN prev = 0
  ELSE prev = entries[Len(entries)].to /\ Smooth(trak, prev) /\ prev < cur

\* The entries leave no gap, do not overlap, and none of them is empty.
EntriesTile ==
  \A k \in 1 .. Len(entries) :
    /\ entries[k].from = IF k = 1 THEN 0 ELSE entries[k - 1].to
    /\ entries[k].from < entries[k].to
    /\ Smooth(trak, entries[k].to)

\* Each entry names its segment by the number of the sync sample it starts at,
\* and ends at the first sync sample that is far enough away.
EntriesAreCuts ==
  \A k \in 1 .. Len(entries) :
    /\ entries[k].number = Rank(trak, entries[k].from)
    /\ entries[k].to = Cut(trak, entries[k].from, length)

\* mp4_create_m3u8 decides where an entry starts and what number it gets with
\* prev and prev_i, which it carries along; output_ts will find the segment
\* again from the number alone.  So at every moment of the loop the entries
\* written are the cuts of the track, they follow one another, and the loop
\* variables describe the one to come.
LoopInvariant ==
  /\ CountersAreRanks
  /\ NoCutMissed
  /\ PrevIsLastCut
  /\ EntriesTile
  /\ EntriesAreCuts

\* Mutant of TargetDuration: the bare segment length.
TargetDurationBare == length

\* #EXT-X-TARGETDURATION is length + 3 (output_m3u8.h).
TargetDuration == length + 3

\* No two neighbouring points where the loop could cut are further apart.
SyncGapsWithin(seconds) ==
  \A a, b \in 0 .. trak.size :
    /\ a < b /\ (a = 0 \/ Smooth(trak, a)) /\ Smooth(trak, b)
    /\ \A s \in a + 1 .. b - 1 : ~ Smooth(trak, s)
    => trak.pts[b] - trak.pts[a] <= seconds * trak.scale

\* No #EXTINF (which includes the half millisecond) exceeds the
\* #EXT-X-TARGETDURATION by more than that half millisecond, provided that
\* the sync samples are at most 3 seconds apart.
DurationsWithinTarget ==
  SyncGapsWithin(3) =>
    \A k \in 1 .. Len(entries) :
      trak.pts[entries[k].to] - trak.pts[entries[k].from]
        <= TargetDuration * trak.scale

\* The loop keeps the promise of a playlist: every entry it writes extends
\* the tiling of the track by one segment, and nothing else ever changes it.
Promise == INSTANCE Tiling WITH tiles <- entries
ImplementsTiling == Promise!Spec
=============================================================================
