---------------------------- MODULE SampleIndex -----------------------------
(***************************************************************************)
(* trak_build_index (mp4_reader.h): the sample tables of a track, which    *)
(* are run length coded, become an array of samples with their times,      *)
(* sizes and places in the file; and the bytes output_ts reads for the     *)
(* samples of a segment.  One step is one entry of a table, or one chunk.  *)
(*                                                                         *)
(* Samples and chunks are counted from 0, as in the code; so are the first *)
(* chunks in stsc, from which stsc_read has taken 1.                       *)
(***************************************************************************)
EXTENDS Media, SequencesExt

CONSTANT Tables        \* the sample tables that may be read

\* A table of stsc, stts or ctts is a sequence of its entries.
Typed(x) ==
  /\ x.stco \in Seq(Nat)
  /\ x.stsc \in Seq([chunk : Nat, samples : Nat])
  /\ x.stsz.sample_size \in Nat /\ x.stsz.sizes \in Seq(Nat)
  /\ x.stts \in Seq([count : Nat, duration : Nat])
  /\ x.ctts \in Seq([count : Nat, offset : Nat])
  /\ x.stss \subseteq Nat \ {0} /\ IsFiniteSet(x.stss)

\* Where the tables contradict each other the code reads and writes what it
\* has not allocated: so the chunk map starts with the first chunk, and goes on
\* to later ones.  (Without chunks there is no index.)
Consistent(x) ==
  /\ x.stco # <<>> /\ x.stsc # <<>>
  /\ x.stsc[1].chunk = 0
  /\ \A e \in 2 .. Len(x.stsc) : x.stsc[e - 1].chunk < x.stsc[e].chunk
  /\ x.stsc[Len(x.stsc)].chunk < Len(x.stco)

ASSUME TablesAssumption == \A x \in Tables : Typed(x) /\ Consistent(x)

VARIABLES
  t,           \* the tables
  chunks,      \* chunks_: pos, size (samples in it) and first sample
  samples,     \* samples_, with one extra for the end
  size,        \* samples_size_
  row, bound,  \* i and last, of the loop over stsc
  j, s,        \* entry or chunk, and sample, of the other loops
  pts, cto,
  pc

indexVars == <<t, chunks, samples, size, row, bound, j, s, pts, cto, pc>>

Chunks == 0 .. Len(t.stco) - 1

IndexInit ==
  /\ t \in Tables
  /\ chunks = [c \in Chunks |-> [pos |-> t.stco[c + 1], size |-> 0, sample |-> 0]]
  /\ samples = <<>> /\ size = 0
  /\ row = Len(t.stsc) /\ bound = Len(t.stco)
  /\ j = 0 /\ s = 0 /\ pts = 0 /\ cto = 0
  /\ pc = "map"

\* Mutant of MapChunks: the entry does not reach up to the one behind it.
MapChunksOne ==
  /\ pc = "map" /\ row > 0
  /\ row' = row - 1 /\ bound' = t.stsc[row].chunk
  /\ chunks' = [chunks EXCEPT ![t.stsc[row].chunk].size = t.stsc[row].samples]
  /\ UNCHANGED <<t, samples, size, j, s, pts, cto, pc>>

\* The chunk map, from its last entry back to its first: each is good for the
\* chunks from its own up to the one where the entry behind it begins (bound).
MapChunks ==
  /\ pc = "map" /\ row > 0
  /\ row' = row - 1 /\ bound' = t.stsc[row].chunk
  /\ chunks' = [c \in Chunks |->
                  IF t.stsc[row].chunk <= c /\ c < bound
                  THEN [chunks[c] EXCEPT !.size = t.stsc[row].samples] ELSE chunks[c]]
  /\ UNCHANGED <<t, samples, size, j, s, pts, cto, pc>>

Mapped ==
  /\ pc = "map" /\ row = 0
  /\ j' = 0 /\ s' = 0 /\ pc' = "number"
  /\ UNCHANGED <<t, chunks, samples, size, row, bound, pts, cto>>

NumberChunk ==
  /\ pc = "number" /\ j \in Chunks
  /\ chunks' = [chunks EXCEPT ![j].sample = s]
  /\ s' = s + chunks[j].size /\ j' = j + 1
  /\ UNCHANGED <<t, samples, size, row, bound, pts, cto, pc>>

\* The number of samples is that of their sizes, or, when all have the same
\* one, that of the chunk map.  calloc: everything else is 0 as yet.
Sizes ==
  /\ pc = "number" /\ j \notin Chunks
  /\ size' = IF t.stsz.sample_size = 0 THEN Len(t.stsz.sizes) ELSE s
  /\ samples' = [n \in 0 .. size' |->
       [pts |-> 0, cto |-> 0, pos |-> 0, is_smooth_ss |-> FALSE,
        size |-> IF n = size' THEN 0
                 ELSE IF t.stsz.sample_size = 0 THEN t.stsz.sizes[n + 1]
                 ELSE t.stsz.sample_size]]
  /\ j' = 1 /\ s' = 0 /\ pts' = 0 /\ pc' = "times"
  /\ UNCHANGED <<t, chunks, row, bound, cto>>

Times ==
  /\ pc = "times" /\ j \in DOMAIN t.stts
  /\ LET run == t.stts[j]
     IN  /\ samples' = [n \in DOMAIN samples |->
              IF s <= n /\ n < s + run.count
              THEN [samples[n] EXCEPT !.pts = pts + (n - s) * run.duration] ELSE samples[n]]
         /\ s' = s + run.count /\ pts' = pts + run.count * run.duration
  /\ j' = j + 1
  /\ UNCHANGED <<t, chunks, size, row, bound, cto, pc>>

\* Mutant of EndTime: the end has no time.
EndTimeless ==
  /\ pc = "times" /\ j \notin DOMAIN t.stts
  /\ j' = 1 /\ s' = 0 /\ cto' = 0 /\ pc' = "offsets"
  /\ UNCHANGED <<t, chunks, samples, size, row, bound, pts>>

EndTime ==
  /\ pc = "times" /\ j \notin DOMAIN t.stts
  /\ samples' = [samples EXCEPT ![s].pts = pts]
  /\ j' = 1 /\ s' = 0 /\ cto' = 0 /\ pc' = "offsets"
  /\ UNCHANGED <<t, chunks, size, row, bound, pts>>

\* Composition offsets; those that are left over are passed over, but the
\* last of them is that of the end.
Offsets ==
  /\ pc = "offsets" /\ j \in DOMAIN t.ctts
  /\ LET run  == t.ctts[j]
         upto == IF s + run.count > size THEN size ELSE s + run.count
     IN  /\ samples' = [n \in DOMAIN samples |->
              IF s <= n /\ n < upto THEN [samples[n] EXCEPT !.cto = run.offset] ELSE samples[n]]
         /\ s' = upto /\ cto' = run.offset
  /\ j' = j + 1
  /\ UNCHANGED <<t, chunks, size, row, bound, pts, pc>>

\* (When there is no ctts all offsets stay 0.)
EndOffset ==
  /\ pc = "offsets" /\ j \notin DOMAIN t.ctts
  /\ samples' = [samples EXCEPT ![s].cto = cto]
  /\ j' = 0 /\ s' = 0 /\ pc' = "places"
  /\ UNCHANGED <<t, chunks, size, row, bound, pts, cto>>

\* Bytes of the samples from a up to b.
BytesOf(a, b) ==
  LET sum[n \in a .. b] == IF n = a THEN 0 ELSE sum[n - 1] + samples[n - 1].size
  IN  IF b < a THEN 0 ELSE sum[b]

\* Samples chunk j has room for, as long as there are any.
PlacedUpTo == IF s + chunks[j].size > size THEN size ELSE s + chunks[j].size

Places ==
  /\ pc = "places" /\ j \in Chunks
  /\ samples' = [n \in DOMAIN samples |->
       IF s <= n /\ n < PlacedUpTo
       THEN [samples[n] EXCEPT !.pos = chunks[j].pos + BytesOf(s, n)] ELSE samples[n]]
  /\ s' = PlacedUpTo /\ j' = j + 1
  /\ UNCHANGED <<t, chunks, size, row, bound, pts, cto, pc>>

\* Mutant of EndPlace: the end lies where the last sample does.
EndPlaceEarly ==
  /\ pc = "places" /\ j \notin Chunks
  /\ samples' = [samples EXCEPT
       ![s].pos = IF s = 0 THEN chunks[j - 1].pos ELSE samples[s - 1].pos]
  /\ pc' = "sync"
  /\ UNCHANGED <<t, chunks, size, row, bound, j, s, pts, cto>>

\* pos is that behind the last sample placed, or of an empty last chunk.
EndPlace ==
  /\ pc = "places" /\ j \notin Chunks
  /\ LET from == chunks[j - 1].sample
     IN  samples' = [samples EXCEPT
           ![s].pos = chunks[j - 1].pos + BytesOf(from, s)]
  /\ pc' = "sync"
  /\ UNCHANGED <<t, chunks, size, row, bound, j, s, pts, cto>>

\* The markers, and that of the end.
Sync ==
  /\ pc = "sync"
  /\ samples' = [n \in DOMAIN samples |->
       IF n = size \/ n + 1 \in t.stss THEN [samples[n] EXCEPT !.is_smooth_ss = TRUE]
       ELSE samples[n]]
  /\ pc' = "done"
  /\ UNCHANGED <<t, chunks, size, row, bound, j, s, pts, cto>>

IndexNext ==
  \/ MapChunks \/ Mapped \/ NumberChunk \/ Sizes \/ Times \/ EndTime
  \/ Offsets \/ EndOffset \/ Places \/ EndPlace \/ Sync

IndexSpec == IndexInit /\ [][IndexNext]_indexVars

-----------------------------------------------------------------------------
\* The bytes output_ts reads for the samples from a up to b.
SegmentRange(a, b) == samples[a].pos .. samples[b].pos - 1

\* Every entry of the chunk map is good for its own chunks, and every sample
\* lies in its chunk, behind those that come before it there.
PlacedInChunks ==
  pc = "done" =>
    LET entry(c)  == CHOOSE e \in DOMAIN t.stsc :
                       /\ t.stsc[e].chunk <= c
                       /\ \A d \in DOMAIN t.stsc : t.stsc[d].chunk <= c => d <= e
        before[c \in 0 .. Len(t.stco)] ==
          IF c = 0 THEN 0 ELSE before[c - 1] + t.stsc[entry(c - 1)].samples
    IN  \A n \in 0 .. size - 1 : \A c \in Chunks :
          before[c] <= n /\ n < before[c + 1] =>
            samples[n].pos = t.stco[c + 1] + BytesOf(before[c], n)

\* One duration per sample.
Durations ==
  FlattenSeq([e \in DOMAIN t.stts |-> [n \in 1 .. t.stts[e].count |-> t.stts[e].duration]])

\* When there is a time for each sample, decoding times and markers are those
\* Media computes.  Where no sample is listed as a sync sample none is marked but
\* the end; the comment at mp4_io.h:1223 has it that then all of them are.
AgreesWithMedia ==
  pc = "done" /\ Len(Durations) = size =>
    LET index  == TrakBuildIndex("vide", 1, Durations, t.stss)
        marked == {n \in 0 .. size : samples[n].is_smooth_ss}
    IN  /\ \A n \in 0 .. size : samples[n].pts = index.pts[n]
        /\ t.stss # {} => marked = {n \in 0 .. size : Smooth(index, n)}
        /\ t.stss = {} => marked = {size}

\* The chunks lie one behind the other, without overlap, and have all samples.
Ordered ==
  /\ chunks[Len(t.stco) - 1].sample + chunks[Len(t.stco) - 1].size = size
  /\ \A c \in 1 .. Len(t.stco) - 1 :
       chunks[c].pos >= chunks[c - 1].pos + BytesOf(chunks[c - 1].sample, chunks[c].sample)

\* The bytes read for a segment hold all of its samples.
RangeHoldsSamples ==
  pc = "done" /\ Ordered =>
    \A b \in 0 .. size : \A a \in 0 .. b - 1 : \A n \in a .. b - 1 :
      samples[n].pos .. samples[n].pos + samples[n].size - 1 \subseteq SegmentRange(a, b)
=============================================================================
