------------------------------ MODULE Mp4Crop -------------------------------
(***************************************************************************)
(* Pseudo streaming (mp4_module.h): an mp4 file from start up to end.  The *)
(* tables of a track are cropped one after the other to the samples in     *)
(* that range, the places of the chunks are moved by the size of the new   *)
(* head, and only the bytes between the first and the last sample follow.  *)
(*                                                                         *)
(* The tables are those trak_build_index reads, so that what this reader   *)
(* makes of them can be compared with the index of the other one: the      *)
(* index is built first (SampleIndex), then a request comes.  One track is *)
(* cropped; where the others begin and end is chosen (Others).  Chunks are *)
(* counted from 1 in stsc here, as in the file, and from 0 in start_chunk. *)
(***************************************************************************)
EXTENDS SampleIndex, RunLength

CONSTANTS
  timescale,             \* of the track, ticks in a second
  StartArgs, EndArgs,    \* the arguments start and end in ms, -1 if absent
  Others,                \* start_offset and end_offset of the other tracks
  MdatEnd, FileEnd,      \* mdat_data.buf->file_last, mp4->end
  HeadSize               \* ftyp and what is not cropped in moov

\* Numbers are unsigned, but for arguments that are absent.
ASSUME CropAssumption ==
  /\ timescale \in Nat /\ StartArgs \subseteq Int /\ EndArgs \subseteq Int
  /\ Others \subseteq [start_offset : Nat, end_offset : Nat]
  /\ MdatEnd \in Nat /\ FileEnd \in Nat /\ MdatEnd < FileEnd /\ HeadSize \in Nat

VARIABLES
  start, mp4_length,     \* of mp4: start, and length (0: up to the end)
  mp4_trak,              \* trak, as it has been cropped so far
  others,
  start_offset, end_offset,   \* of the bytes sent from mdat
  moov_size, adjustment,
  phase                  \* of the request

cropvars == <<start, mp4_length, mp4_trak, others, start_offset, end_offset, moov_size,
              adjustment, phase>>

Ticks(ms) == (ms * timescale) \div 1000

\* For crop_stsc_data: how many samples an entry stands for.
NextChunk(x, e) == IF e < Len(x.stsc) THEN x.stsc[e + 1].chunk ELSE x.chunks + 1
InEntry(x, e)   == (NextChunk(x, e) - x.stsc[e].chunk) * x.stsc[e].samples
InEntries(x)    == [e \in DOMAIN x.stsc |-> InEntry(x, e)]

\* What is worth cropping: there is a duration, a size and a chunk for every
\* sample, and no chunk without any.  (A common size of all samples is not
\* supported: "TODO : chunk samples".)
Croppable ==
  /\ t.stsz.sample_size = 0 /\ size > 0
  /\ \A e \in DOMAIN t.stsc : t.stsc[e].samples > 0
  /\ chunks[Len(t.stco) - 1].sample + chunks[Len(t.stco) - 1].size = size
  /\ Sum(Counts(t.stts), Len(t.stts)) = size

\* The atoms of the track, as they are read.
ReadTrak ==
  [stts |-> t.stts, stss |-> t.stss, ctts |-> t.ctts,
   stsc |-> [e \in DOMAIN t.stsc |-> [t.stsc[e] EXCEPT !.chunk = @ + 1]],
   stsc_start |-> <<>>, stsc_end |-> <<>>, sample_to_chunk_entries |-> Len(t.stsc),
   stsz |-> t.stsz.sizes, stco |-> t.stco, chunks |-> Len(t.stco), size |-> 0,
   start_sample |-> 0, end_sample |-> 0, start_chunk |-> 0, end_chunk |-> 0,
   start_chunk_samples |-> 0, end_chunk_samples |-> 0,
   start_chunk_samples_size |-> 0, end_chunk_samples_size |-> 0,
   start_offset |-> 0, end_offset |-> 0]

CropInit ==
  /\ IndexInit
  /\ start = 0 /\ mp4_length = 0 /\ mp4_trak = <<>>
  /\ others \in Others
  /\ start_offset = FileEnd /\ end_offset = 0 /\ moov_size = 0 /\ adjustment = 0
  /\ phase = "index"

Index == IndexNext /\ UNCHANGED cropvars

\* The whole file is sent when no part is asked for, and that comes first in
\* it (then it need not be rearranged); a track that ends before start is
\* skipped.
Request ==
  /\ pc = "done" /\ phase = "index" /\ Croppable
  /\ \E from \in StartArgs, to \in EndArgs, moov_first \in BOOLEAN :
       /\ start'  = IF from < 0 /\ to > 0 THEN 0 ELSE from
       /\ mp4_length' = IF to > 0 /\ to > start' THEN to - start' ELSE 0
       /\ phase'  = IF start' < 0 \/ (start' = 0 /\ mp4_length' = 0 /\ moov_first) THEN "whole"
                    ELSE IF samples[size].pts <= Ticks(start') THEN "skipped"
                    ELSE "stts"
  /\ mp4_trak' = ReadTrak
  /\ UNCHANGED <<indexVars, others, start_offset, end_offset, moov_size, adjustment>>

-----------------------------------------------------------------------------
(* crop_stts_data, crop_stss_data, crop_ctts_data                          *)

StartOfStts(x) ==
  LET e    == FirstBeyond(Spans(x.stts), Ticks(start))
      rest == (Ticks(start) - Sum(Spans(x.stts), e - 1)) \div x.stts[e].duration
  IN  [x EXCEPT !.stts = LeftCrop(x.stts, e, rest),
                !.start_sample = Sum(Counts(x.stts), e - 1) + rest]

\* No end, or one beyond the track, leaves the table as it is.
EndOfStts(x) ==
  LET e    == FirstBeyond(Spans(x.stts), Ticks(mp4_length))
      rest == (Ticks(mp4_length) - Sum(Spans(x.stts), e - 1)) \div x.stts[e].duration
  IN  IF mp4_length = 0 THEN x
      ELSE IF e > Len(x.stts)
      THEN [x EXCEPT !.end_sample = x.start_sample + Sum(Counts(x.stts), Len(x.stts))]
      ELSE [x EXCEPT !.stts = RightCrop(x.stts, e, rest),
                     !.end_sample = x.start_sample + Sum(Counts(x.stts), e - 1) + rest]

\* The size of an atom with a table.
Sized(x, head, entry, n) == [x EXCEPT !.size = @ + head + entry * n]

\* (A start behind all samples is an error, but then the track was skipped.)
UpdateStts ==
  /\ phase = "stts" /\ FirstBeyond(Spans(mp4_trak.stts), Ticks(start)) \in DOMAIN mp4_trak.stts
  /\ LET x == EndOfStts(StartOfStts(mp4_trak))
     IN  mp4_trak' = Sized(x, 16, 8, Len(x.stts))
  /\ phase' = "stss"
  /\ UNCHANGED <<indexVars, start, mp4_length, others, start_offset, end_offset, moov_size, adjustment>>

\* Mutant of CroppedStss: the numbers are not counted from the new start.
CroppedStssKept(x) ==
  {n \in x.stss : n >= x.start_sample + 1 /\ (mp4_length = 0 \/ n < x.end_sample + 1)}

\* (The table is in ascending order.)
CroppedStss(x) ==
  {n - x.start_sample :
     n \in {n \in x.stss : n >= x.start_sample + 1 /\ (mp4_length = 0 \/ n < x.end_sample + 1)}}

UpdateStss ==
  /\ phase = "stss"
  /\ mp4_trak' = IF mp4_trak.stss = {} THEN mp4_trak
                 ELSE LET x == [mp4_trak EXCEPT !.stss = CroppedStss(mp4_trak)]
                      IN  Sized(x, 16, 4, Cardinality(x.stss))
  /\ phase' = "ctts"
  /\ UNCHANGED <<indexVars, start, mp4_length, others, start_offset, end_offset, moov_size, adjustment>>

StartOfCtts(x) ==
  LET e    == FirstBeyond(Counts(x.ctts), x.start_sample)
      rest == x.start_sample - Sum(Counts(x.ctts), e - 1)
  IN  IF e > Len(x.ctts) THEN [x EXCEPT !.ctts = <<>>]
      ELSE [x EXCEPT !.ctts = LeftCrop(x.ctts, e, rest)]

EndOfCtts(x) ==
  LET n == x.end_sample - x.start_sample
      e == FirstBeyond(Counts(x.ctts), n)
  IN  IF mp4_length = 0 \/ e > Len(x.ctts) THEN x
      ELSE [x EXCEPT !.ctts = RightCrop(x.ctts, e, n - Sum(Counts(x.ctts), e - 1))]

UpdateCtts ==
  /\ phase = "ctts"
  /\ LET x == EndOfCtts(StartOfCtts(mp4_trak))
     IN  mp4_trak' = IF x.ctts = <<>> THEN x ELSE Sized(x, 16, 8, Len(x.ctts))
  /\ phase' = "stsc"
  /\ UNCHANGED <<indexVars, start, mp4_length, others, start_offset, end_offset, moov_size, adjustment>>

-----------------------------------------------------------------------------
(* crop_stsc_data                                                          *)

\* The entry sample n is in, or the last.
EntryOf(x, n) == Min({Len(x.stsc), FirstBeyond(InEntries(x), n)})
Within(x, n)  == n - Sum(InEntries(x), EntryOf(x, n) - 1)

\* When the range begins in the middle of a chunk, that one gets an entry of
\* its own, unless it is the only one of its entry.
StartOfStsc(x) ==
  LET e       == EntryOf(x, x.start_sample)
      run     == x.stsc[e]
      target  == run.chunk - 1 + Within(x, x.start_sample) \div run.samples
      skipped == Within(x, x.start_sample) % run.samples
      y == [x EXCEPT !.start_chunk = target, !.start_chunk_samples = skipped,
                     !.sample_to_chunk_entries = Len(x.stsc) - e + 1,
                     !.stsc = <<[run EXCEPT !.chunk = target + 1]>>
                              \o SubSeq(x.stsc, e + 1, Len(x.stsc))]
  IN  IF skipped = 0 THEN y
      ELSE IF NextChunk(x, e) - target = 2
      THEN [y EXCEPT !.stsc[1].samples = run.samples - skipped]
      ELSE [y EXCEPT !.stsc_start = <<[chunk |-> 1, samples |-> run.samples - skipped]>>,
                     !.stsc[1].chunk = target + 2,
                     !.sample_to_chunk_entries = @ + 1]

\* Of the samples wanted those of the first chunk are taken from its entry.
InStart(x) ==
  IF x.stsc_start = <<>> THEN 0
  ELSE Min({x.stsc_start[1].samples, x.end_sample - x.start_sample})

StartEntry(x) == [d \in DOMAIN x.stsc_start |-> [chunk |-> 1, samples |-> InStart(x)]]

\* When it ends in the middle of a chunk, so does that.
EndOfStsc(x) ==
  LET n      == x.end_sample - x.start_sample - InStart(x)
      e      == EntryOf(x, n)
      run    == x.stsc[e]
      target == run.chunk - 1 + Within(x, n) \div run.samples
      rest   == Within(x, n) % run.samples
      previous == IF e = 1 THEN 0 ELSE x.stsc[e - 1].samples
      left   == IF Within(x, n) = 0 THEN e - 1 ELSE e
      y == [x EXCEPT !.stsc = SubSeq(@, 1, left),
                     !.stsc_start = StartEntry(x),
                     !.sample_to_chunk_entries = @ - (Len(x.stsc) - left),
                     !.end_chunk = IF rest = 0 THEN target ELSE target + 1,
                     !.end_chunk_samples = IF rest # 0 THEN rest
                                           ELSE IF Within(x, n) = 0 THEN previous ELSE run.samples]
  IN  IF mp4_length = 0 THEN x
      ELSE IF rest = 0 THEN y
      ELSE IF target = run.chunk - 1
      THEN [y EXCEPT !.stsc[e].samples = rest]
      ELSE [y EXCEPT !.stsc_end = <<[chunk |-> y.end_chunk - x.start_chunk, samples |-> rest]>>,
                     !.sample_to_chunk_entries = @ + 1]

\* (For a croppable track neither end lies behind the last chunk.)
UpdateStsc ==
  /\ phase = "stsc"
  /\ LET x == EndOfStsc(StartOfStsc(mp4_trak))
         y == [x EXCEPT !.stsc = [e \in DOMAIN x.stsc |->
                                    [x.stsc[e] EXCEPT !.chunk = @ - x.start_chunk]]]
     IN  mp4_trak' = Sized(y, 16, 12, x.sample_to_chunk_entries)
  /\ phase' = "stsz"
  /\ UNCHANGED <<indexVars, start, mp4_length, others, start_offset, end_offset, moov_size, adjustment>>

-----------------------------------------------------------------------------
(* update_stsz_atom, update_stco_atom (and co64), process                  *)

\* The bytes of the samples numbered from up to to.
SizeOf(sizes, from, to) == Sum([d \in 1 .. to - from + 1 |-> sizes[from - 1 + d]], to - from + 1)

\* The sizes of the samples that are left out of the first chunk, and of
\* those that are sent of the last.
UpdateStsz ==
  /\ phase = "stsz"
  /\ LET first == mp4_trak.start_sample
         end   == IF mp4_length = 0 THEN Len(mp4_trak.stsz) ELSE mp4_trak.end_sample
         x == [mp4_trak EXCEPT
                 !.stsz = SubSeq(@, first + 1, end),
                 !.start_chunk_samples_size =
                    SizeOf(mp4_trak.stsz, first - mp4_trak.start_chunk_samples + 1, first),
                 !.end_chunk_samples_size =
                    IF mp4_length = 0 THEN 0
                    ELSE SizeOf(mp4_trak.stsz, end - mp4_trak.end_chunk_samples + 1, end)]
     IN  mp4_trak' = Sized(x, 20, 4, Len(x.stsz))
  /\ phase' = "stco"
  /\ UNCHANGED <<indexVars, start, mp4_length, others, start_offset, end_offset, moov_size, adjustment>>

\* Mutant of FirstPlace: the first chunk is sent from its beginning.
FirstPlaceOfChunk(x) == x.stco[x.start_chunk + 1]

FirstPlace(x) == x.stco[x.start_chunk + 1] + x.start_chunk_samples_size

UpdateStco ==
  /\ phase = "stco"
  /\ LET end  == IF mp4_length = 0 THEN mp4_trak.chunks ELSE mp4_trak.end_chunk
         stco == SubSeq([mp4_trak.stco EXCEPT ![mp4_trak.start_chunk + 1] = FirstPlace(mp4_trak)],
                        mp4_trak.start_chunk + 1, end)
         x == [mp4_trak EXCEPT
                 !.stco = stco,
                 !.start_offset = IF stco = <<>> THEN FileEnd ELSE FirstPlace(mp4_trak),
                 !.end_offset = IF stco = <<>> THEN 0
                                ELSE IF mp4_length = 0 THEN MdatEnd
                                ELSE stco[Len(stco)] + mp4_trak.end_chunk_samples_size]
     IN  mp4_trak' = Sized(x, 16, 4, Len(stco))
  /\ phase' = "offsets"
  /\ UNCHANGED <<indexVars, start, mp4_length, others, start_offset, end_offset, moov_size, adjustment>>

\* From the first byte any track wants to the last.
Extents ==
  /\ phase = "offsets"
  /\ start_offset' = Min({others.start_offset, mp4_trak.start_offset})
  /\ end_offset'   = Max({start_offset', others.end_offset, mp4_trak.end_offset})
  /\ moov_size' = HeadSize + mp4_trak.size
  /\ phase' = IF start_offset' > MdatEnd THEN "error" ELSE "adjust"
  /\ UNCHANGED <<indexVars, start, mp4_length, mp4_trak, others, adjustment>>

\* The places of the chunks are those in the answer.
Adjust ==
  /\ phase = "adjust"
  /\ adjustment' = moov_size + 8 - start_offset
  /\ mp4_trak' = [mp4_trak EXCEPT !.stco = [c \in DOMAIN @ |-> @[c] + adjustment']]
  /\ phase' = "sent"
  /\ UNCHANGED <<indexVars, start, mp4_length, others, start_offset, end_offset, moov_size>>

CropNext ==
  \/ Index \/ Request \/ UpdateStts \/ UpdateStss \/ UpdateCtts \/ UpdateStsc
  \/ UpdateStsz \/ UpdateStco \/ Extents \/ Adjust

CropSpec == CropInit /\ [][CropNext]_<<indexVars, cropvars>>

-----------------------------------------------------------------------------
\* The chunk map that is sent, and how many samples chunk c has by it.
SentStsc == mp4_trak.stsc_start \o mp4_trak.stsc \o mp4_trak.stsc_end
InChunk(c) ==
  SentStsc[Max({e \in DOMAIN SentStsc : SentStsc[e].chunk <= c})].samples

\* The places of the samples in the answer, by the tables that are sent.
SentPlaces ==
  LET counts == [c \in DOMAIN mp4_trak.stco |-> InChunk(c)]
  IN  FlattenSeq([c \in DOMAIN mp4_trak.stco |->
        [n \in 1 .. counts[c] |->
           mp4_trak.stco[c] + SizeOf(mp4_trak.stsz, Sum(counts, c - 1) + 1, Sum(counts, c - 1) + n - 1)]])

\* The samples that are to be sent: from the one at start to the one before
\* that at which length has passed.
FirstSample == Max({n \in 0 .. size - 1 : samples[n].pts <= Ticks(start)})
EndSample ==
  IF mp4_length = 0 THEN size
  ELSE Max({n \in 0 .. size : n >= FirstSample
                /\ samples[n].pts - samples[FirstSample].pts <= Ticks(mp4_length)})

\* The tables that are sent describe these samples, with the times, sizes,
\* markers and (moved) places they have in the index that the other reader
\* has built.  (When ctts has too few entries, the other reader takes the last
\* of them once more.)  Only a range without any sample is refused, or one behind mdat.
CropsExactly ==
  /\ phase = "error" => EndSample = FirstSample \/ samples[FirstSample].pos > MdatEnd
  /\ phase = "sent" =>
       LET n       == EndSample - FirstSample
           timed   == Expanded(mp4_trak.stts)
           delayed == Expanded(mp4_trak.ctts)
       IN  /\ Len(timed) = n /\ Len(mp4_trak.stsz) = n /\ Len(SentPlaces) = n
           /\ \A k \in 1 .. n :
                LET old == samples[FirstSample + k - 1]
                IN  /\ timed[k].duration = samples[FirstSample + k].pts - old.pts
                    /\ mp4_trak.stsz[k] = old.size
                    /\ Len(t.ctts) = 0 \/ Sum(Counts(t.ctts), Len(t.ctts)) >= size =>
                         old.cto = IF k \in DOMAIN delayed THEN delayed[k].offset ELSE 0
                    /\ old.is_smooth_ss <=> k \in mp4_trak.stss
                    /\ SentPlaces[k] - adjustment = old.pos

\* The bytes of what is sent in front of the samples: the atoms of moov, and
\* the header of mdat.
SentHead ==
  HeadSize + 8 + 16 + 8 * Len(mp4_trak.stts)
  + (IF t.stss = {} THEN 0 ELSE 16 + 4 * Cardinality(mp4_trak.stss))
  + (IF mp4_trak.ctts = <<>> THEN 0 ELSE 16 + 8 * Len(mp4_trak.ctts))
  + 16 + 12 * Len(SentStsc) + 20 + 4 * Len(mp4_trak.stsz) + 16 + 4 * Len(mp4_trak.stco)

\* The range begins in the middle of a chunk, which is not the only one of its
\* entry, and ends in that chunk: the code takes no samples to be wanted of
\* it, and where it ends to be where it begins.
EndsWhereItBegins == mp4_trak.stsc_start # <<>> /\ mp4_trak.end_chunk = mp4_trak.start_chunk + 1

\* Where the tables say a sample is in the answer, its bytes are, when the chunks
\* lie one behind the other in mdat, unless the range ends in the chunk it begins in.
BytesFollow ==
  phase = "sent" /\ Ordered /\ samples[size].pos <= MdatEnd /\ ~ EndsWhereItBegins =>
    \A k \in DOMAIN SentPlaces :
      LET old == samples[FirstSample + k - 1]
      IN  /\ SentPlaces[k] - SentHead + start_offset = old.pos
          /\ old.pos >= start_offset /\ old.pos + old.size <= end_offset
=============================================================================
