------------------------------ MODULE Mp4File -------------------------------
(***************************************************************************)
(* Reading an mp4 file (mp4_io.h): mp4_read, which serves reads from a     *)
(* buffer that holds a window of the file; mp4_open, which goes through    *)
(* the headers of the top level atoms until it has moov and mdat, and      *)
(* reads moov; and the read of the samples of a segment (output_ts).       *)
(*                                                                         *)
(* The file is the sequence of its atoms with their places.  Its bytes are *)
(* their positions: what a read gives is told by the position its first    *)
(* byte has in the file, and how many follow in the buffer.                *)
(***************************************************************************)
EXTENDS Integers, Sequences, FiniteSets

CONSTANTS
  Layouts,          \* the files: their atoms and their size
  BufferSize,       \* conf->buffer_size
  max_buffer_size,
  GarbageSizes      \* what may be read for a size where there is no header

VARIABLES
  layout, filesize,
  buffer,           \* what the buffer holds, or NoBuffer
  buffer_size,
  file_offset,      \* file->offset
  offset,           \* mp4_context->offset
  reply,            \* of the last mp4_read: ok, what was asked, what was given
  leaf_atom,
  moov, mdat,       \* where these atoms were found, or NoAtom
  pc,
  failed            \* a read has failed

context == <<buffer, buffer_size, file_offset, offset, reply, failed>>
vars == <<layout, filesize, context, leaf_atom, moov, mdat, pc>>

ATOM_PREAMBLE_SIZE == 8
NoBuffer == [from |-> 0, len |-> -1, filled |-> FALSE]
NoAtom   == [type |-> "none", start |-> 0, size |-> 0, wide |-> FALSE]

IsLayout(f) ==
  /\ f.size \in Nat
  /\ f.atoms \in Seq([type : STRING, start : Nat, size : Nat, wide : BOOLEAN, good : BOOLEAN])

ASSUME Mp4FileAssumption ==
  /\ \A f \in Layouts : IsLayout(f)
  /\ BufferSize \in Nat /\ max_buffer_size \in Nat
  /\ GarbageSizes \subseteq Nat

Init ==
  /\ \E f \in Layouts : layout = f.atoms /\ filesize = f.size
  /\ buffer = NoBuffer /\ buffer_size = BufferSize
  /\ file_offset = 0 /\ offset = 0
  /\ reply = [ok |-> FALSE, pos |-> 0, size |-> 0, from |-> 0, have |-> 0, filled |-> FALSE]
  /\ leaf_atom = NoAtom /\ moov = NoAtom /\ mdat = NoAtom
  /\ pc = "header"
  /\ failed = FALSE

-----------------------------------------------------------------------------
(* mp4_read.  (alignment is never set.)                                    *)

\* A buffer that is too small is given up.
Grown(size) == IF buffer_size < size THEN size ELSE buffer_size
Kept(size)  == IF buffer_size < size THEN NoBuffer ELSE buffer

WindowStart(size) == file_offset - Grown(size)

\* Mutant of Hit: only the beginning of what is asked for is looked at.
HitStart(size, pos) ==
  Kept(size) # NoBuffer /\ pos <= file_offset /\ pos > WindowStart(size)

Hit(size, pos) ==
  /\ Kept(size) # NoBuffer
  /\ pos + size <= file_offset
  /\ pos > WindowStart(size)

\* How much is read into a new buffer: no more than the file has.
Clipped(size, pos) ==
  IF pos + Grown(size) > filesize THEN filesize - pos ELSE Grown(size)

NotOk(size, pos) == [ok |-> FALSE, pos |-> pos, size |-> size,
                     from |-> 0, have |-> 0, filled |-> FALSE]

ReadHit(size, pos) ==
  /\ Hit(size, pos)
  /\ LET skipped == pos - WindowStart(size)
     IN  reply' = [ok |-> TRUE, pos |-> pos, size |-> size,
                   from |-> buffer.from + skipped, have |-> buffer.len - skipped,
                   filled |-> buffer.filled]
  /\ offset' = offset + size
  /\ UNCHANGED <<buffer, buffer_size, file_offset, failed>>

ReadBeyond(size, pos) ==
  /\ ~ Hit(size, pos) /\ filesize < pos
  /\ buffer' = NoBuffer /\ buffer_size' = Grown(size)
  /\ reply' = NotOk(size, pos) /\ failed' = TRUE
  /\ UNCHANGED <<file_offset, offset>>

ReadUnallocated(size, pos) ==
  /\ ~ Hit(size, pos) /\ pos <= filesize
  /\ buffer' = NoBuffer /\ buffer_size' = Clipped(size, pos)
  /\ reply' = NotOk(size, pos) /\ failed' = TRUE
  /\ UNCHANGED <<file_offset, offset>>

\* The read fails (then n is 0), or gives less than the file was said to
\* have; ngx_read_file advances file->offset by what it gets.
ReadFails(size, pos) ==
  /\ ~ Hit(size, pos) /\ pos <= filesize
  /\ buffer' = [from |-> pos, len |-> Clipped(size, pos), filled |-> FALSE]
  /\ buffer_size' = Clipped(size, pos)
  /\ \E n \in {0, Clipped(size, pos) \div 2} : file_offset' = file_offset + n
  /\ reply' = NotOk(size, pos) /\ failed' = TRUE
  /\ UNCHANGED offset

\* Mutant of ReadFile: file->offset is left where ngx_read_file has put it.
ReadFileAdvances(size, pos) ==
  /\ ~ Hit(size, pos) /\ pos <= filesize
  /\ buffer' = [from |-> pos, len |-> Clipped(size, pos), filled |-> TRUE]
  /\ buffer_size' = Clipped(size, pos)
  /\ file_offset' = file_offset + Clipped(size, pos)
  /\ offset' = offset + size
  /\ reply' = [ok |-> TRUE, pos |-> pos, size |-> size, from |-> pos,
               have |-> Clipped(size, pos), filled |-> TRUE]
  /\ UNCHANGED failed

ReadFile(size, pos) ==
  /\ ~ Hit(size, pos) /\ pos <= filesize
  /\ buffer' = [from |-> pos, len |-> Clipped(size, pos), filled |-> TRUE]
  /\ buffer_size' = Clipped(size, pos)
  /\ file_offset' = pos + Clipped(size, pos)
  /\ offset' = offset + size
  /\ reply' = [ok |-> TRUE, pos |-> pos, size |-> size, from |-> pos,
               have |-> Clipped(size, pos), filled |-> TRUE]
  /\ UNCHANGED failed

mp4_read(size, pos) ==
  \/ ReadHit(size, pos) \/ ReadBeyond(size, pos) \/ ReadUnallocated(size, pos)
  \/ ReadFails(size, pos) \/ ReadFile(size, pos)

-----------------------------------------------------------------------------
(* mp4_atom_read_header and mp4_open                                       *)

\* What has been given is what is in the file.
Genuine == reply.filled /\ reply.from = reply.pos /\ reply.have >= reply.size

HeaderAt(pos) == {k \in DOMAIN layout : layout[k].start = pos}

\* The header that is read at the start of leaf_atom: the file's, or, where
\* the bytes are not those of a header, anything.
Headers ==
  IF Genuine /\ HeaderAt(leaf_atom.start) # {}
  THEN {[type |-> layout[k].type, start |-> layout[k].start, size |-> layout[k].size,
         wide |-> layout[k].wide] : k \in HeaderAt(leaf_atom.start)}
  ELSE {[type |-> t, start |-> leaf_atom.start, size |-> n, wide |-> FALSE] :
          t \in {"free", "moov", "mdat"}, n \in GarbageSizes}

ReadHeader ==
  /\ pc = "header" /\ (moov = NoAtom \/ mdat = NoAtom)
  /\ mp4_read(8, offset)
  /\ leaf_atom' = [NoAtom EXCEPT !.start = offset]
  /\ pc' = "header_read"
  /\ UNCHANGED <<layout, filesize, moov, mdat>>

\* The loop is left when a header cannot be read, and the context returned
\* all the same.
HeaderFails ==
  /\ pc \in {"header_read", "size_read"} /\ ~ reply.ok
  /\ pc' = "opened"
  /\ UNCHANGED <<layout, filesize, context, leaf_atom, moov, mdat>>

\* Mutant of ShortHeader: any size will do.
ShortHeaderUnchecked ==
  /\ pc = "header_read" /\ reply.ok
  /\ \E atom \in Headers :
       leaf_atom' = atom /\ pc' = IF atom.wide THEN "size" ELSE "atom"
  /\ UNCHANGED <<layout, filesize, context, moov, mdat>>

ShortHeader ==
  /\ pc = "header_read" /\ reply.ok
  /\ \E atom \in Headers :
       /\ leaf_atom' = atom
       /\ pc' = IF atom.wide THEN "size"
                ELSE IF atom.size < ATOM_PREAMBLE_SIZE THEN "opened" ELSE "atom"
  /\ UNCHANGED <<layout, filesize, context, moov, mdat>>

\* A size of 64 bits follows the header.
ReadSize ==
  /\ pc = "size"
  /\ mp4_read(8, offset)
  /\ pc' = "size_read"
  /\ UNCHANGED <<layout, filesize, leaf_atom, moov, mdat>>

WideHeader ==
  /\ pc = "size_read" /\ reply.ok
  /\ IF Genuine THEN leaf_atom' = leaf_atom
     ELSE \E n \in GarbageSizes : leaf_atom' = [leaf_atom EXCEPT !.size = n]
  /\ pc' = IF leaf_atom'.size < ATOM_PREAMBLE_SIZE THEN "opened" ELSE "atom"
  /\ UNCHANGED <<layout, filesize, context, moov, mdat>>

\* Mutant of Advance: the offset is counted on from what has been read.
AdvanceByRead == offset' = offset + leaf_atom.size - ATOM_PREAMBLE_SIZE

\* mp4_context->offset = leaf_atom.start_ + leaf_atom.size_
Advance == offset' = leaf_atom.start + leaf_atom.size

OtherAtom ==
  /\ pc = "atom" /\ leaf_atom.type # "moov"
  /\ mdat' = IF leaf_atom.type = "mdat" THEN leaf_atom ELSE mdat
  /\ Advance /\ pc' = "header"
  /\ UNCHANGED <<layout, filesize, buffer, buffer_size, file_offset, reply, failed,
                 leaf_atom, moov>>

\* read_box: moov must not be larger than configured.
MoovTooLarge ==
  /\ pc = "atom" /\ leaf_atom.type = "moov" /\ leaf_atom.size > max_buffer_size
  /\ pc' = "refused"
  /\ UNCHANGED <<layout, filesize, context, leaf_atom, moov, mdat>>

ReadMoov ==
  /\ pc = "atom" /\ leaf_atom.type = "moov" /\ leaf_atom.size <= max_buffer_size
  /\ mp4_read(leaf_atom.size, leaf_atom.start)
  /\ pc' = "moov_read"
  /\ UNCHANGED <<layout, filesize, leaf_atom, moov, mdat>>

MoovUnread ==
  /\ pc = "moov_read" /\ ~ reply.ok
  /\ pc' = "refused"
  /\ UNCHANGED <<layout, filesize, context, leaf_atom, moov, mdat>>

\* moov_read (AtomTree) refuses what is not well formed.
MoovParsed ==
  /\ pc = "moov_read" /\ reply.ok
  /\ \E good \in IF Genuine /\ HeaderAt(leaf_atom.start) # {}
                 THEN {layout[k].good : k \in HeaderAt(leaf_atom.start)} ELSE BOOLEAN :
       IF good THEN moov' = leaf_atom /\ pc' = "header" /\ Advance
       ELSE pc' = "refused" /\ offset' = offset - ATOM_PREAMBLE_SIZE /\ UNCHANGED moov
  /\ UNCHANGED <<layout, filesize, buffer, buffer_size, file_offset, reply, failed,
                 leaf_atom, mdat>>

Opened ==
  /\ pc = "header" /\ moov # NoAtom /\ mdat # NoAtom
  /\ pc' = "opened"
  /\ UNCHANGED <<layout, filesize, context, leaf_atom, moov, mdat>>

\* moov_build_index needs moov.
NoIndex ==
  /\ pc = "opened" /\ moov = NoAtom
  /\ pc' = "refused"
  /\ UNCHANGED <<layout, filesize, context, leaf_atom, moov, mdat>>

\* A playlist needs no more than moov.
Listed ==
  /\ pc = "opened" /\ moov # NoAtom
  /\ pc' = "served"
  /\ UNCHANGED <<layout, filesize, context, leaf_atom, moov, mdat>>

\* The samples of a segment are read at once.
ReadSamples ==
  /\ pc = "opened" /\ moov # NoAtom
  /\ \E k \in DOMAIN layout :
       /\ layout[k].type = "mdat"
       /\ \E first \in layout[k].start + 8 .. layout[k].start + layout[k].size - 1 :
          \E size \in 1 .. layout[k].start + layout[k].size - first : mp4_read(size, first)
  /\ pc' = "served"
  /\ UNCHANGED <<layout, filesize, leaf_atom, moov, mdat>>

Next ==
  \/ ReadHeader \/ HeaderFails \/ ShortHeader \/ ReadSize \/ WideHeader
  \/ OtherAtom \/ MoovTooLarge \/ ReadMoov \/ MoovUnread \/ MoovParsed
  \/ Opened \/ NoIndex \/ Listed \/ ReadSamples

Spec     == Init /\ [][Next]_vars
FairSpec == Spec /\ WF_vars(Next)

-----------------------------------------------------------------------------
\* A buffer that was filled is the window of the file that ends at
\* file->offset, whose length is buffer_size.
WindowOfFile ==
  ~ failed /\ buffer # NoBuffer =>
    /\ buffer.filled
    /\ buffer.len = buffer_size /\ buffer.from + buffer.len = file_offset
    /\ file_offset <= filesize

\* As long as no read has failed, one that lies within the file is answered
\* with the bytes of the file, all of them, out of the buffer or not.
ServesTheFile ==
  ~ failed /\ reply.ok /\ reply.pos + reply.size <= filesize => Genuine

Has(type) == {k \in DOMAIN layout : layout[k].type = type}

\* The atoms are one behind the other and all there, none smaller than its
\* header; among them are an mdat and one moov, which can be read.
Whole ==
  /\ \A k \in DOMAIN layout :
       /\ layout[k].size >= IF layout[k].wide THEN 2 * ATOM_PREAMBLE_SIZE
                                              ELSE ATOM_PREAMBLE_SIZE
       /\ layout[k].start = IF k = 1 THEN 0 ELSE layout[k - 1].start + layout[k - 1].size
       /\ layout[k].start + layout[k].size <= filesize
  /\ Has("mdat") # {} /\ Cardinality(Has("moov")) = 1
  /\ \A k \in Has("moov") : layout[k].good /\ layout[k].size <= max_buffer_size

IsAtom(found) ==
  \E k \in HeaderAt(found.start) : layout[k].type = found.type /\ layout[k].size = found.size

\* A whole file is opened with its moov and mdat, unless a read fails; every
\* header is one of the file, although reading moov moves the offset.
OpensWholeFiles ==
  Whole /\ ~ failed =>
    /\ pc # "refused"
    /\ pc = "header" => (moov # NoAtom /\ mdat # NoAtom) \/ HeaderAt(offset) # {}
    /\ pc = "opened" => IsAtom(moov) /\ IsAtom(mdat)

\* mp4_open returns.
Returns == <>(pc \in {"served", "refused"})
=============================================================================
