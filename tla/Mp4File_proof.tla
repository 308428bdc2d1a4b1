--------------------------- MODULE Mp4File_proof ----------------------------
(***************************************************************************)
(* Theorems about Mp4File: files of any layout, buffers of any size, and   *)
(* any sequence of reads, of which any may fail; and about AtomTree: moov  *)
(* atoms of any shape.  The two modules share no variable; Spec is         *)
(* Mp4File's, and TreeSpec is AtomTree's.                                  *)
(***************************************************************************)
EXTENDS Mp4File, AtomTree, FiniteSetTheorems, SequenceTheorems, WellFoundedInduction, TLAPS

-----------------------------------------------------------------------------
(* Mp4File                                                                 *)

Placed == [type : STRING, start : Nat, size : Nat, wide : BOOLEAN, good : BOOLEAN]

\* A record with the fields of an atom that has been found.
Found(atom) ==
  /\ atom = [type |-> atom.type, start |-> atom.start, size |-> atom.size, wide |-> atom.wide]
  /\ atom.start \in Int /\ atom.size \in Int

\* What is known of the places that reads are asked for.
PlacesTyped ==
  /\ filesize \in Nat
  /\ layout \in Seq(Placed)
  /\ offset \in Int
  /\ Found(leaf_atom)

BufferTyped ==
  /\ buffer \in [from : Int, len : Int, filled : BOOLEAN]
  /\ buffer_size \in Int /\ file_offset \in Int

\* The invariant of mp4_read: once a read has failed, nothing is claimed.
ReaderInv == failed \/ (BufferTyped /\ WindowOfFile /\ ServesTheFile)

IInv == PlacesTyped /\ ReaderInv

LEMMA PlacesTypedInit == Init => PlacesTyped
<1> SUFFICES ASSUME Init PROVE PlacesTyped
  OBVIOUS
<1>1. PICK f \in Layouts : layout = f.atoms /\ filesize = f.size
  BY DEF Init
<1>2. IsLayout(f)
  BY Mp4FileAssumption
<1>3. filesize \in Nat
  BY <1>1, <1>2 DEF IsLayout
<1>4. layout \in Seq(Placed)
  BY <1>1, <1>2 DEF IsLayout, Placed
<1>5. offset = 0 /\ leaf_atom = NoAtom
  BY DEF Init
<1> QED BY <1>3, <1>4, <1>5 DEF PlacesTyped, NoAtom, Found

\* The type of the atoms of the file, and of those that have been found.
LEMMA AtomsTyped ==
  ASSUME PlacesTyped
  PROVE  /\ \A k \in DOMAIN layout : layout[k] \in Placed
         /\ \A k \in DOMAIN layout : layout[k].start \in Nat /\ layout[k].size \in Nat
<1>1. layout \in Seq(Placed)
  BY DEF PlacesTyped
<1>2. \A k \in DOMAIN layout : layout[k] \in Placed
  BY <1>1
<1> QED BY <1>2 DEF Placed

LEMMA ReaderInvInit == Init => ReaderInv
<1> SUFFICES ASSUME Init PROVE BufferTyped /\ WindowOfFile /\ ServesTheFile
  BY DEF ReaderInv
<1>1. BufferTyped
  BY Mp4FileAssumption DEF Init, BufferTyped, NoBuffer
<1>2. WindowOfFile
  BY DEF Init, WindowOfFile
<1>3. ServesTheFile
  BY DEF Init, ServesTheFile
<1> QED BY <1>1, <1>2, <1>3

-----------------------------------------------------------------------------
(* mp4_read                                                                *)

LEMMA HitKeeps ==
  ASSUME NEW size \in Int, NEW pos \in Int, filesize \in Nat, filesize' = filesize,
         ReaderInv, ReadHit(size, pos)
  PROVE  ReaderInv'
<1> SUFFICES ASSUME ~ failed' PROVE (BufferTyped /\ WindowOfFile /\ ServesTheFile)'
  BY DEF ReaderInv
<1>1. /\ ~ failed
      /\ buffer' = buffer /\ buffer_size' = buffer_size /\ file_offset' = file_offset
  BY DEF ReadHit
<1>2. BufferTyped /\ WindowOfFile
  BY <1>1 DEF ReaderInv
<1>3. BufferTyped' /\ WindowOfFile'
  BY <1>1, <1>2 DEF BufferTyped, WindowOfFile
<1>4. buffer # NoBuffer /\ Grown(size) = buffer_size
  BY <1>2 DEF ReadHit, Hit, Kept, Grown, BufferTyped
<1>5. /\ buffer.from \in Int /\ buffer.len \in Int
      /\ buffer.len = buffer_size /\ buffer.from + buffer.len = file_offset /\ buffer.filled
  BY <1>1, <1>2, <1>4 DEF BufferTyped, WindowOfFile
<1>6. pos + size <= file_offset /\ WindowStart(size) = file_offset - buffer_size
  BY <1>4 DEF ReadHit, Hit, WindowStart
<1>7. file_offset \in Int /\ buffer_size \in Int
  BY <1>2 DEF BufferTyped
<1>8. /\ reply'.pos = pos /\ reply'.size = size /\ reply'.filled = buffer.filled
      /\ reply'.from = buffer.from + (pos - WindowStart(size))
      /\ reply'.have = buffer.len - (pos - WindowStart(size))
  BY DEF ReadHit
<1>9. reply'.from = pos /\ reply'.have >= size
  BY <1>5, <1>6, <1>7, <1>8
<1>10. ServesTheFile'
  BY <1>5, <1>8, <1>9 DEF ServesTheFile, Genuine
<1> QED BY <1>3, <1>10

LEMMA FileKeeps ==
  ASSUME NEW size \in Int, NEW pos \in Int, filesize \in Nat, filesize' = filesize,
         ReaderInv, ReadFile(size, pos)
  PROVE  ReaderInv'
<1> SUFFICES ASSUME ~ failed' PROVE (BufferTyped /\ WindowOfFile /\ ServesTheFile)'
  BY DEF ReaderInv
<1> DEFINE c == Clipped(size, pos)
<1>1. BufferTyped
  BY DEF ReaderInv, ReadFile
<1>2. Grown(size) \in Int /\ Grown(size) >= size
  BY <1>1 DEF Grown, BufferTyped
<1>3. /\ c \in Int /\ pos + c <= filesize
      /\ pos + size <= filesize => c >= size
  BY <1>2 DEF Clipped
<1>4. /\ buffer' = [from |-> pos, len |-> c, filled |-> TRUE]
      /\ buffer_size' = c /\ file_offset' = pos + c
      /\ reply' = [ok |-> TRUE, pos |-> pos, size |-> size, from |-> pos,
                   have |-> c, filled |-> TRUE]
  BY DEF ReadFile
<1> HIDE DEF c
<1>5. BufferTyped'
  BY <1>3, <1>4 DEF BufferTyped
<1>6. WindowOfFile'
  BY <1>3, <1>4 DEF WindowOfFile
<1>7. ServesTheFile'
  BY <1>3, <1>4 DEF ServesTheFile, Genuine
<1> QED BY <1>5, <1>6, <1>7

LEMMA ReadKeeps ==
  ASSUME NEW size \in Int, NEW pos \in Int, PlacesTyped, filesize' = filesize,
         ReaderInv, mp4_read(size, pos)
  PROVE  ReaderInv' /\ offset' \in Int
<1>1. filesize \in Nat /\ offset \in Int
  BY DEF PlacesTyped
<1>2. CASE ReadHit(size, pos)
  BY <1>1, <1>2, HitKeeps DEF ReadHit
<1>3. CASE ReadBeyond(size, pos)
  BY <1>1, <1>3 DEF ReadBeyond, ReaderInv
<1>4. CASE ReadUnallocated(size, pos)
  BY <1>1, <1>4 DEF ReadUnallocated, ReaderInv
<1>5. CASE ReadFails(size, pos)
  BY <1>1, <1>5 DEF ReadFails, ReaderInv
<1>6. CASE ReadFile(size, pos)
  BY <1>1, <1>6, FileKeeps DEF ReadFile
<1> QED BY <1>2, <1>3, <1>4, <1>5, <1>6 DEF mp4_read

-----------------------------------------------------------------------------
(* mp4_open                                                                *)

LEMMA ReaderInvStays ==
  ASSUME ReaderInv, filesize' = filesize, buffer' = buffer, buffer_size' = buffer_size,
         file_offset' = file_offset, reply' = reply, failed' = failed
  PROVE  ReaderInv'
BY DEF ReaderInv, BufferTyped, WindowOfFile, ServesTheFile, Genuine

LEMMA HeaderTyped ==
  ASSUME PlacesTyped, NEW atom \in Headers
  PROVE  Found(atom)
<1>1. GarbageSizes \subseteq Nat /\ leaf_atom.start \in Int
  BY Mp4FileAssumption DEF PlacesTyped, Found
<1>2. CASE Genuine /\ HeaderAt(leaf_atom.start) # {}
  BY <1>2, AtomsTyped DEF Headers, HeaderAt, Found
<1>3. CASE ~ (Genuine /\ HeaderAt(leaf_atom.start) # {})
  BY <1>1, <1>3 DEF Headers, Found
<1> QED BY <1>2, <1>3

LEMMA IInvNext == IInv /\ [Next]_vars => IInv'
<1> SUFFICES ASSUME PlacesTyped, ReaderInv, [Next]_vars PROVE PlacesTyped' /\ ReaderInv'
  BY DEF IInv
<1>0. /\ leaf_atom.start \in Int /\ leaf_atom.size \in Int /\ offset \in Int
      /\ GarbageSizes \subseteq Nat /\ 8 \in Int
  BY Mp4FileAssumption DEF PlacesTyped, Found
<1>1. CASE ReadHeader
  <2>1. mp4_read(8, offset) /\ filesize' = filesize /\ layout' = layout
    BY <1>1 DEF ReadHeader
  <2>2. ReaderInv' /\ offset' \in Int
    BY <1>0, <2>1, ReadKeeps
  <2>3. leaf_atom' = [type |-> "none", start |-> offset, size |-> 0, wide |-> FALSE]
    BY <1>1 DEF ReadHeader, NoAtom
  <2>4. Found(leaf_atom)'
    BY <1>0, <2>3 DEF Found
  <2> QED BY <2>1, <2>2, <2>4 DEF PlacesTyped
<1>2. CASE HeaderFails \/ MoovTooLarge \/ MoovUnread \/ Opened \/ NoIndex \/ Listed
  <2>1. UNCHANGED <<layout, filesize, context, leaf_atom>>
    BY <1>2 DEF HeaderFails, MoovTooLarge, MoovUnread, Opened, NoIndex, Listed
  <2> QED BY <2>1, ReaderInvStays DEF PlacesTyped, context
<1>3. CASE ShortHeader
  <2>1. UNCHANGED <<layout, filesize, context>>
    BY <1>3 DEF ShortHeader
  <2>2. leaf_atom' \in Headers
    BY <1>3 DEF ShortHeader
  <2>3. Found(leaf_atom)'
    BY <2>2, HeaderTyped
  <2> QED BY <2>1, <2>3, ReaderInvStays DEF PlacesTyped, context
<1>4. CASE ReadSize
  <2>1. mp4_read(8, offset) /\ UNCHANGED <<filesize, layout, leaf_atom>>
    BY <1>4 DEF ReadSize
  <2>2. ReaderInv' /\ offset' \in Int
    BY <1>0, <2>1, ReadKeeps
  <2> QED BY <2>1, <2>2 DEF PlacesTyped
<1>5. CASE WideHeader
  <2>1. UNCHANGED <<layout, filesize, context>>
    BY <1>5 DEF WideHeader
  <2>2. leaf_atom' = leaf_atom \/ \E n \in GarbageSizes : leaf_atom' = [leaf_atom EXCEPT !.size = n]
    BY <1>5 DEF WideHeader
  <2>3. Found(leaf_atom)'
    BY <1>0, <2>2 DEF PlacesTyped, Found
  <2> QED BY <2>1, <2>3, ReaderInvStays DEF PlacesTyped, context
<1>6. CASE OtherAtom
  <2>1. /\ UNCHANGED <<layout, filesize, buffer, buffer_size, file_offset, reply, failed, leaf_atom>>
        /\ offset' = leaf_atom.start + leaf_atom.size
    BY <1>6 DEF OtherAtom, Advance
  <2> QED BY <1>0, <2>1, ReaderInvStays DEF PlacesTyped
<1>7. CASE ReadMoov
  <2>1. mp4_read(leaf_atom.size, leaf_atom.start) /\ UNCHANGED <<filesize, layout, leaf_atom>>
    BY <1>7 DEF ReadMoov
  <2>2. ReaderInv' /\ offset' \in Int
    BY <1>0, <2>1, ReadKeeps
  <2> QED BY <2>1, <2>2 DEF PlacesTyped
<1>8. CASE MoovParsed
  <2>1. UNCHANGED <<layout, filesize, buffer, buffer_size, file_offset, reply, failed, leaf_atom>>
    BY <1>8 DEF MoovParsed
  <2>2. offset' = leaf_atom.start + leaf_atom.size \/ offset' = offset - ATOM_PREAMBLE_SIZE
    BY <1>8 DEF MoovParsed, Advance
  <2>3. offset' \in Int
    BY <1>0, <2>2 DEF ATOM_PREAMBLE_SIZE
  <2> QED BY <2>1, <2>3, ReaderInvStays DEF PlacesTyped
<1>9. CASE ReadSamples
  <2>1. UNCHANGED <<layout, filesize, leaf_atom>>
    BY <1>9 DEF ReadSamples
  <2>2. PICK k \in DOMAIN layout :
          \E first \in layout[k].start + 8 .. layout[k].start + layout[k].size - 1 :
          \E size \in 1 .. layout[k].start + layout[k].size - first : mp4_read(size, first)
    BY <1>9 DEF ReadSamples
  <2>3. PICK first \in Int, size \in Int : mp4_read(size, first)
    BY <2>2, AtomsTyped
  <2>4. ReaderInv' /\ offset' \in Int
    BY <2>1, <2>3, ReadKeeps
  <2> QED BY <2>1, <2>4 DEF PlacesTyped
<1>10. CASE UNCHANGED vars
  BY <1>10, ReaderInvStays DEF PlacesTyped, vars, context
<1> QED BY <1>1, <1>2, <1>3, <1>4, <1>5, <1>6, <1>7, <1>8, <1>9, <1>10 DEF Next

LEMMA IInvAlways == Spec => []IInv
<1>1. Init => IInv
  BY PlacesTypedInit, ReaderInvInit DEF IInv
<1> QED BY <1>1, IInvNext, PTL DEF Spec

\* mp4_read: as long as no read has failed, the buffer is the part of the
\* file that ends at file->offset, however often it has grown, been given up
\* or been clipped at the end of the file.
THEOREM BufferIsWindow == Spec => []WindowOfFile
<1>1. IInv => WindowOfFile
  BY DEF IInv, ReaderInv, WindowOfFile
<1> QED BY <1>1, IInvAlways, PTL

\* mp4_read: whatever lies within the file is answered with the file's bytes,
\* all of them, from the buffer or from the file.
THEOREM ReadsTheFile == Spec => []ServesTheFile
<1>1. IInv => ServesTheFile
  BY DEF IInv, ReaderInv, ServesTheFile
<1> QED BY <1>1, IInvAlways, PTL

-----------------------------------------------------------------------------
(* A whole file is opened                                                  *)

LEMMA LeastIndex ==
  ASSUME NEW S, S \subseteq Nat, S # {}
  PROVE  \E n \in S : \A m \in S : n <= m
<1>1. PICK n \in S : \A m \in S : ~ (<<m, n>> \in OpToRel(<, Nat))
  BY WFMin, NatLessThanWellFounded
<1>2. \A m \in S : ~ (m < n)
  BY <1>1 DEF OpToRel
<1> QED BY <1>2

\* The atoms of a whole file do not overlap, however far apart they are.
LEMMA AtomsApart ==
  ASSUME PlacesTyped, Whole, NEW j \in DOMAIN layout, NEW k \in DOMAIN layout, j < k
  PROVE  layout[j].start < layout[k].start
<1>1. DOMAIN layout = 1 .. Len(layout) /\ Len(layout) \in Nat
  BY DEF PlacesTyped
<1>2. \A i \in DOMAIN layout : layout[i].start \in Nat /\ layout[i].size \in Nat
  BY AtomsTyped
<1>3. \A i \in 2 .. Len(layout) : layout[i - 1].start < layout[i].start
  <2> TAKE i \in 2 .. Len(layout)
  <2>1. i \in DOMAIN layout /\ i - 1 \in DOMAIN layout /\ i # 1
    BY <1>1
  <2>2. layout[i].start = layout[i - 1].start + layout[i - 1].size
    BY <2>1 DEF Whole
  <2>3. layout[i - 1].size >= 8
    BY <1>2, <2>1 DEF Whole, ATOM_PREAMBLE_SIZE
  <2> QED BY <1>2, <2>1, <2>2, <2>3
<1> DEFINE Bad == {i \in DOMAIN layout : j < i /\ ~ layout[j].start < layout[i].start}
<1>4. Bad = {}
  <2> SUFFICES ASSUME Bad # {} PROVE FALSE
    OBVIOUS
  <2>0. Bad \subseteq Nat
    BY <1>1
  <2> HIDE DEF Bad
  <2>1. PICK i \in Bad : \A m \in Bad : i <= m
    BY <2>0, LeastIndex
  <2> USE DEF Bad
  <2>2. i \in 2 .. Len(layout) /\ i - 1 \in DOMAIN layout /\ j \in Nat /\ i \in Nat
    BY <1>1
  <2>3. layout[i - 1].start < layout[i].start
    BY <1>3, <2>2
  <2>4. i - 1 \notin Bad
    BY <2>1, <2>2
  <2>5. i - 1 = j \/ layout[j].start < layout[i - 1].start
    BY <2>2, <2>4
  <2> QED BY <1>2, <2>2, <2>3, <2>5
<1> QED BY <1>4

LEMMA OneAtomThere ==
  ASSUME PlacesTyped, Whole, NEW k \in DOMAIN layout
  PROVE  HeaderAt(layout[k].start) = {k}
<1>1. \A j \in DOMAIN layout : layout[j].start = layout[k].start => j = k
  <2> SUFFICES ASSUME NEW j \in DOMAIN layout, j # k
               PROVE  layout[j].start # layout[k].start
    OBVIOUS
  <2>1. j \in Nat /\ k \in Nat
    BY DEF PlacesTyped
  <2>2. layout[j].start \in Nat /\ layout[k].start \in Nat
    BY AtomsTyped
  <2>3. j < k \/ k < j
    BY <2>1
  <2> QED BY <2>2, <2>3, AtomsApart
<1> QED BY <1>1 DEF HeaderAt

Atom(k) == [type |-> layout[k].type, start |-> layout[k].start,
            size |-> layout[k].size, wide |-> layout[k].wide]

\* The atoms before k that are looked for have been found.
Noted(k) == /\ layout[k].type = "moov" => moov # NoAtom
            /\ layout[k].type = "mdat" => mdat # NoAtom
Before(k) == \A j \in DOMAIN layout : j < k => Noted(j)

Answered(size, pos) == reply.ok /\ reply.pos = pos /\ reply.size = size

\* Atom k is being read.
OnWay(k) ==
  /\ Before(k)
  /\ pc = "header_read" =>
       /\ leaf_atom.start = layout[k].start /\ offset = layout[k].start + 8
       /\ Answered(8, layout[k].start)
  /\ pc \in {"size", "size_read"} => layout[k].wide
  /\ pc = "size" => offset = layout[k].start + 8
  /\ pc = "size_read" => Answered(8, layout[k].start + 8)
  /\ pc = "moov_read" => /\ layout[k].type = "moov"
                         /\ Answered(layout[k].size, layout[k].start)
  /\ pc # "header_read" => leaf_atom = Atom(k)

\* Atom k is next, if there is one.
AtomNext(k) == Before(k) /\ (k \in DOMAIN layout => offset = layout[k].start)

Reading == {"header_read", "size", "size_read", "atom", "moov_read"}

Opening ==
  /\ pc \in Reading \cup {"header", "opened", "served"}
  /\ pc = "header" => \E k \in 1 .. Len(layout) + 1 : AtomNext(k)
  /\ pc \in Reading => \E k \in DOMAIN layout : OnWay(k)
  /\ pc = "opened" => moov # NoAtom /\ mdat # NoAtom
  /\ moov # NoAtom => IsAtom(moov)
  /\ mdat # NoAtom => IsAtom(mdat)

OpenInv == Whole /\ ~ failed => Opening

LEMMA OpenInvInit == Init => OpenInv
<1> SUFFICES ASSUME Init, Whole PROVE Opening
  BY DEF OpenInv
<1>1. PlacesTyped
  BY PlacesTypedInit
<1>2. pc = "header" /\ offset = 0 /\ moov = NoAtom /\ mdat = NoAtom
  BY DEF Init
<1>3. AtomNext(1) /\ 1 \in 1 .. Len(layout) + 1
  <2>1. DOMAIN layout = 1 .. Len(layout) /\ Len(layout) \in Nat
    BY <1>1 DEF PlacesTyped
  <2>2. Before(1)
    BY <2>1 DEF Before
  <2>3. 1 \in DOMAIN layout => layout[1].start = 0
    BY DEF Whole
  <2> QED BY <1>2, <2>1, <2>2, <2>3 DEF AtomNext
<1> QED BY <1>2, <1>3 DEF Opening, Reading

\* A read that has not failed has given what it was asked for.
LEMMA ReadAnswers ==
  ASSUME NEW size, NEW pos, mp4_read(size, pos), ~ failed'
  PROVE  /\ reply'.ok /\ reply'.pos = pos /\ reply'.size = size
         /\ offset' = offset + size /\ ~ failed
BY DEF mp4_read, ReadHit, ReadBeyond, ReadUnallocated, ReadFails, ReadFile

LEMMA FailedStays == [Next]_vars /\ ~ failed' => ~ failed
<1> SUFFICES ASSUME [Next]_vars, ~ failed' PROVE ~ failed
  OBVIOUS
<1>1. CASE \E size, pos : mp4_read(size, pos)
  BY <1>1, ReadAnswers
<1>2. CASE failed' = failed
  BY <1>2
<1>3. (\E size, pos : mp4_read(size, pos)) \/ failed' = failed
  BY DEF Next, vars, context, ReadHeader, HeaderFails, ShortHeader, ReadSize, WideHeader,
         OtherAtom, MoovTooLarge, ReadMoov, MoovUnread, MoovParsed, Opened, NoIndex,
         Listed, ReadSamples
<1> QED BY <1>1, <1>2, <1>3

LEMMA FileStays == [Next]_vars => layout' = layout /\ filesize' = filesize
BY DEF Next, vars, context, ReadHeader, HeaderFails, ShortHeader, ReadSize, WideHeader,
       OtherAtom, MoovTooLarge, ReadMoov, MoovUnread, MoovParsed, Opened, NoIndex,
       Listed, ReadSamples

LEMMA AtomFacts ==
  ASSUME PlacesTyped, Whole, NEW k \in DOMAIN layout
  PROVE  /\ layout[k].start \in Nat /\ layout[k].size \in Nat /\ filesize \in Nat
         /\ layout[k].size >= 8 /\ (layout[k].wide => layout[k].size >= 16)
         /\ layout[k].start + layout[k].size <= filesize
<1>1. layout[k].start \in Nat /\ layout[k].size \in Nat /\ filesize \in Nat
  BY AtomsTyped DEF PlacesTyped
<1>2. /\ layout[k].wide => layout[k].size >= 16
      /\ ~ layout[k].wide => layout[k].size >= 8
      /\ layout[k].start + layout[k].size <= filesize
  BY DEF Whole, ATOM_PREAMBLE_SIZE
<1> QED BY <1>1, <1>2

LEMMA GenuineAnswer ==
  ASSUME ReaderInv, ~ failed, NEW size, NEW pos, Answered(size, pos),
         pos + size <= filesize
  PROVE  Genuine
BY DEF ReaderInv, ServesTheFile, Answered

LEMMA FoundStays ==
  ASSUME Opening, layout' = layout, moov' = moov, mdat' = mdat
  PROVE  /\ \A k : Before(k) => Before(k)'
         /\ (moov # NoAtom => IsAtom(moov))'
         /\ (mdat # NoAtom => IsAtom(mdat))'
<1>1. \A k : Before(k) => Before(k)'
  BY DEF Before, Noted
<1>2. (moov # NoAtom => IsAtom(moov)) /\ (mdat # NoAtom => IsAtom(mdat))
  BY DEF Opening
<1>3. (moov # NoAtom => IsAtom(moov))'
  BY <1>2 DEF IsAtom, HeaderAt, NoAtom
<1>4. (mdat # NoAtom => IsAtom(mdat))'
  BY <1>2 DEF IsAtom, HeaderAt, NoAtom
<1> QED BY <1>1, <1>3, <1>4

\* While moov or mdat is missing there is an atom that has not been read.
LEMMA MoreToCome ==
  ASSUME PlacesTyped, Whole, NEW k \in 1 .. Len(layout) + 1, Before(k),
         moov = NoAtom \/ mdat = NoAtom
  PROVE  k \in DOMAIN layout
<1>1. DOMAIN layout = 1 .. Len(layout) /\ Len(layout) \in Nat
  BY DEF PlacesTyped
<1>2. PICK j \in DOMAIN layout : ~ Noted(j)
  <2>1. Has("mdat") # {} /\ Cardinality(Has("moov")) # 0
    BY DEF Whole
  <2>2. Has("moov") # {}
    BY <2>1, FS_EmptySet
  <2> QED BY <2>1, <2>2 DEF Has, Noted
<1>3. ~ (j < k)
  BY <1>2 DEF Before
<1> QED BY <1>1, <1>3

LEMMA ReadHeaderOpens ==
  ASSUME PlacesTyped, Whole, Opening, ~ failed', layout' = layout, ReadHeader
  PROVE  Opening'
<1>1. PICK k \in 1 .. Len(layout) + 1 : AtomNext(k)
  BY DEF Opening, ReadHeader
<1>2. k \in DOMAIN layout /\ Before(k) /\ offset = layout[k].start
  BY <1>1, MoreToCome DEF AtomNext, ReadHeader
<1>3. reply'.ok /\ reply'.pos = offset /\ reply'.size = 8 /\ offset' = offset + 8
  BY ReadAnswers DEF ReadHeader
<1>4. Answered(8, layout[k].start)'
  BY <1>2, <1>3 DEF Answered
<1>5. leaf_atom'.start = offset /\ pc' = "header_read" /\ moov' = moov /\ mdat' = mdat
  BY DEF ReadHeader, NoAtom
<1>6. OnWay(k)'
  BY <1>2, <1>3, <1>4, <1>5, FoundStays DEF OnWay
<1> QED BY <1>2, <1>5, <1>6, FoundStays DEF Opening, Reading

LEMMA ShortHeaderOpens ==
  ASSUME PlacesTyped, ReaderInv, Whole, Opening, ~ failed, layout' = layout, ShortHeader
  PROVE  Opening'
<1>1. pc = "header_read"
  BY DEF ShortHeader
<1>2. PICK k \in DOMAIN layout : OnWay(k)
  BY <1>1 DEF Opening, Reading
<1>3. Before(k) /\ leaf_atom.start = layout[k].start /\ offset = layout[k].start + 8
      /\ Answered(8, layout[k].start)
  BY <1>1, <1>2 DEF OnWay
<1>4. layout[k].start + 8 <= filesize /\ layout[k].size >= 8
  BY AtomFacts
<1>5. Headers = {Atom(k)}
  <2>1. Genuine
    BY <1>3, <1>4, GenuineAnswer
  <2>2. HeaderAt(leaf_atom.start) = {k}
    BY <1>3, OneAtomThere
  <2> QED BY <2>1, <2>2 DEF Headers, Atom
<1>6. /\ leaf_atom' = Atom(k) /\ moov' = moov /\ mdat' = mdat /\ offset' = offset
      /\ pc' = IF layout[k].wide THEN "size" ELSE
               IF layout[k].size < ATOM_PREAMBLE_SIZE THEN "opened" ELSE "atom"
  BY <1>5 DEF ShortHeader, context, Atom
<1>7. pc' = IF layout[k].wide THEN "size" ELSE "atom"
  BY <1>4, <1>6, AtomFacts DEF ATOM_PREAMBLE_SIZE
<1>8. OnWay(k)'
  BY <1>3, <1>6, <1>7, FoundStays DEF OnWay, Atom
<1>9. pc' \in {"size", "atom"}
  BY <1>7
<1> QED BY <1>6, <1>8, <1>9, FoundStays DEF Opening, Reading

LEMMA ReadSizeOpens ==
  ASSUME PlacesTyped, Whole, Opening, ~ failed', layout' = layout, ReadSize
  PROVE  Opening'
<1>1. pc = "size"
  BY DEF ReadSize
<1>2. PICK k \in DOMAIN layout : OnWay(k)
  BY <1>1 DEF Opening, Reading
<1>3. Before(k) /\ layout[k].wide /\ offset = layout[k].start + 8 /\ leaf_atom = Atom(k)
  BY <1>1, <1>2 DEF OnWay
<1>4. reply'.ok /\ reply'.pos = offset /\ reply'.size = 8
  BY ReadAnswers DEF ReadSize
<1>5. Answered(8, layout[k].start + 8)'
  BY <1>3, <1>4 DEF Answered
<1>6. pc' = "size_read" /\ moov' = moov /\ mdat' = mdat /\ leaf_atom' = leaf_atom
  BY DEF ReadSize
<1>7. OnWay(k)'
  BY <1>3, <1>5, <1>6, FoundStays DEF OnWay, Atom
<1> QED BY <1>6, <1>7, FoundStays DEF Opening, Reading

LEMMA WideHeaderOpens ==
  ASSUME PlacesTyped, ReaderInv, Whole, Opening, ~ failed, layout' = layout, WideHeader
  PROVE  Opening'
<1>1. pc = "size_read"
  BY DEF WideHeader
<1>2. PICK k \in DOMAIN layout : OnWay(k)
  BY <1>1 DEF Opening, Reading
<1>3. /\ Before(k) /\ layout[k].wide /\ leaf_atom = Atom(k)
      /\ Answered(8, layout[k].start + 8)
  BY <1>1, <1>2 DEF OnWay
<1>4. layout[k].start + 8 + 8 <= filesize /\ layout[k].size >= 8 /\ layout[k].size \in Nat
  BY <1>3, AtomFacts
<1>5. Genuine
  BY <1>3, <1>4, GenuineAnswer
<1>6. leaf_atom' = leaf_atom /\ moov' = moov /\ mdat' = mdat
  BY <1>5 DEF WideHeader
<1>7. leaf_atom'.size = layout[k].size
  BY <1>3, <1>6 DEF Atom
<1>8. pc' = "atom"
  BY <1>4, <1>7 DEF WideHeader, ATOM_PREAMBLE_SIZE
<1>9. OnWay(k)'
  BY <1>3, <1>6, <1>8, FoundStays DEF OnWay, Atom
<1> QED BY <1>6, <1>8, <1>9, FoundStays DEF Opening, Reading

LEMMA OtherAtomOpens ==
  ASSUME PlacesTyped, Whole, Opening, layout' = layout, OtherAtom
  PROVE  Opening'
<1>1. pc = "atom" /\ pc' = "header"
  BY DEF OtherAtom
<1>2. PICK k \in DOMAIN layout : OnWay(k)
  BY <1>1 DEF Opening, Reading
<1>3. Before(k) /\ leaf_atom = Atom(k)
  BY <1>1, <1>2 DEF OnWay
<1>4. /\ layout[k].type # "moov" /\ moov' = moov
      /\ mdat' = IF layout[k].type = "mdat" THEN Atom(k) ELSE mdat
      /\ offset' = layout[k].start + layout[k].size
  BY <1>3 DEF OtherAtom, Advance, Atom
<1>5. DOMAIN layout = 1 .. Len(layout) /\ Len(layout) \in Nat /\ k \in Nat
  BY DEF PlacesTyped
<1>6. layout[k].type = "mdat" => Atom(k) # NoAtom
  BY DEF Atom, NoAtom
<1>7. Noted(k)'
  BY <1>4, <1>6 DEF Noted
<1>8. Before(k)'
  BY <1>3, <1>4, <1>6 DEF Before, Noted
<1>9. Before(k + 1)'
  <2>1. \A j \in DOMAIN layout : j < k + 1 => j < k \/ j = k
    BY <1>5
  <2> QED BY <1>7, <1>8, <2>1 DEF Before
<1>10. k + 1 \in DOMAIN layout => layout[k + 1].start = layout[k].start + layout[k].size
  <2> SUFFICES ASSUME k + 1 \in DOMAIN layout
               PROVE  layout[k + 1].start = layout[k].start + layout[k].size
    OBVIOUS
  <2>1. k + 1 # 1 /\ (k + 1) - 1 = k
    BY <1>5
  <2> QED BY <2>1 DEF Whole
<1>11. AtomNext(k + 1)' /\ k + 1 \in 1 .. Len(layout) + 1
  BY <1>4, <1>5, <1>9, <1>10 DEF AtomNext
<1>12. moov # NoAtom => IsAtom(moov)'
  BY <1>4 DEF Opening, IsAtom, HeaderAt
<1>13. (mdat # NoAtom => IsAtom(mdat))'
  <2>1. layout[k].type = "mdat" => IsAtom(mdat)'
    BY <1>4 DEF IsAtom, HeaderAt, Atom
  <2>2. layout[k].type # "mdat" /\ mdat # NoAtom => IsAtom(mdat)'
    BY <1>4 DEF Opening, IsAtom, HeaderAt
  <2> QED BY <1>4, <2>1, <2>2 DEF NoAtom
<1> QED BY <1>1, <1>4, <1>11, <1>12, <1>13 DEF Opening, Reading, NoAtom

LEMMA ReadMoovOpens ==
  ASSUME PlacesTyped, Whole, Opening, ~ failed', layout' = layout, ReadMoov
  PROVE  Opening'
<1>1. pc = "atom" /\ leaf_atom.type = "moov"
  BY DEF ReadMoov
<1>2. PICK k \in DOMAIN layout : OnWay(k)
  BY <1>1 DEF Opening, Reading
<1>3. Before(k) /\ leaf_atom = Atom(k)
  BY <1>1, <1>2 DEF OnWay
<1>4. reply'.ok /\ reply'.pos = leaf_atom.start /\ reply'.size = leaf_atom.size
  BY ReadAnswers DEF ReadMoov
<1>5. Answered(layout[k].size, layout[k].start)'
  BY <1>3, <1>4 DEF Answered, Atom
<1>6. pc' = "moov_read" /\ moov' = moov /\ mdat' = mdat /\ leaf_atom' = leaf_atom
  BY DEF ReadMoov
<1>7. layout[k].type = "moov"
  BY <1>1, <1>3 DEF Atom
<1>8. OnWay(k)'
  BY <1>3, <1>5, <1>6, <1>7, FoundStays DEF OnWay, Atom
<1> QED BY <1>6, <1>8, FoundStays DEF Opening, Reading

LEMMA MoovParsedOpens ==
  ASSUME PlacesTyped, ReaderInv, Whole, Opening, ~ failed, layout' = layout, MoovParsed
  PROVE  Opening'
<1>1. pc = "moov_read"
  BY DEF MoovParsed
<1>2. PICK k \in DOMAIN layout : OnWay(k)
  BY <1>1 DEF Opening, Reading
<1>3. /\ Before(k) /\ leaf_atom = Atom(k) /\ layout[k].type = "moov"
      /\ Answered(layout[k].size, layout[k].start)
  BY <1>1, <1>2 DEF OnWay
<1>4. Genuine
  <2>1. layout[k].start + layout[k].size <= filesize
    BY AtomFacts
  <2> QED BY <1>3, <2>1, GenuineAnswer
<1>5. HeaderAt(leaf_atom.start) = {k}
  BY <1>3, OneAtomThere DEF Atom
<1>6. layout[k].good
  BY <1>3 DEF Whole, Has
<1>7. /\ moov' = Atom(k) /\ pc' = "header" /\ mdat' = mdat
      /\ offset' = layout[k].start + layout[k].size
  BY <1>3, <1>4, <1>5, <1>6 DEF MoovParsed, Advance, Atom
<1>8. DOMAIN layout = 1 .. Len(layout) /\ Len(layout) \in Nat /\ k \in Nat
  BY DEF PlacesTyped
<1>9. Atom(k) # NoAtom
  BY <1>3 DEF Atom, NoAtom
<1>10. Noted(k)' /\ Before(k)'
  BY <1>3, <1>7, <1>9 DEF Before, Noted, NoAtom
<1>11. Before(k + 1)'
  <2>1. \A j \in DOMAIN layout : j < k + 1 => j < k \/ j = k
    BY <1>8
  <2> QED BY <1>10, <2>1 DEF Before
<1>12. k + 1 \in DOMAIN layout => layout[k + 1].start = layout[k].start + layout[k].size
  <2> SUFFICES ASSUME k + 1 \in DOMAIN layout
               PROVE  layout[k + 1].start = layout[k].start + layout[k].size
    OBVIOUS
  <2>1. k + 1 # 1 /\ (k + 1) - 1 = k
    BY <1>8
  <2> QED BY <2>1 DEF Whole
<1>13. AtomNext(k + 1)' /\ k + 1 \in 1 .. Len(layout) + 1
  BY <1>7, <1>8, <1>11, <1>12 DEF AtomNext
<1>14. IsAtom(moov)'
  BY <1>7 DEF IsAtom, HeaderAt, Atom
<1>15. mdat # NoAtom => IsAtom(mdat)'
  BY <1>7 DEF Opening, IsAtom, HeaderAt
<1> QED BY <1>7, <1>13, <1>14, <1>15 DEF Opening, Reading, NoAtom

LEMMA OpenInvNext == IInv /\ OpenInv /\ [Next]_vars => OpenInv'
<1> SUFFICES ASSUME PlacesTyped, ReaderInv, OpenInv, [Next]_vars, Whole', ~ failed'
             PROVE  Opening'
  BY DEF IInv, OpenInv
<1>1. layout' = layout /\ filesize' = filesize
  BY FileStays
<1>2. ~ failed /\ Whole /\ Opening
  <2>1. ~ failed
    BY FailedStays
  <2>2. Whole
    BY <1>1 DEF Whole, Has
  <2> QED BY <2>1, <2>2 DEF OpenInv
<1>3. CASE ReadHeader
  BY <1>1, <1>2, <1>3, ReadHeaderOpens
<1>4. CASE HeaderFails
  <2>1. pc \in {"header_read", "size_read"} /\ ~ reply.ok
    BY <1>4 DEF HeaderFails
  <2>2. reply.ok
    BY <1>2, <2>1 DEF Opening, Reading, OnWay, Answered
  <2> QED BY <2>1, <2>2
<1>5. CASE ShortHeader
  BY <1>1, <1>2, <1>5, ShortHeaderOpens
<1>6. CASE ReadSize
  BY <1>1, <1>2, <1>6, ReadSizeOpens
<1>7. CASE WideHeader
  BY <1>1, <1>2, <1>7, WideHeaderOpens
<1>8. CASE OtherAtom
  BY <1>1, <1>2, <1>8, OtherAtomOpens
<1>9. CASE MoovTooLarge
  <2>1. pc = "atom" /\ leaf_atom.type = "moov" /\ leaf_atom.size > max_buffer_size
    BY <1>9 DEF MoovTooLarge
  <2>2. PICK k \in DOMAIN layout : leaf_atom = Atom(k)
    BY <1>2, <2>1 DEF Opening, Reading, OnWay
  <2>3. layout[k].type = "moov" /\ layout[k].size > max_buffer_size
    BY <2>1, <2>2 DEF Atom
  <2>4. layout[k].size <= max_buffer_size
    BY <1>2, <2>3 DEF Whole, Has
  <2>5. layout[k].size \in Nat /\ max_buffer_size \in Nat
    BY AtomsTyped, Mp4FileAssumption
  <2> QED BY <2>3, <2>4, <2>5
<1>10. CASE ReadMoov
  BY <1>1, <1>2, <1>10, ReadMoovOpens
<1>11. CASE MoovUnread
  <2>1. pc = "moov_read" /\ ~ reply.ok
    BY <1>11 DEF MoovUnread
  <2>2. reply.ok
    BY <1>2, <2>1 DEF Opening, Reading, OnWay, Answered
  <2> QED BY <2>1, <2>2
<1>12. CASE MoovParsed
  BY <1>1, <1>2, <1>12, MoovParsedOpens
<1>13. CASE Opened
  <2>1. pc' = "opened" /\ moov # NoAtom /\ mdat # NoAtom /\ moov' = moov /\ mdat' = mdat
    BY <1>13 DEF Opened
  <2> QED BY <1>1, <1>2, <2>1, FoundStays DEF Opening, Reading, NoAtom
<1>14. CASE NoIndex
  BY <1>2, <1>14 DEF NoIndex, Opening
<1>15. CASE Listed \/ ReadSamples
  <2>1. pc' = "served" /\ moov' = moov /\ mdat' = mdat
    BY <1>15 DEF Listed, ReadSamples
  <2> QED BY <1>1, <1>2, <2>1, FoundStays DEF Opening, Reading
<1>16. CASE UNCHANGED vars
  BY <1>2, <1>16 DEF vars, context, Opening, AtomNext, OnWay, Before, Noted, Atom, Answered,
                     IsAtom, HeaderAt
<1> QED BY <1>3, <1>4, <1>5, <1>6, <1>7, <1>8, <1>9, <1>10, <1>11, <1>12, <1>13, <1>14,
           <1>15, <1>16 DEF Next

\* mp4_open: a file whose atoms are all there is opened with its moov and its
\* mdat, however they are ordered and whatever else is there, unless a read
\* fails.
THEOREM WholeFilesOpen == Spec => []OpensWholeFiles
<1>1. Init => OpenInv
  BY OpenInvInit
<1>2. IInv /\ OpenInv => OpensWholeFiles
  <2> SUFFICES ASSUME PlacesTyped, Whole, ~ failed, Opening PROVE OpensWholeFiles
    BY DEF IInv, OpenInv, OpensWholeFiles
  <2>1. pc # "refused"
    BY DEF Opening, Reading
  <2>2. pc = "header" => (moov # NoAtom /\ mdat # NoAtom) \/ HeaderAt(offset) # {}
    <3> SUFFICES ASSUME pc = "header", moov = NoAtom \/ mdat = NoAtom
                 PROVE  HeaderAt(offset) # {}
      OBVIOUS
    <3>1. PICK k \in 1 .. Len(layout) + 1 : AtomNext(k)
      BY DEF Opening
    <3>2. k \in DOMAIN layout /\ offset = layout[k].start
      BY <3>1, MoreToCome DEF AtomNext
    <3> QED BY <3>2 DEF HeaderAt
  <2>3. pc = "opened" => IsAtom(moov) /\ IsAtom(mdat)
    BY DEF Opening
  <2> QED BY <2>1, <2>2, <2>3 DEF OpensWholeFiles
<1> QED BY <1>1, <1>2, IInvAlways, OpenInvNext, PTL DEF Spec

-----------------------------------------------------------------------------
(* AtomTree: atoms, and the children of atoms.                             *)

\* A set of natural numbers that is not empty has a smallest one.
LEMMA LeastNat ==
  ASSUME NEW S \in SUBSET Nat, S # {}
  PROVE  \E m \in S : \A n \in S : m <= n
<1>1. PICK m \in S : \A n \in S : ~ (<<n, m>> \in OpToRel(<, Nat))
  BY WFMin, NatLessThanWellFounded
<1>2. \A n \in S : ~ (n < m)
  BY <1>1 DEF OpToRel
<1> QED BY <1>2

\* What the assumption says of the atoms of the file.
LEMMA AtomsNested ==
  ASSUME atoms \in Files
  PROVE  /\ Len(atoms) \in Nat \ {0} /\ DOMAIN atoms = 1 .. Len(atoms)
         /\ atoms[1].type = "moov" /\ LastIn(1) = Len(atoms)
         /\ \A k \in DOMAIN atoms : LastIn(k) \in k .. Len(atoms) /\ atoms[k].depth \in Nat
         /\ \A k \in 2 .. Len(atoms) : atoms[k].depth <= atoms[k - 1].depth + 1
         /\ \A j, k \in DOMAIN atoms :
              j < k => IF k <= LastIn(j)
                       THEN LastIn(k) <= LastIn(j) /\ atoms[k].depth > atoms[j].depth
                       ELSE \E i \in j + 1 .. k : atoms[i].depth <= atoms[j].depth
BY AtomTreeAssumption DEF Nested, LastIn

\* The first atom inside another is a child of it.
LEMMA FirstKid ==
  ASSUME atoms \in Files, NEW k \in DOMAIN atoms, k + 1 <= LastIn(k)
  PROVE  k + 1 \in Kids(k)
<1>1. k + 1 \in DOMAIN atoms /\ k + 1 \in 2 .. Len(atoms) /\ k \in Nat /\ LastIn(k) \in Nat
  BY AtomsNested
<1>2. atoms[k + 1].depth <= atoms[k].depth + 1
  <2>1. atoms[k + 1].depth <= atoms[(k + 1) - 1].depth + 1
    BY <1>1, AtomsNested
  <2> QED BY <1>1, <2>1
<1>3. atoms[k + 1].depth > atoms[k].depth
  BY <1>1, AtomsNested
<1>4. atoms[k].depth \in Nat /\ atoms[k + 1].depth \in Nat
  BY <1>1, AtomsNested
<1> QED BY <1>1, <1>2, <1>3, <1>4 DEF Kids

\* Behind a child of an atom, and what is inside the child, comes the next child
\* or the end of the atom.
LEMMA NextKid ==
  ASSUME atoms \in Files, NEW k \in DOMAIN atoms, NEW j \in Kids(k)
  PROVE  /\ j \in DOMAIN atoms /\ k < j /\ j <= LastIn(j) /\ LastIn(j) <= LastIn(k)
         /\ LastIn(j) + 1 <= LastIn(k) => LastIn(j) + 1 \in Kids(k)
<1>1. /\ j \in DOMAIN atoms /\ k < j /\ j <= LastIn(k) /\ j \in Nat /\ k \in Nat
      /\ LastIn(k) \in Nat /\ LastIn(j) \in Nat
      /\ LastIn(k) <= Len(atoms) /\ j <= LastIn(j) /\ LastIn(j) <= LastIn(k)
  BY AtomsNested DEF Kids
<1>2. ASSUME LastIn(j) + 1 <= LastIn(k)
      PROVE  LastIn(j) + 1 \in Kids(k)
  <2> DEFINE n == LastIn(j) + 1
  <2>1. n \in DOMAIN atoms /\ n \in Nat /\ j < n /\ k < n /\ n <= LastIn(k) /\ ~ (n <= LastIn(j))
    BY <1>1, <1>2, AtomsNested
  <2>2. PICK i \in j + 1 .. n : atoms[i].depth <= atoms[j].depth
    BY <1>1, <2>1, AtomsNested
  <2>3. i \in DOMAIN atoms
    BY <1>1, <2>1, <2>2, AtomsNested
  <2>4. i = n
    <3>1. CASE i <= LastIn(j)
      <4>1. atoms[i].depth > atoms[j].depth
        BY <1>1, <2>2, <2>3, <3>1, AtomsNested
      <4>2. atoms[i].depth \in Nat /\ atoms[j].depth \in Nat
        BY <1>1, <2>3, AtomsNested
      <4> QED BY <2>2, <4>1, <4>2
    <3> QED BY <1>1, <2>1, <2>2, <3>1
  <2>5. atoms[n].depth > atoms[k].depth
    BY <1>1, <2>1, AtomsNested
  <2>6. atoms[j].depth = atoms[k].depth + 1
    BY DEF Kids
  <2>7. atoms[n].depth \in Nat /\ atoms[k].depth \in Nat
    BY <2>1, AtomsNested
  <2>8. atoms[n].depth = atoms[k].depth + 1
    BY <2>2, <2>4, <2>5, <2>6, <2>7
  <2> QED BY <1>1, <2>1, <2>8 DEF Kids
<1> QED BY <1>1, <1>2

-----------------------------------------------------------------------------
(* Objects                                                                 *)

IsObject(o) == \E S : o \in [slots : [S -> Nat], tracks : Seq(Nat), unknown : Seq(Nat)]

\* The fields of an object.
LEMMA ObjectFields ==
  ASSUME NEW o, IsObject(o)
  PROVE  /\ o.slots \in [DOMAIN o.slots -> Nat]
         /\ o.tracks \in Seq(Nat) /\ o.unknown \in Seq(Nat)
BY DEF IsObject

\* An object that has just been allocated refers to nothing.
LEMMA FreshHoldsNothing ==
  ASSUME NEW type
  PROVE  /\ IsObject(Fresh(type)) /\ HeldBy(Fresh(type)) = {} /\ Apart(Fresh(type))
         /\ DOMAIN Fresh(type).slots = Slots(type)
<1> DEFINE o == Fresh(type)
<1>1. /\ o.slots = [c \in Slots(type) |-> 0] /\ o.tracks = <<>> /\ o.unknown = <<>>
  BY DEF Fresh
<1> HIDE DEF o
<1>2. IsObject(o)
  BY <1>1 DEF IsObject, Fresh, o
<1>3. Slotted(o) = {} /\ Range(o.tracks) = {} /\ Range(o.unknown) = {}
  BY <1>1 DEF Slotted, Range
<1>4. IsInjective(o.tracks) /\ IsInjective(o.unknown)
  BY <1>1 DEF IsInjective
<1>5. Apart(o)
  BY <1>1, <1>3, <1>4 DEF Apart
<1> QED BY <1>1, <1>2, <1>3, <1>5 DEF HeldBy, o

\* A reference more in a slot, and what was there before is forgotten.
LEMMA SlotHolds ==
  ASSUME NEW o, IsObject(o), Apart(o), NEW c \in DOMAIN o.slots,
         NEW j \in Nat \ {0}, j \notin HeldBy(o)
  PROVE  LET p == [o EXCEPT !.slots[c] = j]
         IN  /\ IsObject(p) /\ Apart(p)
             /\ HeldBy(p) \subseteq HeldBy(o) \cup {j} /\ j \in HeldBy(p)
             /\ p.slots = [o.slots EXCEPT ![c] = j] /\ p.tracks = o.tracks /\ p.unknown = o.unknown
             /\ HeldBy(o) \subseteq HeldBy(p) \cup {o.slots[c]}
<1> DEFINE p == [o EXCEPT !.slots[c] = j]
<1>1. /\ p.slots = [o.slots EXCEPT ![c] = j] /\ p.tracks = o.tracks /\ p.unknown = o.unknown
  BY DEF IsObject
<1>0. p \in [slots : {p.slots}, tracks : {p.tracks}, unknown : {p.unknown}]
  BY DEF IsObject
<1> HIDE DEF p
<1>2. DOMAIN p.slots = DOMAIN o.slots /\ p.slots[c] = j
      /\ \A d \in DOMAIN o.slots : d # c => p.slots[d] = o.slots[d]
  BY <1>1
<1>3. IsObject(p)
  <2>1. p.slots \in [DOMAIN o.slots -> Nat]
    BY <1>1, ObjectFields
  <2> QED BY <1>0, <1>1, <2>1, ObjectFields DEF IsObject
<1>4. Slotted(p) \subseteq Slotted(o) \cup {j} /\ j \in Slotted(p)
      /\ Slotted(o) \subseteq Slotted(p) \cup {o.slots[c]}
  BY <1>2 DEF Slotted
<1>5. /\ HeldBy(p) \subseteq HeldBy(o) \cup {j} /\ j \in HeldBy(p)
      /\ HeldBy(o) \subseteq HeldBy(p) \cup {o.slots[c]}
  BY <1>1, <1>4 DEF HeldBy
<1>6. j \notin Slotted(o) /\ j \notin Range(o.tracks) /\ j \notin Range(o.unknown)
  BY DEF HeldBy
<1>7. \A d \in DOMAIN o.slots : o.slots[d] # j
  BY <1>6 DEF Slotted
<1>8. \A d, e \in DOMAIN p.slots : p.slots[d] = p.slots[e] /\ p.slots[d] # 0 => d = e
  BY <1>2, <1>7 DEF Apart
<1>9. Apart(p)
  BY <1>1, <1>4, <1>6, <1>8 DEF Apart
<1> QED BY <1>1, <1>3, <1>5, <1>9 DEF p

\* One more at the end of a list.
LEMMA ListHolds ==
  ASSUME NEW s \in Seq(Nat), IsInjective(s), NEW j \in Nat, j \notin Range(s)
  PROVE  /\ Append(s, j) \in Seq(Nat) /\ IsInjective(Append(s, j))
         /\ Range(Append(s, j)) = Range(s) \cup {j}
<1>1. /\ DOMAIN Append(s, j) = 1 .. Len(s) + 1 /\ Len(s) \in Nat /\ DOMAIN s = 1 .. Len(s)
      /\ Append(s, j)[Len(s) + 1] = j
      /\ \A i \in 1 .. Len(s) : Append(s, j)[i] = s[i]
  BY AppendProperties
<1>2. Append(s, j) \in Seq(Nat)
  OBVIOUS
<1>3. \A i \in 1 .. Len(s) : s[i] # j
  BY <1>1 DEF Range
<1>4. IsInjective(Append(s, j))
  <2> SUFFICES ASSUME NEW a \in DOMAIN Append(s, j), NEW b \in DOMAIN Append(s, j),
                      Append(s, j)[a] = Append(s, j)[b]
               PROVE  a = b
    BY DEF IsInjective
  <2>1. CASE a \in 1 .. Len(s) /\ b \in 1 .. Len(s)
    BY <1>1, <2>1 DEF IsInjective
  <2> QED BY <1>1, <1>3, <2>1
<1>5. Range(Append(s, j)) = Range(s) \cup {j}
  <2>1. ASSUME NEW x \in Range(Append(s, j)) PROVE x \in Range(s) \cup {j}
    BY <1>1 DEF Range
  <2>2. ASSUME NEW x \in Range(s) PROVE x \in Range(Append(s, j))
    BY <1>1 DEF Range
  <2>3. j \in Range(Append(s, j))
    <3>1. Len(s) + 1 \in DOMAIN Append(s, j)
      BY <1>1
    <3> QED BY <1>1, <3>1 DEF Range
  <2> QED BY <2>1, <2>2, <2>3
<1> QED BY <1>2, <1>4, <1>5

\* A track is appended to the list of an object.
LEMMA TracksHold ==
  ASSUME NEW o, IsObject(o), Apart(o), NEW j \in Nat \ {0}, j \notin HeldBy(o)
  PROVE  LET p == [o EXCEPT !.tracks = Append(@, j)]
         IN  /\ IsObject(p) /\ Apart(p) /\ HeldBy(p) = HeldBy(o) \cup {j}
             /\ p.slots = o.slots /\ p.tracks = Append(o.tracks, j) /\ p.unknown = o.unknown
<1> DEFINE p == [o EXCEPT !.tracks = Append(@, j)]
<1>1. /\ p.slots = o.slots /\ p.tracks = Append(o.tracks, j) /\ p.unknown = o.unknown
  BY DEF IsObject
<1>0. p \in [slots : {p.slots}, tracks : {p.tracks}, unknown : {p.unknown}]
  BY DEF IsObject
<1> HIDE DEF p
<1>2. j \notin Slotted(o) /\ j \notin Range(o.tracks) /\ j \notin Range(o.unknown)
  BY DEF HeldBy
<1>3. /\ p.tracks \in Seq(Nat) /\ IsInjective(p.tracks)
      /\ Range(p.tracks) = Range(o.tracks) \cup {j}
  BY <1>1, <1>2, ListHolds, ObjectFields DEF Apart
<1>4. IsObject(p)
  <2>1. p.slots \in [DOMAIN o.slots -> Nat]
    BY <1>1, ObjectFields
  <2> QED BY <1>0, <1>1, <1>3, <2>1, ObjectFields DEF IsObject
<1>5. Slotted(p) = Slotted(o)
  BY <1>1 DEF Slotted
<1>6. Apart(p)
  BY <1>1, <1>2, <1>3, <1>5 DEF Apart
<1>7. HeldBy(p) = HeldBy(o) \cup {j}
  BY <1>1, <1>3, <1>5 DEF HeldBy
<1> QED BY <1>1, <1>4, <1>6, <1>7 DEF p

\* An unknown atom is appended to the list of an object.
LEMMA UnknownHolds ==
  ASSUME NEW o, IsObject(o), Apart(o), NEW j \in Nat \ {0}, j \notin HeldBy(o)
  PROVE  LET p == [o EXCEPT !.unknown = Append(o.unknown, j)]
         IN  /\ IsObject(p) /\ Apart(p) /\ HeldBy(p) = HeldBy(o) \cup {j}
             /\ p.slots = o.slots /\ p.tracks = o.tracks /\ p.unknown = Append(o.unknown, j)
<1> DEFINE p == [o EXCEPT !.unknown = Append(o.unknown, j)]
<1>1. /\ p.slots = o.slots /\ p.tracks = o.tracks /\ p.unknown = Append(o.unknown, j)
  BY DEF IsObject
<1>0. p \in [slots : {p.slots}, tracks : {p.tracks}, unknown : {p.unknown}]
  BY DEF IsObject
<1> HIDE DEF p
<1>2. j \notin Slotted(o) /\ j \notin Range(o.tracks) /\ j \notin Range(o.unknown)
  BY DEF HeldBy
<1>3. /\ p.unknown \in Seq(Nat) /\ IsInjective(p.unknown)
      /\ Range(p.unknown) = Range(o.unknown) \cup {j}
  BY <1>1, <1>2, ListHolds, ObjectFields DEF Apart
<1>4. IsObject(p)
  <2>1. p.slots \in [DOMAIN o.slots -> Nat]
    BY <1>1, ObjectFields
  <2> QED BY <1>0, <1>1, <1>3, <2>1, ObjectFields DEF IsObject
<1>5. Slotted(p) = Slotted(o)
  BY <1>1 DEF Slotted
<1>6. Apart(p)
  BY <1>1, <1>2, <1>3, <1>5 DEF Apart
<1>7. HeldBy(p) = HeldBy(o) \cup {j}
  BY <1>1, <1>3, <1>5 DEF HeldBy
<1> QED BY <1>1, <1>4, <1>6, <1>7 DEF p

\* The list of unknown atoms is emptied.
LEMMA UnknownForgotten ==
  ASSUME NEW o, IsObject(o), Apart(o)
  PROVE  LET p == [o EXCEPT !.unknown = <<>>]
         IN  /\ IsObject(p) /\ Apart(p) /\ HeldBy(p) \subseteq HeldBy(o)
             /\ HeldBy(o) \subseteq HeldBy(p) \cup Range(o.unknown)
             /\ p.slots = o.slots /\ p.tracks = o.tracks /\ p.unknown = <<>>
<1> DEFINE p == [o EXCEPT !.unknown = <<>>]
<1>1. /\ p.slots = o.slots /\ p.tracks = o.tracks /\ p.unknown = <<>>
  BY DEF IsObject
<1>0. p \in [slots : {p.slots}, tracks : {p.tracks}, unknown : {p.unknown}]
  BY DEF IsObject
<1> HIDE DEF p
<1>2. IsObject(p)
  <2>1. p.slots \in [DOMAIN o.slots -> Nat] /\ p.unknown \in Seq(Nat)
    BY <1>1, ObjectFields
  <2> QED BY <1>0, <1>1, <2>1, ObjectFields DEF IsObject
<1>3. Slotted(p) = Slotted(o) /\ Range(p.unknown) = {} /\ IsInjective(p.unknown)
  BY <1>1 DEF Slotted, Range, IsInjective
<1>4. Apart(p)
  BY <1>1, <1>3 DEF Apart
<1>5. HeldBy(p) \subseteq HeldBy(o) /\ HeldBy(o) \subseteq HeldBy(p) \cup Range(o.unknown)
  BY <1>1, <1>3 DEF HeldBy
<1> QED BY <1>1, <1>2, <1>4, <1>5 DEF p

\* The objects of heap H form trees: each refers to objects with later atoms,
\* inside its own, and no object is referred to twice.
Forest(H) ==
  /\ DOMAIN H \subseteq DOMAIN atoms
  /\ \A k \in DOMAIN H : /\ IsObject(H[k]) /\ Apart(H[k])
                         /\ HeldBy(H[k]) \subseteq DOMAIN H \cap (k + 1 .. LastIn(k))
  /\ \A j, k \in DOMAIN H : j # k => HeldBy(H[j]) \cap HeldBy(H[k]) = {}

\* Nothing in H refers to object r, which is one of them.
Unheld(H, r) == r \in DOMAIN H /\ \A k \in DOMAIN H : r \notin HeldBy(H[k])

\* H with an object that has just been allocated.
Extended(H, c, type) == [k \in DOMAIN H \cup {c} |-> IF k = c THEN Fresh(type) ELSE H[k]]

\* An object is allocated: it refers to nothing, and nothing refers to it.
LEMMA ForestGrows ==
  ASSUME NEW H, Forest(H), NEW c \in DOMAIN atoms, c \notin DOMAIN H, NEW type
  PROVE  /\ Forest(Extended(H, c, type)) /\ Unheld(Extended(H, c, type), c)
         /\ \A r : Unheld(H, r) => Unheld(Extended(H, c, type), r)
         /\ DOMAIN Extended(H, c, type) = DOMAIN H \cup {c}
         /\ Extended(H, c, type)[c] = Fresh(type)
         /\ \A k \in DOMAIN H : Extended(H, c, type)[k] = H[k]
<1> DEFINE G == Extended(H, c, type)
<1>1. /\ DOMAIN G = DOMAIN H \cup {c} /\ G[c] = Fresh(type)
      /\ \A k \in DOMAIN H : G[k] = H[k]
  BY DEF Extended
<1> HIDE DEF G
<1>2. HeldBy(G[c]) = {} /\ IsObject(G[c]) /\ Apart(G[c])
  BY <1>1, FreshHoldsNothing
<1>3. Forest(G)
  <2>1. DOMAIN G \subseteq DOMAIN atoms
    BY <1>1 DEF Forest
  <2>2. \A k \in DOMAIN G : /\ IsObject(G[k]) /\ Apart(G[k])
                            /\ HeldBy(G[k]) \subseteq DOMAIN G \cap (k + 1 .. LastIn(k))
    BY <1>1, <1>2 DEF Forest
  <2>3. \A j, k \in DOMAIN G : j # k => HeldBy(G[j]) \cap HeldBy(G[k]) = {}
    BY <1>1, <1>2 DEF Forest
  <2> QED BY <2>1, <2>2, <2>3 DEF Forest
<1>4. Unheld(G, c)
  BY <1>1, <1>2 DEF Unheld, Forest
<1>5. \A r : Unheld(H, r) => Unheld(G, r)
  BY <1>1, <1>2 DEF Unheld
<1> QED BY <1>1, <1>3, <1>4, <1>5 DEF G

\* An object comes to refer to one that nobody refers to.
LEMMA ForestHolds ==
  ASSUME NEW H, Forest(H), NEW k \in DOMAIN H, NEW j, Unheld(H, j), j \in k + 1 .. LastIn(k),
         NEW p, IsObject(p), Apart(p), HeldBy(p) \subseteq HeldBy(H[k]) \cup {j}
  PROVE  /\ Forest([H EXCEPT ![k] = p])
         /\ \A r : Unheld(H, r) /\ r # j => Unheld([H EXCEPT ![k] = p], r)
<1> DEFINE G == [H EXCEPT ![k] = p]
<1>1. /\ DOMAIN G = DOMAIN H /\ G[k] = p
      /\ \A i \in DOMAIN H : i # k => G[i] = H[i]
  OBVIOUS
<1> HIDE DEF G
<1>2. j \in DOMAIN H /\ \A i \in DOMAIN H : j \notin HeldBy(H[i])
  BY DEF Unheld
<1>3. Forest(G)
  <2>1. DOMAIN G \subseteq DOMAIN atoms
    BY <1>1 DEF Forest
  <2>2. \A i \in DOMAIN G : /\ IsObject(G[i]) /\ Apart(G[i])
                            /\ HeldBy(G[i]) \subseteq DOMAIN G \cap (i + 1 .. LastIn(i))
    BY <1>1, <1>2 DEF Forest
  <2>3. \A a, b \in DOMAIN G : a # b => HeldBy(G[a]) \cap HeldBy(G[b]) = {}
    BY <1>1, <1>2 DEF Forest
  <2> QED BY <2>1, <2>2, <2>3 DEF Forest
<1>4. \A r : Unheld(H, r) /\ r # j => Unheld(G, r)
  BY <1>1 DEF Unheld
<1> QED BY <1>3, <1>4 DEF G

\* An object forgets some of those it refers to.
LEMMA ForestForgets ==
  ASSUME NEW H, Forest(H), NEW k \in DOMAIN H,
         NEW p, IsObject(p), Apart(p), HeldBy(p) \subseteq HeldBy(H[k])
  PROVE  /\ Forest([H EXCEPT ![k] = p])
         /\ \A r : Unheld(H, r) => Unheld([H EXCEPT ![k] = p], r)
<1> DEFINE G == [H EXCEPT ![k] = p]
<1>1. /\ DOMAIN G = DOMAIN H /\ G[k] = p
      /\ \A i \in DOMAIN H : i # k => G[i] = H[i]
  OBVIOUS
<1> HIDE DEF G
<1>3. Forest(G)
  <2>1. DOMAIN G \subseteq DOMAIN atoms
    BY <1>1 DEF Forest
  <2>2. \A i \in DOMAIN G : /\ IsObject(G[i]) /\ Apart(G[i])
                            /\ HeldBy(G[i]) \subseteq DOMAIN G \cap (i + 1 .. LastIn(i))
    BY <1>1 DEF Forest
  <2>3. \A a, b \in DOMAIN G : a # b => HeldBy(G[a]) \cap HeldBy(G[b]) = {}
    BY <1>1 DEF Forest
  <2> QED BY <2>1, <2>2, <2>3 DEF Forest
<1>4. \A r : Unheld(H, r) => Unheld(G, r)
  BY <1>1 DEF Unheld
<1> QED BY <1>3, <1>4 DEF G

-----------------------------------------------------------------------------
(* What is reached                                                         *)

\* In a forest the recursion over what is reached ends.
LEMMA ReachedUnfolds ==
  ASSUME atoms \in Files, Forest(heap)
  PROVE  /\ DOMAIN Reached = DOMAIN atoms
         /\ \A k \in DOMAIN atoms : Reached[k] = {k} \cup UNION {Reached[j] : j \in Held(k)}
<1> DEFINE N == Len(atoms)
           From(m) == {k \in DOMAIN atoms : m <= k}
           Solves(f, S) == f = [k \in S |-> {k} \cup UNION {f[j] : j \in Held(k)}]
           Ends(d) == \E f : Solves(f, From(N + 1 - d))
           Bad == {d \in Nat : d <= N /\ ~ Ends(d)}
<1>1. N \in Nat \ {0} /\ DOMAIN atoms = 1 .. N
      /\ \A k \in DOMAIN atoms : LastIn(k) \in k .. N
  BY AtomsNested
<1>2. \A k \in DOMAIN atoms : \A j \in Held(k) : j \in DOMAIN atoms /\ j > k
  BY <1>1 DEF Forest, Held
<1>3. Bad = {}
  <2> SUFFICES ASSUME Bad # {} PROVE FALSE
    OBVIOUS
  <2>0. Bad \in SUBSET Nat
    OBVIOUS
  <2>1. PICK d \in Bad : \A e \in Bad : d <= e
    BY <2>0, LeastNat
  <2>11. d \in Nat /\ d <= N /\ ~ Ends(d) /\ \A e \in Nat : e < d /\ e <= N => Ends(e)
    <3> HIDE DEF Ends
    <3> QED BY <1>1, <2>1
  <2>2. CASE d = 0
    <3>1. From(N + 1 - d) = {}
      BY <1>1, <2>2
    <3> DEFINE g == [k \in {} |-> {k}]
    <3>2. Solves(g, From(N + 1 - d))
      <4>1. g = [k \in {} |-> {k} \cup UNION {g[j] : j \in Held(k)}]
        OBVIOUS
      <4> QED BY <3>1, <4>1
    <3> QED BY <2>11, <3>2
  <2>3. CASE d # 0
    <3>1. d - 1 \in Nat /\ Ends(d - 1) /\ d \in 1 .. N
      <4> HIDE DEF Ends
      <4> QED BY <1>1, <2>11, <2>3
    <3>2. PICK f : Solves(f, From(N + 1 - (d - 1)))
      BY <3>1
    <3> DEFINE m == N + 1 - d
               g == [k \in From(m) |->
                       IF k = m THEN {m} \cup UNION {f[j] : j \in Held(m)} ELSE f[k]]
    <3>3. m \in DOMAIN atoms /\ From(m) = {m} \cup From(m + 1) /\ m \notin From(m + 1)
          /\ N + 1 - (d - 1) = m + 1
      BY <1>1, <3>1
    <3>4. \A k \in From(m) : \A j \in Held(k) : j \in From(m + 1)
      BY <1>1, <1>2, <3>3
    <3>5. Solves(f, From(m + 1))
      BY <3>2, <3>3
    <3> HIDE DEF m, From, Bad
    <3>6. \A j \in From(m + 1) : g[j] = f[j]
      BY <3>3
    <3>7. \A k \in From(m) : UNION {g[j] : j \in Held(k)} = UNION {f[j] : j \in Held(k)}
      BY <3>4, <3>6
    <3>8. ASSUME NEW k \in From(m)
          PROVE  g[k] = {k} \cup UNION {g[j] : j \in Held(k)}
      <4>1. CASE k = m
        <5>1. g[k] = {k} \cup UNION {f[j] : j \in Held(k)}
          BY <4>1
        <5> QED BY <3>7, <5>1
      <4>2. CASE k # m
        <5>1. k \in From(m + 1)
          BY <3>3, <4>2
        <5>2. g[k] = f[k]
          BY <3>6, <5>1
        <5>3. f[k] = {k} \cup UNION {f[j] : j \in Held(k)}
          BY <3>5, <5>1
        <5> QED BY <3>7, <5>2, <5>3
      <4> QED BY <4>1, <4>2
    <3>9. Solves(g, From(m))
      <4>1. g = [k \in From(m) |-> g[k]]
        OBVIOUS
      <4> HIDE DEF g
      <4>2. g = [k \in From(m) |-> {k} \cup UNION {g[j] : j \in Held(k)}]
        BY <3>8, <4>1
      <4> QED BY <4>2
    <3>10. Ends(d)
      <4> HIDE DEF g
      <4> QED BY <3>9 DEF m
    <3> QED BY <2>11, <3>10
  <2> QED BY <2>2, <2>3
<1>4. \E f : Solves(f, DOMAIN atoms)
  <2>1. Ends(N)
    <3> HIDE DEF Ends
    <3> QED BY <1>1, <1>3
  <2>2. \E f : Solves(f, From(N + 1 - N))
    BY <2>1
  <2>3. From(N + 1 - N) = DOMAIN atoms
    BY <1>1
  <2> QED BY <2>2, <2>3
<1>5. Solves(Reached, DOMAIN atoms)
  <2>1. Reached = CHOOSE f : Solves(f, DOMAIN atoms)
    BY DEF Reached
  <2> QED BY <1>4, <2>1
<1>6. DOMAIN Reached = DOMAIN atoms
  BY <1>5
<1> QED BY <1>5, <1>6

\* What is true of an atom when it is true of those behind it, is true of all.
LEMMA FromTheLast ==
  ASSUME atoms \in Files, NEW Good1 \in SUBSET DOMAIN atoms,
         \A k \in DOMAIN atoms : (\A j \in DOMAIN atoms : j > k => j \in Good1) => k \in Good1
  PROVE  Good1 = DOMAIN atoms
<1> DEFINE N == Len(atoms)
           Bad == {d \in Nat : d < N /\ N - d \notin Good1}
<1>1. N \in Nat /\ DOMAIN atoms = 1 .. N
  BY AtomsNested
<1>2. Bad = {}
  <2> SUFFICES ASSUME Bad # {} PROVE FALSE
    OBVIOUS
  <2>1. Bad \in SUBSET Nat
    OBVIOUS
  <2>2. PICK d \in Bad : \A e \in Bad : d <= e
    BY <2>1, LeastNat
  <2>3. d \in Nat /\ d < N /\ N - d \in DOMAIN atoms /\ N - d \notin Good1
    BY <1>1, <2>2
  <2>4. ASSUME NEW j \in DOMAIN atoms, j > N - d PROVE j \in Good1
    <3>1. N - j \in Nat /\ N - j < d /\ N - j < N /\ N - (N - j) = j
      BY <1>1, <2>3, <2>4
    <3>2. N - j \notin Bad
      BY <2>2, <2>3, <3>1
    <3> QED BY <3>1, <3>2
  <2> QED BY <2>3, <2>4
<1>3. ASSUME NEW k \in DOMAIN atoms PROVE k \in Good1
  <2>1. N - k \in Nat /\ N - k < N /\ N - (N - k) = k
    BY <1>1
  <2>2. N - k \notin Bad
    BY <1>2
  <2> QED BY <2>1, <2>2
<1> QED BY <1>3

\* What is reached from an object lies inside of its atom, and is closed: whatever it
\* refers to is reached, and whatever is reached is referred to.
LEMMA ReachedIsClosed ==
  ASSUME atoms \in Files, Forest(heap), NEW k \in DOMAIN atoms
  PROVE  /\ k \in Reached[k] /\ Reached[k] \subseteq k .. LastIn(k)
         /\ k \in DOMAIN heap => Reached[k] \subseteq DOMAIN heap
         /\ \A x \in Reached[k] : Held(x) \subseteq Reached[k]
         /\ \A x \in Reached[k] : x = k \/ \E h \in Reached[k] : x \in Held(h)
<1> DEFINE P(a) == /\ a \in Reached[a] /\ Reached[a] \subseteq a .. LastIn(a)
                   /\ a \in DOMAIN heap => Reached[a] \subseteq DOMAIN heap
                   /\ \A x \in Reached[a] : Held(x) \subseteq Reached[a]
                   /\ \A x \in Reached[a] : x = a \/ \E h \in Reached[a] : x \in Held(h)
           S == {a \in DOMAIN atoms : P(a)}
<1>1. ASSUME NEW a \in DOMAIN atoms, \A j \in DOMAIN atoms : j > a => j \in S
      PROVE  a \in S
  <2>1. Reached[a] = {a} \cup UNION {Reached[j] : j \in Held(a)}
    BY ReachedUnfolds
  <2>2. /\ a \in Nat /\ LastIn(a) \in Nat /\ a <= LastIn(a)
        /\ \A j \in DOMAIN atoms : j \in Nat /\ LastIn(j) \in Nat
    BY AtomsNested
  <2>3. \A j \in Held(a) : /\ j \in DOMAIN atoms /\ j \in DOMAIN heap
                           /\ j > a /\ j <= LastIn(a) /\ LastIn(j) <= LastIn(a)
    <3> SUFFICES ASSUME NEW j \in Held(a)
                 PROVE  /\ j \in DOMAIN atoms /\ j \in DOMAIN heap
                        /\ j > a /\ j <= LastIn(a) /\ LastIn(j) <= LastIn(a)
      OBVIOUS
    <3>1. a \in DOMAIN heap /\ j \in DOMAIN heap \cap (a + 1 .. LastIn(a))
      BY DEF Held, Forest
    <3>2. j \in DOMAIN atoms /\ j > a /\ j <= LastIn(a)
      BY <2>2, <3>1 DEF Forest
    <3> QED BY <3>1, <3>2, AtomsNested
  <2>4. \A j \in Held(a) : P(j)
    BY <1>1, <2>3
  <2>5. a \in Reached[a] /\ \A j \in Held(a) : Reached[j] \subseteq Reached[a]
    BY <2>1
  <2>6. \A x \in Reached[a] : x = a \/ \E j \in Held(a) : x \in Reached[j]
    BY <2>1
  <2>7. Reached[a] \subseteq a .. LastIn(a)
    <3> SUFFICES ASSUME NEW x \in Reached[a], x # a PROVE x \in a .. LastIn(a)
      BY <2>2
    <3>1. PICK j \in Held(a) : x \in Reached[j]
      BY <2>6
    <3>2. x \in j .. LastIn(j)
      BY <2>4, <3>1
    <3> QED BY <2>2, <2>3, <3>2
  <2>8. a \in DOMAIN heap => Reached[a] \subseteq DOMAIN heap
    BY <2>3, <2>4, <2>6
  <2>9. \A x \in Reached[a] : Held(x) \subseteq Reached[a]
    <3> SUFFICES ASSUME NEW x \in Reached[a] PROVE Held(x) \subseteq Reached[a]
      OBVIOUS
    <3>1. CASE x = a
      <4>1. \A j \in Held(a) : j \in Reached[j]
        BY <2>4
      <4> QED BY <2>5, <3>1, <4>1
    <3>2. CASE x # a
      <4>1. PICK j \in Held(a) : x \in Reached[j]
        BY <2>6, <3>2
      <4>2. Held(x) \subseteq Reached[j]
        BY <2>4, <4>1
      <4> QED BY <2>5, <4>2
    <3> QED BY <3>1, <3>2
  <2>10. \A x \in Reached[a] : x = a \/ \E h \in Reached[a] : x \in Held(h)
    <3> SUFFICES ASSUME NEW x \in Reached[a], x # a
                 PROVE  \E h \in Reached[a] : x \in Held(h)
      OBVIOUS
    <3>1. PICK j \in Held(a) : x \in Reached[j]
      BY <2>6
    <3>2. CASE x = j
      BY <2>5, <3>2
    <3>3. CASE x # j
      <4>1. \E h \in Reached[j] : x \in Held(h)
        BY <2>4, <3>1, <3>3
      <4> QED BY <2>5, <4>1
    <3> QED BY <3>2, <3>3
  <2>11. P(a)
    BY <2>5, <2>7, <2>8, <2>9, <2>10
  <2> QED BY <2>11
<1>2. S \in SUBSET DOMAIN atoms
  OBVIOUS
<1> HIDE DEF S
<1>3. S = DOMAIN atoms
  BY <1>1, <1>2, FromTheLast
<1>4. P(k)
  BY <1>3 DEF S
<1> QED BY <1>4

\* What is reached from an object nobody refers to is a tree.
LEMMA RootIsTree ==
  ASSUME atoms \in Files, Forest(heap), NEW k, Unheld(heap, k)
  PROVE  IsTree(k)
<1>1. k \in DOMAIN heap /\ k \in DOMAIN atoms
  BY DEF Unheld, Forest
<1>2. Reached[k] \subseteq DOMAIN heap
  BY <1>1, ReachedIsClosed
<1>3. \A a \in Reached[k] : Held(a) = HeldBy(heap[a])
  BY <1>2 DEF Held
<1>4. \A a \in Reached[k] : Apart(heap[a]) /\ k \notin Held(a)
  BY <1>2, <1>3 DEF Forest, Unheld
<1>5. \A a, b \in Reached[k] : a # b => Held(a) \cap Held(b) = {}
  BY <1>2, <1>3 DEF Forest
<1> QED BY <1>2, <1>4, <1>5 DEF IsTree

\* Nothing is reached from two objects nobody refers to.
LEMMA RootsApart ==
  ASSUME atoms \in Files, Forest(heap), NEW j, Unheld(heap, j), NEW k, Unheld(heap, k), j # k
  PROVE  Reached[j] \cap Reached[k] = {}
<1> SUFFICES ASSUME Reached[j] \cap Reached[k] # {} PROVE FALSE
  OBVIOUS
<1> DEFINE S == Reached[j] \cap Reached[k]
<1>1. j \in DOMAIN heap /\ j \in DOMAIN atoms /\ k \in DOMAIN heap /\ k \in DOMAIN atoms
  BY DEF Unheld, Forest
<1>2. S \subseteq DOMAIN heap /\ S \subseteq DOMAIN atoms
  BY <1>1, ReachedIsClosed DEF Forest
<1>3. S \in SUBSET Nat
  BY <1>2, AtomsNested
<1>4. PICK x \in S : \A y \in S : x <= y
  BY <1>3, LeastNat
<1>5. ASSUME x # j, x # k PROVE FALSE
  <2>1. PICK h \in Reached[j] : x \in Held(h)
    BY <1>1, <1>4, <1>5, ReachedIsClosed
  <2>2. PICK g \in Reached[k] : x \in Held(g)
    BY <1>1, <1>4, <1>5, ReachedIsClosed
  <2>3. h \in DOMAIN heap /\ g \in DOMAIN heap
    BY <1>1, <2>1, <2>2, ReachedIsClosed
  <2>4. h = g
    BY <2>1, <2>2, <2>3 DEF Forest, Held
  <2>5. h \in S
    BY <2>4
  <2>6. x > h
    <3>1. x \in h + 1 .. LastIn(h)
      BY <2>1, <2>3 DEF Forest, Held
    <3>2. h \in Nat
      BY <1>3, <2>5
    <3> QED BY <3>1, <3>2
  <2>7. x <= h /\ h \in Nat /\ x \in Nat
    BY <1>3, <1>4, <2>5
  <2> QED BY <2>6, <2>7
<1>6. ASSUME NEW a, NEW b, Unheld(heap, a), Unheld(heap, b), a # b, a \in Reached[b] PROVE FALSE
  <2>1. b \in DOMAIN atoms /\ b \in DOMAIN heap
    BY <1>6 DEF Unheld, Forest
  <2>2. PICK h \in Reached[b] : a \in Held(h)
    BY <1>6, <2>1, ReachedIsClosed
  <2>3. h \in DOMAIN heap
    BY <2>1, <2>2, ReachedIsClosed
  <2> QED BY <1>6, <2>2, <2>3 DEF Held, Unheld
<1>7. CASE x = j
  BY <1>4, <1>6, <1>7
<1>8. CASE x = k
  BY <1>4, <1>6, <1>8
<1> QED BY <1>5, <1>7, <1>8

\* An object nobody refers to is freed, with what is reached from it: the others
\* still form trees, and no root is freed with it.
LEMMA ForestFrees ==
  ASSUME atoms \in Files, Forest(heap), NEW k, Unheld(heap, k)
  PROVE  LET G == [j \in DOMAIN heap \ Reached[k] |-> heap[j]]
         IN  /\ Forest(G)
             /\ \A r : Unheld(heap, r) /\ r # k => Unheld(G, r)
             /\ \A x \in DOMAIN G : \A h \in DOMAIN heap :
                  x \in HeldBy(heap[h]) => h \in DOMAIN G
<1> DEFINE G == [j \in DOMAIN heap \ Reached[k] |-> heap[j]]
<1>1. DOMAIN G = DOMAIN heap \ Reached[k] /\ \A j \in DOMAIN G : G[j] = heap[j]
  OBVIOUS
<1> HIDE DEF G
<1>2. k \in DOMAIN heap /\ k \in DOMAIN atoms
  BY DEF Unheld, Forest
<1>3. Reached[k] \subseteq DOMAIN heap
  BY <1>2, ReachedIsClosed
<1>4. \A x \in DOMAIN G : HeldBy(heap[x]) \cap Reached[k] = {}
  <2> SUFFICES ASSUME NEW x \in DOMAIN G, NEW y \in HeldBy(heap[x]), y \in Reached[k]
               PROVE  FALSE
    OBVIOUS
  <2>1. x \in DOMAIN heap /\ x \notin Reached[k]
    BY <1>1
  <2>2. y # k
    BY <2>1 DEF Unheld
  <2>3. PICK h \in Reached[k] : y \in Held(h)
    BY <1>2, <2>2, ReachedIsClosed
  <2>4. h \in DOMAIN heap /\ h # x /\ y \in HeldBy(heap[h])
    BY <1>3, <2>1, <2>3 DEF Held
  <2> QED BY <2>1, <2>4 DEF Forest
<1>5. Forest(G)
  <2>1. DOMAIN G \subseteq DOMAIN atoms
    BY <1>1 DEF Forest
  <2>2. \A i \in DOMAIN G : /\ IsObject(G[i]) /\ Apart(G[i])
                            /\ HeldBy(G[i]) \subseteq DOMAIN G \cap (i + 1 .. LastIn(i))
    BY <1>1, <1>4 DEF Forest
  <2>3. \A a, b \in DOMAIN G : a # b => HeldBy(G[a]) \cap HeldBy(G[b]) = {}
    BY <1>1 DEF Forest
  <2> QED BY <2>1, <2>2, <2>3 DEF Forest
<1>6. ASSUME NEW r, Unheld(heap, r), r # k PROVE Unheld(G, r)
  <2>1. r \in DOMAIN heap /\ r \in DOMAIN atoms
    BY <1>6 DEF Unheld, Forest
  <2>2. r \in Reached[r] /\ Reached[r] \cap Reached[k] = {}
    BY <1>6, <2>1, RootsApart, ReachedIsClosed
  <2>3. r \in DOMAIN G
    BY <1>1, <2>1, <2>2
  <2> QED BY <1>1, <1>6, <2>3 DEF Unheld
<1>7. ASSUME NEW x \in DOMAIN G, NEW h \in DOMAIN heap, x \in HeldBy(heap[h])
      PROVE  h \in DOMAIN G
  <2>1. CASE h \in Reached[k]
    <3>1. Held(h) \subseteq Reached[k]
      BY <1>2, <2>1, ReachedIsClosed
    <3> QED BY <1>1, <1>7, <3>1 DEF Held
  <2> QED BY <1>1, <2>1
<1> QED BY <1>5, <1>6, <1>7 DEF G

-----------------------------------------------------------------------------
(* The open calls, for a stack s, what was returned r, and where we are d.  *)

Call == [atom : Nat, next : Nat]

\* A call is at a child of its atom, or at the end.
Underway(c) ==
  /\ c.atom \in DOMAIN atoms /\ IsContainer(c.atom)
  /\ c.next \in c.atom + 1 .. LastIn(c.atom) + 1
  /\ c.next <= LastIn(c.atom) => c.next \in Kids(c.atom)

\* It has called the reader of the child it is at.
Awaits(c, j) == j = c.next /\ j <= LastIn(c.atom) /\ Knows(c.atom, atoms[j].type)

\* The atoms of the calls are nested, and moov is the outermost.
Nesting(s) ==
  /\ s \in Seq(Call)
  /\ \A n \in 1 .. Len(s) : Underway(s[n])
  /\ \A n \in 1 .. Len(s) - 1 : Awaits(s[n], s[n + 1].atom)
  /\ \A m, n \in 1 .. Len(s) : m < n => s[m].atom < s[n].atom
  /\ s # <<>> => s[1].atom = 1

\* The calls, and what was returned to the running one.
Calls(s, r, d) ==
  /\ Nesting(s)
  /\ r \in [atom : Nat, null : BOOLEAN]
  /\ d \in {"loop", "deliver", "check", "done"}
  /\ s = <<>> <=> d = "done"
  /\ d = "deliver" => Awaits(s[Len(s)], r.atom)
  /\ d = "done" => r.atom = 1

\* The running call is the last one, and its atom is inside those of the others.
LEMMA TopCall ==
  ASSUME NEW s, Nesting(s), s # <<>>
  PROVE  /\ Len(s) \in Nat \ {0} /\ DOMAIN s = 1 .. Len(s) /\ Len(s) \in 1 .. Len(s)
         /\ s[Len(s)] \in Call /\ Underway(s[Len(s)])
         /\ \A n \in 1 .. Len(s) : s[n] \in Call /\ s[n].atom <= s[Len(s)].atom
         /\ \A n \in 1 .. Len(s) : n # Len(s) => s[n].atom < s[Len(s)].atom
<1>1. Len(s) \in Nat \ {0} /\ DOMAIN s = 1 .. Len(s) /\ \A n \in 1 .. Len(s) : s[n] \in Call
  BY DEF Nesting
<1>2. ASSUME NEW n \in 1 .. Len(s), n # Len(s) PROVE s[n].atom < s[Len(s)].atom
  <2>1. Len(s) \in 1 .. Len(s) /\ n < Len(s)
    <3>1. Len(s) \in Nat \ {0}
      BY <1>1
    <3> QED BY <1>2, <3>1
  <2> QED BY <2>1 DEF Nesting
<1>3. \A n \in 1 .. Len(s) : s[n].atom \in Nat
  BY <1>1 DEF Call
<1>4. ASSUME NEW n \in 1 .. Len(s) PROVE s[n].atom <= s[Len(s)].atom
  <2>1. s[n].atom \in Nat /\ s[Len(s)].atom \in Nat
    BY <1>1, <1>3
  <2> QED BY <1>2, <2>1
<1>5. Len(s) \in 1 .. Len(s)
  BY <1>1
<1>6. Underway(s[Len(s)])
  BY <1>5 DEF Nesting
<1> QED BY <1>1, <1>2, <1>4, <1>5, <1>6

\* The child that a call awaits.
LEMMA Awaited ==
  ASSUME atoms \in Files, NEW c, Underway(c), NEW j, Awaits(c, j)
  PROVE  /\ j \in Kids(c.atom) /\ j \in DOMAIN atoms /\ c.atom \in Nat /\ j \in Nat
         /\ LastIn(j) \in Nat /\ LastIn(c.atom) \in Nat /\ j = c.next
         /\ c.atom < j /\ j <= LastIn(j) /\ LastIn(j) <= LastIn(c.atom)
         /\ LastIn(j) + 1 <= LastIn(c.atom) => LastIn(j) + 1 \in Kids(c.atom)
<1>1. j \in Kids(c.atom) /\ c.atom \in DOMAIN atoms /\ j = c.next
  BY DEF Underway, Awaits
<1>2. j \in DOMAIN atoms
  BY <1>1, NextKid
<1> QED BY <1>1, <1>2, NextKid, AtomsNested

\* A child is passed over.
LEMMA Passing ==
  ASSUME atoms \in Files, NEW s, Nesting(s), s # <<>>, NEW j \in Kids(s[Len(s)].atom),
         j = s[Len(s)].next
  PROVE  LET t == [s EXCEPT ![Len(s)].next = LastIn(j) + 1]
         IN  /\ Nesting(t) /\ Len(t) = Len(s) /\ t # <<>>
             /\ \A n \in 1 .. Len(s) : n # Len(s) => t[n] = s[n]
             /\ t[Len(s)] = [atom |-> s[Len(s)].atom, next |-> LastIn(j) + 1]
<1> DEFINE t == [s EXCEPT ![Len(s)].next = LastIn(j) + 1]
           L == Len(s)
           p == LastIn(j) + 1
<1>1. /\ L \in Nat \ {0} /\ DOMAIN s = 1 .. L /\ s[L] \in Call /\ Underway(s[L])
      /\ \A n \in 1 .. L : s[n] \in Call
  BY TopCall
<1>2. /\ s[L].atom \in DOMAIN atoms /\ j \in DOMAIN atoms /\ s[L].atom < j
      /\ j <= LastIn(j) /\ LastIn(j) <= LastIn(s[L].atom)
      /\ p <= LastIn(s[L].atom) => p \in Kids(s[L].atom)
  <2>1. s[L].atom \in DOMAIN atoms
    BY <1>1 DEF Underway
  <2> QED BY <2>1, NextKid
<1>3. /\ s[L].atom \in Nat /\ j \in Nat /\ LastIn(j) \in Nat /\ LastIn(s[L].atom) \in Nat
  <2>1. \A k \in DOMAIN atoms : k \in Nat /\ LastIn(k) \in Nat
    BY AtomsNested
  <2> QED BY <1>2, <2>1
<1>4. s \in Seq(Call)
  BY DEF Nesting
<1>5. DOMAIN t = DOMAIN s /\ \A n \in 1 .. L : n # L => t[n] = s[n]
  BY <1>1
<1>6. t[L] = [atom |-> s[L].atom, next |-> p]
  <2>1. t[L] = [s[L] EXCEPT !.next = p]
    BY <1>1
  <2> QED BY <1>1, <2>1 DEF Call
<1>7. t \in Seq(Call)
  <2>1. [atom |-> s[L].atom, next |-> p] \in Call
    BY <1>3 DEF Call
  <2>2. [s[L] EXCEPT !.next = p] \in Call
    BY <1>1, <1>3 DEF Call
  <2> QED BY <1>1, <1>4, <2>2
<1>8. Len(t) = L
  BY <1>1, <1>5, <1>7
<1> HIDE DEF t
<1>9. Underway(t[L])
  <2>1. t[L].atom = s[L].atom /\ t[L].next = p
    BY <1>6
  <2> QED BY <1>1, <1>2, <1>3, <2>1 DEF Underway
<1>10. \A n \in 1 .. L : Underway(t[n])
  BY <1>5, <1>9 DEF Nesting
<1>11. \A n \in 1 .. L : t[n].atom = s[n].atom
  BY <1>5, <1>6
<1>12. ASSUME NEW n \in 1 .. L - 1 PROVE Awaits(t[n], t[n + 1].atom)
  <2>1. n \in 1 .. L /\ n + 1 \in 1 .. L /\ n # L
    <3>1. L \in Nat \ {0}
      BY <1>1
    <3> HIDE DEF L
    <3> QED BY <3>1
  <2>2. Awaits(s[n], s[n + 1].atom)
    BY DEF Nesting
  <2> QED BY <1>5, <1>11, <2>1, <2>2
<1>13. Nesting(t)
  <2>1. t # <<>> /\ t[1].atom = 1
    <3>1. s[1].atom = 1 /\ 1 \in 1 .. L
      BY <1>1 DEF Nesting
    <3> QED BY <1>1, <1>8, <1>11, <3>1
  <2>2. \A m, n \in 1 .. L : m < n => t[m].atom < t[n].atom
    BY <1>11 DEF Nesting
  <2> QED BY <1>7, <1>8, <1>10, <1>12, <2>1, <2>2 DEF Nesting
<1>14. t # <<>>
  BY <1>1, <1>8
<1> QED BY <1>5, <1>6, <1>8, <1>13, <1>14 DEF t

\* The reader of a container is called.
LEMMA Entering ==
  ASSUME atoms \in Files, NEW s, Nesting(s), s # <<>>, NEW j, Awaits(s[Len(s)], j),
         IsContainer(j)
  PROVE  LET t == Append(s, [atom |-> j, next |-> j + 1])
         IN  /\ Nesting(t) /\ Len(t) = Len(s) + 1 /\ t # <<>>
             /\ \A n \in 1 .. Len(s) : t[n] = s[n]
             /\ t[Len(s) + 1] = [atom |-> j, next |-> j + 1]
<1> DEFINE L == Len(s)
           c == [atom |-> j, next |-> j + 1]
           t == Append(s, c)
<1>1. /\ L \in Nat \ {0} /\ Underway(s[L]) /\ s \in Seq(Call)
      /\ \A n \in 1 .. L : s[n] \in Call /\ s[n].atom <= s[L].atom
  BY TopCall DEF Nesting
<1>2. /\ j \in DOMAIN atoms /\ s[L].atom \in Nat /\ j \in Nat /\ LastIn(j) \in Nat
      /\ s[L].atom < j /\ j <= LastIn(j)
  BY <1>1, Awaited
<1>3. c \in Call /\ c.atom = j /\ c.next = j + 1
  BY <1>2 DEF Call
<1>4. /\ t \in Seq(Call) /\ Len(t) = L + 1 /\ t[L + 1] = c
      /\ \A n \in 1 .. L : t[n] = s[n]
  BY <1>1, <1>3, AppendProperties
<1> HIDE DEF t, c
<1>5. Underway(c)
  <2>1. j + 1 <= LastIn(j) => j + 1 \in Kids(j)
    BY <1>2, FirstKid
  <2> QED BY <1>2, <1>3, <2>1 DEF Underway
<1>6. \A n \in 1 .. L + 1 : Underway(t[n])
  BY <1>1, <1>4, <1>5 DEF Nesting
<1>7. \A n \in 1 .. L : Awaits(t[n], t[n + 1].atom)
  <2> SUFFICES ASSUME NEW n \in 1 .. L PROVE Awaits(t[n], t[n + 1].atom)
    OBVIOUS
  <2>1. CASE n = L
    BY <1>1, <1>3, <1>4, <2>1
  <2>2. CASE n # L
    <3>1. n \in 1 .. L - 1 /\ n + 1 \in 1 .. L
      BY <1>1, <2>2
    <3> QED BY <1>4, <3>1 DEF Nesting
  <2> QED BY <2>1, <2>2
<1>8. \A m, n \in 1 .. L + 1 : m < n => t[m].atom < t[n].atom
  <2> SUFFICES ASSUME NEW m \in 1 .. L + 1, NEW n \in 1 .. L + 1, m < n
               PROVE  t[m].atom < t[n].atom
    OBVIOUS
  <2>0. m \in 1 .. L /\ t[m] = s[m] /\ s[m].atom \in Nat
    <3>1. m \in 1 .. L
      BY <1>1
    <3> QED BY <1>1, <1>4, <3>1 DEF Call
  <2>1. CASE n \in 1 .. L
    BY <1>4, <2>0, <2>1 DEF Nesting
  <2>2. CASE n = L + 1
    <3>1. s[m].atom <= s[L].atom
      BY <1>1, <2>0
    <3> QED BY <1>2, <1>3, <1>4, <2>0, <2>2, <3>1
  <2> QED BY <1>1, <2>1, <2>2
<1>9. t # <<>> /\ t[1].atom = 1
  BY <1>1, <1>4 DEF Nesting
<1>10. Nesting(t)
  BY <1>1, <1>4, <1>6, <1>7, <1>8, <1>9 DEF Nesting
<1> QED BY <1>4, <1>9, <1>10 DEF t, c

\* The top call returns.
LEMMA Returning ==
  ASSUME NEW s, Nesting(s), s # <<>>
  PROVE  LET t == SubSeq(s, 1, Len(s) - 1)
         IN  /\ Nesting(t) /\ Len(t) = Len(s) - 1
             /\ \A n \in 1 .. Len(s) - 1 : t[n] = s[n]
             /\ t # <<>> => Awaits(t[Len(t)], s[Len(s)].atom)
             /\ t = <<>> => s[Len(s)].atom = 1
<1> DEFINE L == Len(s)
           t == SubSeq(s, 1, L - 1)
<1>1. L \in Nat \ {0} /\ s \in Seq(Call)
  BY TopCall DEF Nesting
<1>2. t \in Seq(Call) /\ Len(t) = L - 1 /\ \A n \in 1 .. L - 1 : t[n] = s[n]
  BY <1>1
<1> HIDE DEF t
<1>3. \A n \in 1 .. L - 1 : Underway(t[n])
  BY <1>1, <1>2 DEF Nesting
<1>4. \A n \in 1 .. Len(t) - 1 : Awaits(t[n], t[n + 1].atom)
  <2> SUFFICES ASSUME NEW n \in 1 .. Len(t) - 1 PROVE Awaits(t[n], t[n + 1].atom)
    OBVIOUS
  <2>1. n \in 1 .. L - 1 /\ n + 1 \in 1 .. L - 1
    BY <1>1, <1>2
  <2> QED BY <1>2, <2>1 DEF Nesting
<1>5. \A m, n \in 1 .. Len(t) : m < n => t[m].atom < t[n].atom
  <2> SUFFICES ASSUME NEW m \in 1 .. Len(t), NEW n \in 1 .. Len(t), m < n
               PROVE  t[m].atom < t[n].atom
    OBVIOUS
  <2>1. m \in 1 .. L /\ n \in 1 .. L /\ t[m] = s[m] /\ t[n] = s[n]
    BY <1>1, <1>2
  <2> QED BY <2>1 DEF Nesting
<1>6. t # <<>> => L # 1
  BY <1>1, <1>2
<1>7. t # <<>> => t[1].atom = 1
  BY <1>1, <1>2, <1>6 DEF Nesting
<1>8. Nesting(t)
  BY <1>2, <1>3, <1>4, <1>5, <1>7 DEF Nesting
<1>9. t # <<>> => Awaits(t[Len(t)], s[L].atom)
  <2> SUFFICES ASSUME t # <<>> PROVE Awaits(t[Len(t)], s[L].atom)
    OBVIOUS
  <2>1. L - 1 \in 1 .. L - 1 /\ t[L - 1] = s[L - 1] /\ (L - 1) + 1 = L
    BY <1>1, <1>2, <1>6
  <2>2. Awaits(s[L - 1], s[(L - 1) + 1].atom)
    BY <2>1 DEF Nesting
  <2> QED BY <1>2, <2>1, <2>2
<1>10. t = <<>> => s[L].atom = 1
  <2> SUFFICES ASSUME t = <<>> PROVE s[L].atom = 1
    OBVIOUS
  <2>1. Len(t) = 0
    OBVIOUS
  <2>2. L = 1
    BY <1>1, <1>2, <2>1
  <2> QED BY <2>2 DEF Nesting
<1> QED BY <1>2, <1>8, <1>9, <1>10 DEF t

-----------------------------------------------------------------------------
(* Who owns what.                                                          *)

\* How far the atoms have been read.
Limit(s, r, d) ==
  IF d = "loop" THEN s[Len(s)].next - 1
  ELSE IF d = "deliver" THEN LastIn(r.atom) ELSE LastIn(s[Len(s)].atom)

\* An object was returned.
Returned(r, d) == d \in {"deliver", "done"} /\ ~ r.null

\* An open call has the object of its atom, which refers to what it has read.
Holding(c, H) ==
  /\ Unheld(H, c.atom)
  /\ DOMAIN H[c.atom].slots = Slots(atoms[c.atom].type)
  /\ HeldBy(H[c.atom]) \subseteq 1 .. c.next - 1

\* The objects form trees; those of the calls and the one that was returned are roots.
Owners(s, H, r, d) ==
  /\ Forest(H)
  /\ s # <<>> => DOMAIN H \subseteq 1 .. Limit(s, r, d)
  /\ \A n \in 1 .. Len(s) : Holding(s[n], H)
  /\ Returned(r, d) => Unheld(H, r.atom)

Sane(s, H, r, d, snd) == Calls(s, r, d) /\ Owners(s, H, r, d) /\ snd = TRUE

\* The call that is running, and its object.
LEMMA Running ==
  ASSUME atoms \in Files, Sane(stack, heap, ret, doing, sound), doing # "done"
  PROVE  /\ stack # <<>> /\ Nesting(stack) /\ Forest(heap)
         /\ Len(stack) \in Nat \ {0} /\ Len(stack) \in 1 .. Len(stack)
         /\ Frame = stack[Len(stack)] /\ Underway(Frame) /\ Holding(Frame, heap)
         /\ Frame \in Call /\ Frame.atom \in Nat /\ Frame.next \in Nat
         /\ Frame.atom \in DOMAIN atoms /\ Frame.atom \in DOMAIN heap
         /\ LastIn(Frame.atom) \in Nat /\ Frame.next <= LastIn(Frame.atom) + 1
         /\ DOMAIN heap \subseteq 1 .. Limit(stack, ret, doing)
         /\ \A n \in 1 .. Len(stack) : n # Len(stack) => stack[n].atom < Frame.atom
         /\ \A n \in 1 .. Len(stack) : /\ Holding(stack[n], heap) /\ stack[n] \in Call
                                       /\ stack[n].atom <= Frame.atom
                                       /\ stack[n].atom \in DOMAIN heap
<1>1. stack # <<>> /\ Nesting(stack)
  BY DEF Sane, Calls
<1>2. /\ Len(stack) \in Nat \ {0} /\ Len(stack) \in 1 .. Len(stack)
      /\ stack[Len(stack)] \in Call /\ Underway(stack[Len(stack)])
      /\ \A n \in 1 .. Len(stack) : stack[n] \in Call /\ stack[n].atom <= stack[Len(stack)].atom
      /\ \A n \in 1 .. Len(stack) : n # Len(stack) => stack[n].atom < stack[Len(stack)].atom
  BY <1>1, TopCall
<1>3. Frame = stack[Len(stack)]
  BY DEF Frame
<1>4. \A n \in 1 .. Len(stack) : Holding(stack[n], heap)
  BY DEF Sane, Owners
<1>5. Holding(Frame, heap)
  BY <1>2, <1>3, <1>4
<1>6. \A n \in 1 .. Len(stack) : stack[n].atom \in DOMAIN heap
  BY <1>4 DEF Holding, Unheld
<1>7. Frame.atom \in DOMAIN heap /\ Frame.atom \in DOMAIN atoms /\ Underway(Frame)
  BY <1>2, <1>3, <1>6 DEF Underway
<1>8. Frame.atom \in Nat /\ Frame.next \in Nat
  BY <1>2, <1>3 DEF Call
<1>9. LastIn(Frame.atom) \in Nat
  BY <1>7, AtomsNested
<1>10. Frame.next <= LastIn(Frame.atom) + 1
  BY <1>7, <1>8, <1>9 DEF Underway
<1>11. Forest(heap) /\ DOMAIN heap \subseteq 1 .. Limit(stack, ret, doing)
  BY <1>1 DEF Sane, Owners
<1> QED BY <1>1, <1>2, <1>3, <1>4, <1>5, <1>6, <1>7, <1>8, <1>9, <1>10, <1>11

\* It is at a child that has not been read.
LEMMA AtChild ==
  ASSUME atoms \in Files, Sane(stack, heap, ret, doing, sound), InLoop
  PROVE  /\ doing = "loop" /\ Child = Frame.next /\ Child \in Kids(Frame.atom)
         /\ Child \in DOMAIN atoms /\ Child \in Nat \ {0} /\ Child \notin DOMAIN heap
         /\ LastIn(Child) \in Nat /\ Frame.atom < Child /\ Child <= LastIn(Child)
         /\ LastIn(Child) <= LastIn(Frame.atom)
         /\ DOMAIN heap \subseteq 1 .. Child - 1
<1>1. doing = "loop" /\ Child = Frame.next /\ Child <= LastIn(Frame.atom)
  BY DEF InLoop, Child
<1>2. Underway(Frame) /\ Frame.atom \in DOMAIN atoms /\ Frame.next \in Nat /\ Frame.atom \in Nat
      /\ Frame = stack[Len(stack)] /\ DOMAIN heap \subseteq 1 .. Limit(stack, ret, doing)
  BY <1>1, Running
<1>3. Child \in Kids(Frame.atom)
  BY <1>1, <1>2 DEF Underway
<1>4. /\ Child \in DOMAIN atoms /\ Frame.atom < Child /\ Child <= LastIn(Child)
      /\ LastIn(Child) <= LastIn(Frame.atom)
  BY <1>2, <1>3, NextKid
<1>5. LastIn(Child) \in Nat
  BY <1>4, AtomsNested
<1>6. DOMAIN heap \subseteq 1 .. Child - 1
  BY <1>1, <1>2 DEF Limit
<1>7. Child \notin DOMAIN heap /\ Child \in Nat \ {0}
  BY <1>1, <1>2, <1>4, <1>6
<1> QED BY <1>1, <1>3, <1>4, <1>5, <1>6, <1>7

\* A child has been read.
LEMMA AtDelivery ==
  ASSUME atoms \in Files, Sane(stack, heap, ret, doing, sound), doing = "deliver"
  PROVE  /\ Awaits(Frame, ret.atom) /\ ret.atom = Frame.next /\ ret.atom \in Kids(Frame.atom)
         /\ ret.atom \in DOMAIN atoms /\ ret.atom \in Nat \ {0}
         /\ LastIn(ret.atom) \in Nat /\ Frame.atom < ret.atom /\ ret.atom <= LastIn(ret.atom)
         /\ LastIn(ret.atom) <= LastIn(Frame.atom)
         /\ ret.atom \in Frame.atom + 1 .. LastIn(Frame.atom)
         /\ DOMAIN heap \subseteq 1 .. LastIn(ret.atom)
         /\ ~ ret.null => Unheld(heap, ret.atom) /\ ret.atom \in DOMAIN heap
<1>1. Underway(Frame) /\ Frame = stack[Len(stack)] /\ Frame.atom \in Nat
      /\ DOMAIN heap \subseteq 1 .. Limit(stack, ret, doing)
  BY Running
<1>2. Awaits(Frame, ret.atom)
  BY <1>1 DEF Sane, Calls
<1>3. /\ ret.atom \in Kids(Frame.atom) /\ ret.atom \in DOMAIN atoms /\ ret.atom \in Nat
      /\ LastIn(ret.atom) \in Nat /\ LastIn(Frame.atom) \in Nat /\ ret.atom = Frame.next
      /\ Frame.atom < ret.atom /\ ret.atom <= LastIn(ret.atom)
      /\ LastIn(ret.atom) <= LastIn(Frame.atom)
  BY <1>1, <1>2, Awaited
<1>4. ret.atom \in Frame.atom + 1 .. LastIn(Frame.atom) /\ ret.atom # 0
  BY <1>1, <1>3
<1>5. DOMAIN heap \subseteq 1 .. LastIn(ret.atom)
  BY <1>1 DEF Limit
<1>6. ~ ret.null => Unheld(heap, ret.atom) /\ ret.atom \in DOMAIN heap
  BY DEF Sane, Owners, Returned, Unheld
<1> QED BY <1>2, <1>3, <1>4, <1>5, <1>6

\* The loop is left: stack and heap stay, or the heap loses objects that are not of calls.
LEMMA Leaving ==
  ASSUME atoms \in Files, Sane(stack, heap, ret, doing, sound), doing # "done",
         stack' = stack, ret' = ret, doing' = "check",
         Forest(heap'), DOMAIN heap' \subseteq DOMAIN heap,
         \A n \in 1 .. Len(stack) : Holding(stack[n], heap')
  PROVE  Calls(stack', ret', doing') /\ Owners(stack', heap', ret', doing')
<1>1. /\ stack # <<>> /\ Frame = stack[Len(stack)] /\ Frame.next \in Nat
      /\ LastIn(Frame.atom) \in Nat /\ Frame.next <= LastIn(Frame.atom) + 1
      /\ DOMAIN heap \subseteq 1 .. Limit(stack, ret, doing)
  BY Running
<1>2. Calls(stack', ret', doing')
  BY <1>1 DEF Sane, Calls
<1>3. Limit(stack, ret, doing) \in Int /\ Limit(stack, ret, doing) <= LastIn(Frame.atom)
  <2>1. CASE doing = "loop"
    BY <1>1, <2>1 DEF Limit
  <2>2. CASE doing = "deliver"
    <3>1. LastIn(ret.atom) <= LastIn(Frame.atom) /\ LastIn(ret.atom) \in Nat
      BY <2>2, AtDelivery
    <3> QED BY <2>2, <3>1 DEF Limit
  <2>3. CASE doing = "check"
    BY <1>1, <2>3 DEF Limit
  <2> QED BY <2>1, <2>2, <2>3 DEF Sane, Calls
<1>4. Limit(stack', ret', doing') = LastIn(Frame.atom)
  BY <1>1 DEF Limit
<1>5. DOMAIN heap' \subseteq 1 .. Limit(stack', ret', doing')
  <2>1. 1 .. Limit(stack, ret, doing) \subseteq 1 .. LastIn(Frame.atom)
    BY <1>1, <1>3
  <2> QED BY <1>1, <1>4, <2>1
<1>6. ~ Returned(ret', doing')
  BY DEF Returned
<1>7. Owners(stack', heap', ret', doing')
  BY <1>5, <1>6 DEF Owners
<1> QED BY <1>2, <1>7

\* A child is passed over, and the object of the running call may refer to it.
LEMMA Passed ==
  ASSUME atoms \in Files, Sane(stack, heap, ret, doing, sound), doing # "done",
         NEW j \in Kids(Frame.atom), j = Frame.next, PassOver(j), ret' = ret, doing' = "loop",
         Forest(heap'), DOMAIN heap' \subseteq 1 .. LastIn(j),
         \A n \in 1 .. Len(stack) : Unheld(heap', stack[n].atom),
         \A n \in 1 .. Len(stack) : n # Len(stack) => heap'[stack[n].atom] = heap[stack[n].atom],
         DOMAIN heap'[Frame.atom].slots = DOMAIN heap[Frame.atom].slots,
         HeldBy(heap'[Frame.atom]) \subseteq HeldBy(heap[Frame.atom]) \cup {j}
  PROVE  Calls(stack', ret', doing') /\ Owners(stack', heap', ret', doing')
<1> DEFINE L == Len(stack)
<1>1. /\ stack # <<>> /\ Nesting(stack) /\ Frame = stack[L] /\ L \in Nat \ {0}
      /\ Holding(Frame, heap) /\ Frame.atom \in DOMAIN atoms /\ L \in 1 .. L
      /\ \A n \in 1 .. L : Holding(stack[n], heap)
  BY Running
<1>2. stack' = [stack EXCEPT ![L].next = LastIn(j) + 1]
  BY DEF PassOver
<1>3. /\ Nesting(stack') /\ Len(stack') = L /\ stack' # <<>>
      /\ \A n \in 1 .. L : n # L => stack'[n] = stack[n]
      /\ stack'[L] = [atom |-> Frame.atom, next |-> LastIn(j) + 1]
  <2>1. j \in Kids(stack[L].atom) /\ j = stack[L].next
    BY <1>1
  <2> DEFINE t == [stack EXCEPT ![L].next = LastIn(j) + 1]
  <2>2. /\ Nesting(t) /\ Len(t) = L /\ t # <<>>
        /\ \A n \in 1 .. L : n # L => t[n] = stack[n]
        /\ t[L] = [atom |-> stack[L].atom, next |-> LastIn(j) + 1]
    BY <1>1, <2>1, Passing
  <2> HIDE DEF t
  <2>3. stack' = t
    BY <1>2 DEF t
  <2> QED BY <1>1, <2>2, <2>3
<1>4. /\ j \in DOMAIN atoms /\ j \in Nat /\ LastIn(j) \in Nat /\ j <= LastIn(j)
  BY <1>1, NextKid, AtomsNested
<1>5. Calls(stack', ret', doing')
  BY <1>3 DEF Sane, Calls
<1>6. Limit(stack', ret', doing') = LastIn(j)
  <2>1. stack'[Len(stack')].next = LastIn(j) + 1
    BY <1>3
  <2>2. (LastIn(j) + 1) - 1 = LastIn(j)
    BY <1>4
  <2> QED BY <2>1, <2>2 DEF Limit
<1>7. Holding(stack'[L], heap')
  <2>1. stack'[L].atom = Frame.atom /\ stack'[L].next = LastIn(j) + 1
    BY <1>3
  <2>2. j \in 1 .. LastIn(j)
    <3>1. j # 0
      BY <1>1, NextKid, AtomsNested
    <3> QED BY <1>4, <3>1
  <2>3. HeldBy(heap[Frame.atom]) \subseteq 1 .. j - 1
    BY <1>1 DEF Holding
  <2>4. HeldBy(heap'[Frame.atom]) \subseteq 1 .. (LastIn(j) + 1) - 1
    BY <1>4, <2>2, <2>3
  <2>5. Unheld(heap', Frame.atom)
    BY <1>1
  <2> QED BY <1>1, <2>1, <2>4, <2>5 DEF Holding
<1>8. ASSUME NEW n \in 1 .. L PROVE Holding(stack'[n], heap')
  <2>1. CASE n = L
    BY <1>7, <2>1
  <2>2. CASE n # L
    <3>1. stack'[n] = stack[n] /\ heap'[stack[n].atom] = heap[stack[n].atom]
      BY <1>3, <2>2
    <3> QED BY <1>1, <3>1 DEF Holding
  <2> QED BY <2>1, <2>2
<1>9. ~ Returned(ret', doing')
  BY DEF Returned
<1>10. Owners(stack', heap', ret', doing')
  BY <1>3, <1>6, <1>8, <1>9 DEF Owners
<1> QED BY <1>5, <1>10

\* A child of this type goes to a slot.
SlotType(type) == type \notin {"trak", "trex"}

\* The slot of a child that has one.
LEMMA SlotKnown ==
  ASSUME NEW k, IsContainer(k), NEW type, Knows(k, type), SlotType(type)
  PROVE  Slot(type) \in Slots(atoms[k].type)
<1>1. atoms[k].type \in DOMAIN Containers /\ type \in Containers[atoms[k].type].knows
  BY DEF IsContainer, Knows
<1> QED BY <1>1 DEF Slots, SlotType

\* The heap grows by an object of the child that is being read.
LEMMA Growing ==
  ASSUME atoms \in Files, Sane(stack, heap, ret, doing, sound), InLoop, NEW type
  PROVE  LET G == Extended(heap, Child, type)
         IN  /\ Forest(G) /\ Unheld(G, Child) /\ DOMAIN G \subseteq 1 .. Child
             /\ DOMAIN G = DOMAIN heap \cup {Child} /\ G[Child] = Fresh(type)
             /\ \A k \in DOMAIN heap : G[k] = heap[k]
             /\ \A n \in 1 .. Len(stack) : Holding(stack[n], G)
<1> DEFINE G == Extended(heap, Child, type)
<1>1. /\ Child \in DOMAIN atoms /\ Child \notin DOMAIN heap /\ Forest(heap)
      /\ DOMAIN heap \subseteq 1 .. Child - 1 /\ Child \in Nat \ {0}
      /\ \A n \in 1 .. Len(stack) : Holding(stack[n], heap) /\ stack[n].atom \in DOMAIN heap
  <2>1. doing # "done"
    BY DEF InLoop
  <2> QED BY <2>1, AtChild, Running
<1>2. /\ Forest(G) /\ Unheld(G, Child) /\ DOMAIN G = DOMAIN heap \cup {Child}
      /\ G[Child] = Fresh(type) /\ \A k \in DOMAIN heap : G[k] = heap[k]
      /\ \A r : Unheld(heap, r) => Unheld(G, r)
  <2>1. Child \in DOMAIN atoms /\ Child \notin DOMAIN heap /\ Forest(heap)
    BY <1>1
  <2>2. G[Child] = Fresh(type) /\ \A k \in DOMAIN heap : G[k] = heap[k]
    BY <2>1 DEF Extended
  <2> QED BY <2>1, <2>2, ForestGrows
<1> HIDE DEF G
<1>3. DOMAIN G \subseteq 1 .. Child
  <2>1. 1 .. Child - 1 \subseteq 1 .. Child /\ Child \in 1 .. Child
    BY <1>1
  <2> QED BY <1>1, <1>2, <2>1
<1>4. \A n \in 1 .. Len(stack) : Holding(stack[n], G)
  BY <1>1, <1>2 DEF Holding
<1> QED BY <1>2, <1>3, <1>4 DEF G

\* Objects are freed with one that no call has.
LEMMA Freeing ==
  ASSUME atoms \in Files, Sane(stack, heap, ret, doing, sound), doing # "done",
         NEW k, Unheld(heap, k), Exit(k)
  PROVE  /\ Forest(heap') /\ DOMAIN heap' \subseteq DOMAIN heap /\ sound' = TRUE
         /\ \A j \in DOMAIN heap' : heap'[j] = heap[j]
         /\ \A r : Unheld(heap, r) /\ r # k => Unheld(heap', r)
         /\ \A n \in 1 .. Len(stack) : stack[n].atom # k =>
              Holding(stack[n], heap') /\ heap'[stack[n].atom] = heap[stack[n].atom]
<1>0. Forest(heap) /\ \A n \in 1 .. Len(stack) : Holding(stack[n], heap)
  BY Running
<1>1. heap' = [j \in DOMAIN heap \ Reached[k] |-> heap[j]]
  BY DEF Exit
<1>2. Forest(heap') /\ \A r : Unheld(heap, r) /\ r # k => Unheld(heap', r)
  BY <1>0, <1>1, ForestFrees
<1>3. DOMAIN heap' \subseteq DOMAIN heap /\ \A j \in DOMAIN heap' : heap'[j] = heap[j]
  BY <1>1
<1>4. sound' = TRUE
  BY <1>0, RootIsTree DEF Exit, Sane
<1>5. ASSUME NEW n \in 1 .. Len(stack), stack[n].atom # k
      PROVE  Holding(stack[n], heap') /\ heap'[stack[n].atom] = heap[stack[n].atom]
  <2>1. Holding(stack[n], heap)
    BY <1>0
  <2>2. Unheld(heap', stack[n].atom)
    BY <1>2, <1>5, <2>1 DEF Holding
  <2>3. heap'[stack[n].atom] = heap[stack[n].atom]
    BY <1>3, <2>2 DEF Unheld
  <2> QED BY <2>1, <2>2, <2>3 DEF Holding
<1> QED BY <1>2, <1>3, <1>4, <1>5

-----------------------------------------------------------------------------
(* The steps.                                                              *)

\* BadHeader leaves the loop.
LEMMA BadHeaderSane ==
  ASSUME atoms \in Files, Sane(stack, heap, ret, doing, sound), BadHeader
  PROVE  Sane(stack', heap', ret', doing', sound')
<1>1. doing # "done" /\ stack' = stack /\ heap' = heap /\ ret' = ret /\ doing' = "check"
      /\ sound' = sound
  BY DEF BadHeader, InLoop
<1>2. Forest(heap) /\ \A n \in 1 .. Len(stack) : Holding(stack[n], heap)
  BY <1>1, Running
<1> QED BY <1>1, <1>2, Leaving DEF Sane

\* AtEnd leaves the loop.
LEMMA AtEndSane ==
  ASSUME atoms \in Files, Sane(stack, heap, ret, doing, sound), AtEnd
  PROVE  Sane(stack', heap', ret', doing', sound')
<1>1. doing # "done" /\ stack' = stack /\ heap' = heap /\ ret' = ret /\ doing' = "check"
      /\ sound' = sound
  BY DEF AtEnd
<1>2. Forest(heap) /\ \A n \in 1 .. Len(stack) : Holding(stack[n], heap)
  BY <1>1, Running
<1> QED BY <1>1, <1>2, Leaving DEF Sane

\* ChildFailed leaves the loop.
LEMMA ChildFailedSane ==
  ASSUME atoms \in Files, Sane(stack, heap, ret, doing, sound), ChildFailed
  PROVE  Sane(stack', heap', ret', doing', sound')
<1>1. doing # "done" /\ stack' = stack /\ heap' = heap /\ ret' = ret /\ doing' = "check"
      /\ sound' = sound
  BY DEF ChildFailed, Break
<1>2. Forest(heap) /\ \A n \in 1 .. Len(stack) : Holding(stack[n], heap)
  BY <1>1, Running
<1> QED BY <1>1, <1>2, Leaving DEF Sane

\* Unknown: the object of the running call comes to own the atom, or loses its list.
LEMMA UnknownSane ==
  ASSUME atoms \in Files, Sane(stack, heap, ret, doing, sound), Unknown
  PROVE  Sane(stack', heap', ret', doing', sound')
<1> DEFINE k == Frame.atom
           c == Child
<1>0. doing # "done" /\ InLoop
  BY DEF Unknown, InLoop
<1>1. /\ c \in Kids(k) /\ c = Frame.next /\ k \in DOMAIN heap /\ Forest(heap)
      /\ PassOver(c) /\ ret' = ret /\ doing' = "loop" /\ sound' = sound
      /\ c \in Nat \ {0} /\ c <= LastIn(c) /\ LastIn(c) \in Nat /\ k < c /\ k \in Nat
      /\ c \notin DOMAIN heap /\ DOMAIN heap \subseteq 1 .. c - 1
      /\ LastIn(c) <= LastIn(k) /\ LastIn(k) \in Nat
      /\ Len(stack) \in 1 .. Len(stack) /\ stack[Len(stack)].atom = k
  BY <1>0, AtChild, Running DEF Unknown, InLoop
<1>2. \A n \in 1 .. Len(stack) :
        /\ Holding(stack[n], heap) /\ stack[n].atom \in DOMAIN heap /\ stack[n].atom # c
        /\ n # Len(stack) => stack[n].atom # k
  <2>1. \A n \in 1 .. Len(stack) :
        /\ Holding(stack[n], heap) /\ stack[n].atom \in DOMAIN heap /\ stack[n] \in Call
        /\ n # Len(stack) => stack[n].atom < k
    BY <1>0, Running
  <2>2. \A n \in 1 .. Len(stack) : stack[n].atom \in Nat
    BY <2>1 DEF Call
  <2> QED BY <1>1, <2>1, <2>2
<1>3. IsObject(heap[k]) /\ Apart(heap[k])
  BY <1>1 DEF Forest
<1>4. CASE atoms[c].size > 1024 * 1024 - 8
  <2> DEFINE p == [heap[k] EXCEPT !.unknown = <<>>]
  <2>1. IsObject(p) /\ Apart(p) /\ HeldBy(p) \subseteq HeldBy(heap[k]) /\ p.slots = heap[k].slots
    BY <1>3, UnknownForgotten
  <2>2. heap' = [heap EXCEPT ![k] = p]
    BY <1>1, <1>4 DEF Unknown
  <2> HIDE DEF p
  <2>3. Forest(heap') /\ \A r : Unheld(heap, r) => Unheld(heap', r)
    BY <1>1, <2>1, <2>2, ForestForgets
  <2>4. /\ DOMAIN heap' = DOMAIN heap /\ heap'[k] = p
        /\ \A i \in DOMAIN heap : i # k => heap'[i] = heap[i]
    BY <1>1, <2>2
  <2>5. DOMAIN heap' \subseteq 1 .. LastIn(c)
    <3>1. 1 .. c - 1 \subseteq 1 .. LastIn(c)
      BY <1>1
    <3> QED BY <1>1, <2>4, <3>1
  <2>6. \A n \in 1 .. Len(stack) : Unheld(heap', stack[n].atom)
    BY <1>2, <2>3 DEF Holding
  <2>7. \A n \in 1 .. Len(stack) : n # Len(stack) => heap'[stack[n].atom] = heap[stack[n].atom]
    BY <1>2, <2>4
  <2>8. /\ DOMAIN heap'[k].slots = DOMAIN heap[k].slots
        /\ HeldBy(heap'[k]) \subseteq HeldBy(heap[k]) \cup {c}
    BY <2>1, <2>4
  <2> QED BY <1>0, <1>1, <2>3, <2>5, <2>6, <2>7, <2>8, Passed DEF Sane
<1>5. CASE ~ (atoms[c].size > 1024 * 1024 - 8)
  <2> DEFINE G == Extended(heap, c, "unknown")
             p == [heap[k] EXCEPT !.unknown = Append(heap[k].unknown, c)]
  <2>1. /\ Forest(G) /\ Unheld(G, c) /\ DOMAIN G \subseteq 1 .. c
        /\ DOMAIN G = DOMAIN heap \cup {c} /\ G[c] = Fresh("unknown")
        /\ \A i \in DOMAIN heap : G[i] = heap[i]
        /\ \A n \in 1 .. Len(stack) : Holding(stack[n], G)
    BY <1>0, Growing
  <2>2. c \notin HeldBy(heap[k])
    BY <1>1 DEF Forest
  <2>3. IsObject(p) /\ Apart(p) /\ HeldBy(p) = HeldBy(heap[k]) \cup {c} /\ p.slots = heap[k].slots
    BY <1>1, <1>3, <2>2, UnknownHolds
  <2>4. heap' = [G EXCEPT ![k] = p]
    <3>1. heap' = [i \in DOMAIN heap \cup {c} |->
                     IF i = c THEN Fresh("unknown") ELSE IF i = k THEN p ELSE heap[i]]
      BY <1>5 DEF Unknown
    <3> HIDE DEF p
    <3>2. heap' = [i \in DOMAIN G |-> IF i = k THEN p ELSE G[i]]
      <4> HIDE DEF G
      <4> QED BY <1>1, <2>1, <3>1
    <3> HIDE DEF G
    <3>3. \A i \in DOMAIN G : [G EXCEPT ![k] = p][i] = IF i = k THEN p ELSE G[i]
      BY <1>1, <2>1
    <3>4. G = [i \in DOMAIN G |-> G[i]]
      BY <2>1 DEF G, Extended
    <3> QED BY <1>1, <2>1, <3>2, <3>3, <3>4
  <2> HIDE DEF p, G
  <2>5. k \in DOMAIN G /\ G[k] = heap[k] /\ c \in k + 1 .. LastIn(k)
    BY <1>1, <2>1
  <2>6. Forest(heap') /\ \A r : Unheld(G, r) /\ r # c => Unheld(heap', r)
    BY <1>1, <2>1, <2>3, <2>4, <2>5, ForestHolds
  <2>7. /\ DOMAIN heap' = DOMAIN G /\ heap'[k] = p
        /\ \A i \in DOMAIN heap : i # k => heap'[i] = heap[i]
    BY <1>1, <2>1, <2>4, <2>5
  <2>8. DOMAIN heap' \subseteq 1 .. LastIn(c)
    <3>1. 1 .. c \subseteq 1 .. LastIn(c)
      BY <1>1
    <3> QED BY <2>1, <2>7, <3>1
  <2>9. \A n \in 1 .. Len(stack) : Unheld(heap', stack[n].atom)
    BY <1>2, <2>1, <2>6 DEF Holding
  <2>10. \A n \in 1 .. Len(stack) : n # Len(stack) => heap'[stack[n].atom] = heap[stack[n].atom]
    BY <1>2, <2>7
  <2>11. /\ DOMAIN heap'[k].slots = DOMAIN heap[k].slots
         /\ HeldBy(heap'[k]) \subseteq HeldBy(heap[k]) \cup {c}
    BY <2>3, <2>7
  <2> QED BY <1>0, <1>1, <2>6, <2>8, <2>9, <2>10, <2>11, Passed DEF Sane
<1> QED BY <1>4, <1>5

\* Leaf: nobody refers to the object that the reader returns.
LEMMA LeafSane ==
  ASSUME atoms \in Files, Sane(stack, heap, ret, doing, sound), Leaf
  PROVE  Sane(stack', heap', ret', doing', sound')
<1> DEFINE c == Child
           left == Reader(atoms[c])
           G == Extended(heap, c, atoms[c].type)
<1>0. doing # "done" /\ InLoop /\ doing = "loop"
  BY DEF Leaf, InLoop
<1>1. /\ stack' = stack /\ ret' = [atom |-> c, null |-> left # Read] /\ doing' = "deliver"
      /\ sound' = sound /\ Knows(Frame.atom, atoms[c].type)
  BY DEF Leaf
<1>2. heap' = IF left = Refused THEN heap ELSE G
  <2>1. heap' = IF left = Refused THEN heap
                ELSE [k \in DOMAIN heap \cup {c} |->
                        IF k = c THEN Fresh(atoms[k].type) ELSE heap[k]]
    BY DEF Leaf
  <2>2. [k \in DOMAIN heap \cup {c} |-> IF k = c THEN Fresh(atoms[k].type) ELSE heap[k]] = G
    BY DEF Extended
  <2> QED BY <2>1, <2>2
<1>3. /\ Forest(G) /\ Unheld(G, c) /\ DOMAIN G \subseteq 1 .. c
      /\ \A n \in 1 .. Len(stack) : Holding(stack[n], G)
  BY <1>0, Growing
<1> HIDE DEF left, G
<1>4. /\ stack # <<>> /\ Forest(heap) /\ Frame = stack[Len(stack)] /\ Nesting(stack)
      /\ \A n \in 1 .. Len(stack) : Holding(stack[n], heap)
  BY <1>0, Running
<1>5. /\ c \in Nat \ {0} /\ LastIn(c) \in Nat /\ c <= LastIn(c) /\ c = Frame.next
      /\ DOMAIN heap \subseteq 1 .. c - 1 /\ c <= LastIn(Frame.atom)
  BY <1>0, AtChild DEF InLoop
<1>6. ret'.atom = c /\ ret'.null = (left # Read) /\ ret' \in [atom : Nat, null : BOOLEAN]
  BY <1>1, <1>5
<1>7. Awaits(Frame, c)
  BY <1>1, <1>5 DEF Awaits
<1>8. Calls(stack', ret', doing')
  BY <1>1, <1>4, <1>6, <1>7 DEF Calls
<1>9. DOMAIN heap' \subseteq 1 .. LastIn(c)
  <2>1. 1 .. c - 1 \subseteq 1 .. LastIn(c) /\ 1 .. c \subseteq 1 .. LastIn(c)
    BY <1>5
  <2> QED BY <1>2, <1>3, <1>5, <2>1
<1>10. Limit(stack', ret', doing') = LastIn(c)
  BY <1>1, <1>6 DEF Limit
<1>11. Returned(ret', doing') => heap' = G
  BY <1>2, <1>6 DEF Returned, Read, Refused
<1>12. Owners(stack', heap', ret', doing')
  <2>1. Forest(heap') /\ \A n \in 1 .. Len(stack') : Holding(stack'[n], heap')
    BY <1>1, <1>2, <1>3, <1>4
  <2>2. Returned(ret', doing') => Unheld(heap', ret'.atom)
    BY <1>3, <1>6, <1>11
  <2> QED BY <1>9, <1>10, <2>1, <2>2 DEF Owners
<1> QED BY <1>1, <1>8, <1>12 DEF Sane

\* Enter: the new call owns the new object.
LEMMA EnterSane ==
  ASSUME atoms \in Files, Sane(stack, heap, ret, doing, sound), Enter
  PROVE  Sane(stack', heap', ret', doing', sound')
<1> DEFINE c == Child
           L == Len(stack)
           G == Extended(heap, c, atoms[c].type)
<1>0. doing # "done" /\ InLoop /\ doing = "loop"
  BY DEF Enter, InLoop
<1>1. /\ stack' = Append(stack, [atom |-> c, next |-> c + 1]) /\ ret' = ret /\ doing' = "loop"
      /\ sound' = sound /\ Knows(Frame.atom, atoms[c].type) /\ IsContainer(c)
  BY <1>0 DEF Enter
<1>2. heap' = G
  <2>1. heap' = [k \in DOMAIN heap \cup {c} |->
                   IF k = c THEN Fresh(atoms[k].type) ELSE heap[k]]
    BY DEF Enter
  <2> QED BY <2>1 DEF Extended
<1>3. /\ Forest(G) /\ Unheld(G, c) /\ DOMAIN G \subseteq 1 .. c
      /\ \A n \in 1 .. L : Holding(stack[n], G)
      /\ G[c] = Fresh(atoms[c].type)
  BY <1>0, Growing
<1> HIDE DEF G
<1>4. /\ stack # <<>> /\ Frame = stack[L] /\ Nesting(stack) /\ L \in Nat \ {0}
  BY <1>0, Running
<1>5. /\ c \in Nat \ {0} /\ c = Frame.next /\ c <= LastIn(Frame.atom)
  BY <1>0, AtChild DEF InLoop
<1>6. Awaits(Frame, c)
  BY <1>1, <1>5 DEF Awaits
<1>7. /\ Nesting(stack') /\ Len(stack') = L + 1 /\ stack' # <<>>
      /\ \A n \in 1 .. L : stack'[n] = stack[n]
      /\ stack'[L + 1] = [atom |-> c, next |-> c + 1]
  <2>1. Awaits(stack[L], c)
    BY <1>4, <1>6
  <2> DEFINE t == Append(stack, [atom |-> c, next |-> c + 1])
  <2>2. /\ Nesting(t) /\ Len(t) = L + 1 /\ t # <<>>
        /\ \A n \in 1 .. L : t[n] = stack[n]
        /\ t[L + 1] = [atom |-> c, next |-> c + 1]
    BY <1>1, <1>4, <2>1, Entering
  <2> HIDE DEF t
  <2>3. stack' = t
    BY <1>1 DEF t
  <2> QED BY <2>2, <2>3
<1>8. Calls(stack', ret', doing')
  BY <1>1, <1>7 DEF Sane, Calls
<1>9. Limit(stack', ret', doing') = c
  <2>1. stack'[Len(stack')].next = c + 1
    BY <1>7
  <2> QED BY <1>1, <1>5, <2>1 DEF Limit
<1>10. Holding(stack'[L + 1], heap')
  <2>1. stack'[L + 1].atom = c /\ stack'[L + 1].next = c + 1
    BY <1>7
  <2>2. DOMAIN G[c].slots = Slots(atoms[c].type) /\ HeldBy(G[c]) = {}
    BY <1>3, FreshHoldsNothing
  <2> QED BY <1>2, <1>3, <2>1, <2>2 DEF Holding
<1>11. \A n \in 1 .. Len(stack') : Holding(stack'[n], heap')
  <2> SUFFICES ASSUME NEW n \in 1 .. Len(stack') PROVE Holding(stack'[n], heap')
    OBVIOUS
  <2>1. n \in 1 .. L \/ n = L + 1
    BY <1>4, <1>7
  <2> QED BY <1>2, <1>3, <1>7, <1>10, <2>1
<1>12. ~ Returned(ret', doing')
  BY <1>1 DEF Returned
<1>13. Owners(stack', heap', ret', doing')
  BY <1>2, <1>3, <1>9, <1>11, <1>12 DEF Owners
<1> QED BY <1>1, <1>8, <1>13 DEF Sane

\* The child that was read becomes part of the object of the running call.
LEMMA Delivering ==
  ASSUME atoms \in Files, Sane(stack, heap, ret, doing, sound), doing = "deliver", ~ ret.null,
         NEW p, IsObject(p), Apart(p), DOMAIN p.slots = DOMAIN heap[Frame.atom].slots,
         HeldBy(p) \subseteq HeldBy(heap[Frame.atom]) \cup {ret.atom},
         heap' = [heap EXCEPT ![Frame.atom] = p],
         PassOver(ret.atom), ret' = ret, doing' = "loop", sound' = sound
  PROVE  Sane(stack', heap', ret', doing', sound')
<1> DEFINE k == Frame.atom
           j == ret.atom
<1>0. doing # "done"
  OBVIOUS
<1>1. /\ j \in Kids(k) /\ j = Frame.next /\ Unheld(heap, j) /\ DOMAIN heap \subseteq 1 .. LastIn(j)
      /\ j \in k + 1 .. LastIn(k) /\ k < j /\ j \in Nat
  BY AtDelivery
<1>2. /\ k \in DOMAIN heap /\ Forest(heap) /\ k \in Nat
      /\ \A n \in 1 .. Len(stack) : /\ Holding(stack[n], heap) /\ stack[n] \in Call
                                    /\ stack[n].atom <= k /\ stack[n].atom \in DOMAIN heap
      /\ \A n \in 1 .. Len(stack) : n # Len(stack) => stack[n].atom < k
  BY <1>0, Running
<1>3. Forest(heap') /\ \A r : Unheld(heap, r) /\ r # j => Unheld(heap', r)
  BY <1>1, <1>2, ForestHolds
<1>4. /\ DOMAIN heap' = DOMAIN heap /\ heap'[k] = p
      /\ \A i \in DOMAIN heap : i # k => heap'[i] = heap[i]
  BY <1>2
<1>5. \A n \in 1 .. Len(stack) : stack[n].atom \in Nat
  BY <1>2 DEF Call
<1>6. ASSUME NEW n \in 1 .. Len(stack) PROVE Unheld(heap', stack[n].atom)
  <2>1. stack[n].atom \in Nat /\ stack[n].atom <= k /\ Holding(stack[n], heap)
    BY <1>2, <1>5
  <2>2. stack[n].atom # j
    BY <1>1, <1>2, <2>1
  <2> QED BY <1>3, <2>1, <2>2 DEF Holding
<1>7. \A n \in 1 .. Len(stack) : n # Len(stack) => heap'[stack[n].atom] = heap[stack[n].atom]
  BY <1>2, <1>4, <1>5
<1>8. Calls(stack', ret', doing') /\ Owners(stack', heap', ret', doing')
  BY <1>0, <1>1, <1>3, <1>4, <1>6, <1>7, Passed
<1> QED BY <1>8 DEF Sane

\* Store: the object of the running call owns the child, and no longer what it replaces.
LEMMA StoreSane ==
  ASSUME atoms \in Files, Sane(stack, heap, ret, doing, sound), Store
  PROVE  Sane(stack', heap', ret', doing', sound')
<1> DEFINE k == Frame.atom
           j == ret.atom
           c == Slot(atoms[j].type)
           p == [heap[k] EXCEPT !.slots[c] = j]
<1>1. /\ doing = "deliver" /\ ~ ret.null /\ SlotType(atoms[j].type)
      /\ PassOver(j) /\ doing' = "loop" /\ ret' = ret /\ sound' = sound
  BY DEF Store, SlotType
<1>2. heap' = [heap EXCEPT ![k] = p]
  BY DEF Store
<1>3. /\ k \in DOMAIN heap /\ Forest(heap) /\ Holding(Frame, heap) /\ Underway(Frame)
  BY <1>1, Running
<1>4. /\ Unheld(heap, j) /\ j \in Nat \ {0} /\ Awaits(Frame, j)
  BY <1>1, AtDelivery
<1>5. IsObject(heap[k]) /\ Apart(heap[k]) /\ j \notin HeldBy(heap[k])
  BY <1>3, <1>4 DEF Forest, Unheld
<1>6. c \in DOMAIN heap[k].slots
  BY <1>1, <1>3, <1>4, SlotKnown DEF Awaits, Underway, Holding
<1>7. /\ IsObject(p) /\ Apart(p) /\ HeldBy(p) \subseteq HeldBy(heap[k]) \cup {j}
      /\ p.slots = [heap[k].slots EXCEPT ![c] = j]
  <2> HIDE DEF c, j, k
  <2> DEFINE o == heap[k]
  <2>1. IsObject(o) /\ Apart(o) /\ j \notin HeldBy(o) /\ c \in DOMAIN o.slots /\ j \in Nat \ {0}
    BY <1>4, <1>5, <1>6
  <2> HIDE DEF o
  <2> DEFINE q == [o EXCEPT !.slots[c] = j]
  <2>2. /\ IsObject(q) /\ Apart(q) /\ HeldBy(q) \subseteq HeldBy(o) \cup {j}
        /\ q.slots = [o.slots EXCEPT ![c] = j]
    BY <2>1, SlotHolds
  <2> QED BY <2>2 DEF o
<1>8. DOMAIN p.slots = DOMAIN heap[k].slots
  BY <1>7
<1> HIDE DEF p
<1> QED BY <1>1, <1>2, <1>7, <1>8, Delivering

\* AddTrack: the object of the running call owns the track.
LEMMA AddTrackSane ==
  ASSUME atoms \in Files, Sane(stack, heap, ret, doing, sound), AddTrack
  PROVE  Sane(stack', heap', ret', doing', sound')
<1> DEFINE k == Frame.atom
           j == ret.atom
           p == [heap[k] EXCEPT !.tracks = Append(@, j)]
<1>1. /\ doing = "deliver" /\ ~ ret.null
      /\ PassOver(j) /\ doing' = "loop" /\ ret' = ret /\ sound' = sound
  BY DEF AddTrack
<1>2. heap' = [heap EXCEPT ![k] = p]
  BY DEF AddTrack
<1>3. k \in DOMAIN heap /\ Forest(heap)
  BY <1>1, Running
<1>4. Unheld(heap, j) /\ j \in Nat \ {0}
  BY <1>1, AtDelivery
<1>5. IsObject(heap[k]) /\ Apart(heap[k]) /\ j \notin HeldBy(heap[k])
  BY <1>3, <1>4 DEF Forest, Unheld
<1>6. /\ IsObject(p) /\ Apart(p) /\ HeldBy(p) = HeldBy(heap[k]) \cup {j}
      /\ p.slots = heap[k].slots
  BY <1>4, <1>5, TracksHold
<1> HIDE DEF p
<1> QED BY <1>1, <1>2, <1>6, Delivering

\* TableFull frees the track, which nobody refers to.
LEMMA TableFullSane ==
  ASSUME atoms \in Files, Sane(stack, heap, ret, doing, sound), TableFull
  PROVE  Sane(stack', heap', ret', doing', sound')
<1>1. /\ doing = "deliver" /\ doing # "done" /\ ~ ret.null /\ Exit(ret.atom)
      /\ stack' = stack /\ ret' = ret /\ doing' = "check"
  BY DEF TableFull, Break
<1>2. Unheld(heap, ret.atom) /\ ret.atom \in Nat /\ Frame.atom < ret.atom
  BY <1>1, AtDelivery
<1>3. \A n \in 1 .. Len(stack) : stack[n].atom \in Nat /\ stack[n].atom <= Frame.atom
      /\ Frame.atom \in Nat
  BY <1>1, Running DEF Call
<1>4. \A n \in 1 .. Len(stack) : stack[n].atom # ret.atom
  BY <1>2, <1>3
<1>5. /\ Forest(heap') /\ DOMAIN heap' \subseteq DOMAIN heap /\ sound' = TRUE
      /\ \A n \in 1 .. Len(stack) : Holding(stack[n], heap')
  BY <1>1, <1>2, <1>4, Freeing
<1> QED BY <1>1, <1>5, Leaving DEF Sane

\* IgnoreTrak frees the track, which nobody refers to.
LEMMA IgnoreTrakSane ==
  ASSUME atoms \in Files, Sane(stack, heap, ret, doing, sound), IgnoreTrak
  PROVE  Sane(stack', heap', ret', doing', sound')
<1> DEFINE k == Frame.atom
           j == ret.atom
<1>1. /\ doing = "deliver" /\ doing # "done" /\ ~ ret.null /\ Exit(j)
      /\ PassOver(j) /\ ret' = ret /\ doing' = "loop"
  BY DEF IgnoreTrak
<1>2. /\ Unheld(heap, j) /\ j \in Nat /\ k < j /\ j \in Kids(k) /\ j = Frame.next
      /\ DOMAIN heap \subseteq 1 .. LastIn(j)
  BY <1>1, AtDelivery
<1>3. /\ \A n \in 1 .. Len(stack) : stack[n].atom \in Nat /\ stack[n].atom <= k
      /\ k \in Nat /\ Len(stack) \in 1 .. Len(stack) /\ Frame = stack[Len(stack)]
  BY <1>1, Running DEF Call
<1>4. \A n \in 1 .. Len(stack) : stack[n].atom # j
  BY <1>2, <1>3
<1>5. /\ Forest(heap') /\ DOMAIN heap' \subseteq DOMAIN heap /\ sound' = TRUE
      /\ \A n \in 1 .. Len(stack) :
           Holding(stack[n], heap') /\ heap'[stack[n].atom] = heap[stack[n].atom]
  BY <1>1, <1>2, <1>4, Freeing
<1>6. DOMAIN heap' \subseteq 1 .. LastIn(j)
  BY <1>2, <1>5
<1>7. \A n \in 1 .. Len(stack) : Unheld(heap', stack[n].atom)
  BY <1>5 DEF Holding
<1>8. heap'[k] = heap[k]
  BY <1>3, <1>5
<1>9. Calls(stack', ret', doing') /\ Owners(stack', heap', ret', doing')
  BY <1>1, <1>2, <1>5, <1>6, <1>7, <1>8, Passed
<1> QED BY <1>5, <1>9 DEF Sane

\* The running call returns, with its object or with NULL.
LEMMA CallReturns ==
  ASSUME atoms \in Files, Sane(stack, heap, ret, doing, sound), doing = "check",
         stack' = Below, doing' = (IF Below = <<>> THEN "done" ELSE "deliver"),
         ret' \in [atom : {Frame.atom}, null : BOOLEAN],
         Forest(heap'), DOMAIN heap' \subseteq DOMAIN heap,
         \A n \in 1 .. Len(stack) : n # Len(stack) => Holding(stack[n], heap'),
         ret'.null \/ Unheld(heap', Frame.atom)
  PROVE  Calls(stack', ret', doing') /\ Owners(stack', heap', ret', doing')
<1> DEFINE L == Len(stack)
<1>1. /\ stack # <<>> /\ Nesting(stack) /\ Frame = stack[L] /\ Frame.atom \in Nat
      /\ L \in Nat \ {0} /\ DOMAIN heap \subseteq 1 .. Limit(stack, ret, doing)
  BY Running
<1>2. /\ Nesting(stack') /\ Len(stack') = L - 1
      /\ \A n \in 1 .. L - 1 : stack'[n] = stack[n]
      /\ stack' # <<>> => Awaits(stack'[Len(stack')], Frame.atom)
      /\ stack' = <<>> => Frame.atom = 1
  <2> DEFINE t == SubSeq(stack, 1, L - 1)
  <2>1. /\ Nesting(t) /\ Len(t) = L - 1
        /\ \A n \in 1 .. L - 1 : t[n] = stack[n]
        /\ t # <<>> => Awaits(t[Len(t)], stack[L].atom)
        /\ t = <<>> => stack[L].atom = 1
    BY <1>1, Returning
  <2>2. stack' = t
    BY DEF Below
  <2> HIDE DEF t
  <2> QED BY <1>1, <2>1, <2>2
<1>3. ret'.atom = Frame.atom /\ ret' \in [atom : Nat, null : BOOLEAN]
  BY <1>1
<1>4. doing' = (IF stack' = <<>> THEN "done" ELSE "deliver")
  OBVIOUS
<1>5. Calls(stack', ret', doing')
  BY <1>2, <1>3, <1>4 DEF Calls
<1>6. stack' # <<>> => Limit(stack', ret', doing') = Limit(stack, ret, doing)
  BY <1>1, <1>3, <1>4 DEF Limit
<1>7. \A n \in 1 .. Len(stack') : Holding(stack'[n], heap')
  <2> SUFFICES ASSUME NEW n \in 1 .. Len(stack') PROVE Holding(stack'[n], heap')
    OBVIOUS
  <2>1. n \in 1 .. L - 1 /\ n \in 1 .. L /\ n # L
    <3>1. Len(stack') = L - 1 /\ L \in Nat \ {0}
      BY <1>1, <1>2
    <3> HIDE DEF L
    <3> QED BY <3>1
  <2> QED BY <1>2, <2>1
<1>8. Owners(stack', heap', ret', doing')
  BY <1>1, <1>3, <1>6, <1>7 DEF Owners, Returned
<1> QED BY <1>5, <1>8

\* Accept: the caller answers for the object that is returned.
LEMMA AcceptSane ==
  ASSUME atoms \in Files, Sane(stack, heap, ret, doing, sound), Accept
  PROVE  Sane(stack', heap', ret', doing', sound')
<1>1. /\ doing = "check" /\ doing # "done" /\ stack' = Below
      /\ doing' = (IF Below = <<>> THEN "done" ELSE "deliver")
      /\ ret' = [atom |-> Frame.atom, null |-> FALSE] /\ heap' = heap /\ sound' = sound
  BY DEF Accept
<1>2. /\ Forest(heap) /\ \A n \in 1 .. Len(stack) : Holding(stack[n], heap)
      /\ Holding(Frame, heap)
  BY <1>1, Running
<1>3. Unheld(heap', Frame.atom) /\ ret' \in [atom : {Frame.atom}, null : BOOLEAN]
  BY <1>1, <1>2 DEF Holding
<1>4. Calls(stack', ret', doing') /\ Owners(stack', heap', ret', doing')
  BY <1>1, <1>2, <1>3, CallReturns
<1> QED BY <1>1, <1>4 DEF Sane

\* Reject frees the object of the running call.
LEMMA RejectSane ==
  ASSUME atoms \in Files, Sane(stack, heap, ret, doing, sound), Reject
  PROVE  Sane(stack', heap', ret', doing', sound')
<1>1. /\ doing = "check" /\ doing # "done" /\ stack' = Below
      /\ doing' = (IF Below = <<>> THEN "done" ELSE "deliver")
      /\ ret' = [atom |-> Frame.atom, null |-> TRUE] /\ Exit(Frame.atom)
  BY DEF Reject
<1>2. /\ Holding(Frame, heap) /\ Frame.atom \in Nat
      /\ \A n \in 1 .. Len(stack) : n # Len(stack) => stack[n].atom < Frame.atom
      /\ \A n \in 1 .. Len(stack) : stack[n] \in Call
  BY <1>1, Running
<1>3. Unheld(heap, Frame.atom)
  BY <1>2 DEF Holding
<1>4. \A n \in 1 .. Len(stack) : n # Len(stack) => stack[n].atom # Frame.atom
  BY <1>2 DEF Call
<1>5. /\ Forest(heap') /\ DOMAIN heap' \subseteq DOMAIN heap /\ sound' = TRUE
      /\ \A n \in 1 .. Len(stack) : n # Len(stack) => Holding(stack[n], heap')
  BY <1>1, <1>3, <1>4, Freeing
<1>6. ret' \in [atom : {Frame.atom}, null : BOOLEAN] /\ ret'.null
  BY <1>1
<1>7. Calls(stack', ret', doing') /\ Owners(stack', heap', ret', doing')
  BY <1>1, <1>5, <1>6, CallReturns
<1> QED BY <1>5, <1>7 DEF Sane

-----------------------------------------------------------------------------

\* The inductive invariant: if the file is ordinary, the calls are nested as the atoms
\* are, and the objects form trees whose roots are those of the calls and of what
\* was returned.
TreesSane == atoms \in Files /\ (Ordinary => Sane(stack, heap, ret, doing, sound))

\* The only call is that of moov_read, and the only object that of moov.
LEMMA InitSane == TreeInit => TreesSane
<1> SUFFICES ASSUME TreeInit PROVE TreesSane
  OBVIOUS
<1>1. /\ atoms \in Files /\ stack = <<[atom |-> 1, next |-> 2]>>
      /\ heap = [k \in {1} |-> Fresh("moov")] /\ ret = [atom |-> 0, null |-> TRUE]
      /\ doing = "loop" /\ sound = TRUE
  BY DEF TreeInit
<1>2. 1 \in DOMAIN atoms /\ atoms[1].type = "moov" /\ LastIn(1) \in Nat /\ 1 <= LastIn(1)
  BY <1>1, AtomsNested
<1>3. IsContainer(1)
  BY <1>2 DEF IsContainer, Containers
<1>4. 2 <= LastIn(1) => 2 \in Kids(1)
  BY <1>1, <1>2, FirstKid
<1>5. Len(stack) = 1 /\ stack[1] = [atom |-> 1, next |-> 2] /\ stack \in Seq(Call) /\ stack # <<>>
  BY <1>1 DEF Call
<1>6. Underway(stack[1])
  BY <1>2, <1>3, <1>4, <1>5 DEF Underway
<1>7. Nesting(stack)
  BY <1>5, <1>6 DEF Nesting
<1>8. Calls(stack, ret, doing)
  BY <1>1, <1>5, <1>7 DEF Calls
<1>9. DOMAIN heap = {1} /\ heap[1] = Fresh("moov")
  BY <1>1
<1>10. /\ IsObject(heap[1]) /\ HeldBy(heap[1]) = {} /\ Apart(heap[1])
       /\ DOMAIN heap[1].slots = Slots("moov")
  BY <1>9, FreshHoldsNothing
<1>11. Forest(heap) /\ Unheld(heap, 1)
  BY <1>2, <1>9, <1>10 DEF Forest, Unheld
<1>12. Holding(stack[1], heap)
  BY <1>2, <1>5, <1>10, <1>11 DEF Holding
<1>13. Limit(stack, ret, doing) = 1
  BY <1>1, <1>5 DEF Limit
<1>14. Owners(stack, heap, ret, doing)
  BY <1>1, <1>5, <1>9, <1>11, <1>12, <1>13 DEF Owners, Returned
<1> QED BY <1>1, <1>8, <1>14 DEF TreesSane, Sane

\* An ordinary file has no unknown atoms in dinf.
LEMMA NoUnknownInDinf ==
  ASSUME atoms \in Files, Sane(stack, heap, ret, doing, sound), Ordinary
  PROVE  ~ UnknownInDinf
<1> SUFFICES ASSUME UnknownInDinf PROVE FALSE
  OBVIOUS
<1>1. InLoop /\ IsUnknown(Child) /\ atoms[Frame.atom].type = "dinf" /\ doing # "done"
  BY DEF UnknownInDinf, InLoop
<1>2. Child \in Frame.atom + 1 .. LastIn(Frame.atom) /\ Frame.atom \in DOMAIN atoms
  BY <1>1, AtChild, Running DEF Kids
<1>3. atoms[Child].type = "dref"
  BY <1>1, <1>2 DEF Ordinary
<1>4. Knows(Frame.atom, "dref")
  BY <1>1 DEF Knows, Containers, dinf_read
<1> QED BY <1>1, <1>3, <1>4 DEF IsUnknown

\* What holds of the next values holds in the next state: the atoms stay.
LEMMA SaneNext ==
  ASSUME atoms' = atoms, Sane(stack', heap', ret', doing', sound')
  PROVE  Sane(stack, heap, ret, doing, sound)'
BY DEF Sane, Calls, Owners, Nesting, Underway, Awaits, Kids, Knows, IsContainer, LastIn, Limit,
       Returned, Holding, Forest, Unheld

\* The invariant is kept by every step.
LEMMA NextSane == TreesSane /\ [TreeNext]_treeVars => TreesSane'
<1> SUFFICES ASSUME TreesSane, [TreeNext]_treeVars PROVE TreesSane'
  OBVIOUS
<1>1. atoms \in Files
  BY DEF TreesSane
<1>2. atoms' = atoms
  BY DEF TreeNext, treeVars, BadHeader, Unknown, UnknownInDinf, Leaf, Enter, AtEnd, ChildFailed,
         Store, TableFull, IgnoreTrak, AddTrack, Accept, Reject
<1>3. SUFFICES ASSUME Ordinary PROVE Sane(stack', heap', ret', doing', sound')
  <2>1. Ordinary' <=> Ordinary
    BY <1>2 DEF Ordinary, LastIn
  <2> QED BY <1>1, <1>2, <1>3, <2>1, SaneNext DEF TreesSane
<1>4. Sane(stack, heap, ret, doing, sound)
  BY <1>3 DEF TreesSane
<1>5. CASE UNCHANGED treeVars
  BY <1>4, <1>5 DEF treeVars
<1>6. CASE TreeNext
  <2>1. CASE UnknownInDinf
    BY <1>1, <1>3, <1>4, <2>1, NoUnknownInDinf
  <2>2. CASE BadHeader \/ Unknown \/ Leaf \/ Enter \/ AtEnd
    BY <1>1, <1>4, <2>2, BadHeaderSane, UnknownSane, LeafSane, EnterSane, AtEndSane
  <2>3. CASE ChildFailed \/ Store \/ TableFull \/ IgnoreTrak \/ AddTrack
    BY <1>1, <1>4, <2>3, ChildFailedSane, StoreSane, TableFullSane, IgnoreTrakSane, AddTrackSane
  <2>4. CASE Accept \/ Reject
    BY <1>1, <1>4, <2>4, AcceptSane, RejectSane
  <2> QED BY <1>6, <2>1, <2>2, <2>3, <2>4 DEF TreeNext
<1> QED BY <1>5, <1>6

\* The roots are the objects of the calls and what was returned, each once.
LEMMA RootsUnheld ==
  ASSUME atoms \in Files, Sane(stack, heap, ret, doing, sound)
  PROVE  /\ \A n \in DOMAIN Roots : Unheld(heap, Roots[n])
         /\ \A m, n \in DOMAIN Roots : m # n => Roots[m] # Roots[n]
         /\ \A n \in 1 .. Len(stack) : n \in DOMAIN Roots /\ Roots[n] = stack[n].atom
         /\ Returned(ret, doing) => \E n \in DOMAIN Roots : Roots[n] = ret.atom
<1> DEFINE L == Len(stack)
           open == [n \in DOMAIN stack |-> stack[n].atom]
           last == IF ret.atom # 0 /\ ~ ret.null /\ doing \in {"deliver", "done"}
                   THEN <<ret.atom>> ELSE <<>>
<1>1. stack \in Seq(Call) /\ ret \in [atom : Nat, null : BOOLEAN] /\ Nesting(stack)
  BY DEF Sane, Calls, Nesting
<1>2. L \in Nat /\ DOMAIN stack = 1 .. L /\ \A n \in 1 .. L : stack[n].atom \in Nat
  <2>1. L \in Nat /\ DOMAIN stack = 1 .. L
    BY <1>1
  <2>2. \A n \in 1 .. L : stack[n] \in Call
    BY <1>1
  <2> QED BY <2>1, <2>2 DEF Call
<1>3. open \in Seq(Nat) /\ Len(open) = L /\ \A n \in 1 .. L : open[n] = stack[n].atom
  BY <1>2
<1>4. last \in Seq(Nat) /\ Len(last) \in {0, 1}
  BY <1>1
<1>5. Roots = open \o last
  BY DEF Roots
<1>6. Len(last) = 1 => Returned(ret, doing) /\ last[1] = ret.atom
  BY <1>1 DEF Returned
<1>7. Returned(ret, doing) => ret.atom # 0
  BY AtomsNested DEF Sane, Owners, Unheld, Forest
<1>8. Returned(ret, doing) => Len(last) = 1
  BY <1>7 DEF Returned
<1> HIDE DEF open, last
<1>9. /\ DOMAIN Roots = 1 .. L + Len(last)
      /\ \A n \in 1 .. L : Roots[n] = stack[n].atom
      /\ Len(last) = 1 => Roots[L + 1] = last[1]
  <2>1. /\ open \o last \in Seq(Nat) /\ Len(open \o last) = L + Len(last)
        /\ \A n \in 1 .. L + Len(last) :
             (open \o last)[n] = IF n <= L THEN open[n] ELSE last[n - L]
    <3> HIDE DEF L
    <3>1. /\ open \o last \in Seq(Nat) /\ Len(open \o last) = Len(open) + Len(last)
          /\ \A n \in 1 .. Len(open) + Len(last) :
               (open \o last)[n] = IF n <= Len(open) THEN open[n] ELSE last[n - Len(open)]
      BY <1>3, <1>4, ConcatProperties
    <3> QED BY <1>3, <3>1
  <2>2. \A n \in 1 .. L : Roots[n] = stack[n].atom
    <3> SUFFICES ASSUME NEW n \in 1 .. L PROVE Roots[n] = stack[n].atom
      OBVIOUS
    <3>1. n \in 1 .. L + Len(last) /\ n <= L
      BY <1>2, <1>4
    <3> QED BY <1>3, <1>5, <2>1, <3>1
  <2>3. ASSUME Len(last) = 1 PROVE Roots[L + 1] = last[1]
    <3>1. L + 1 \in 1 .. L + Len(last) /\ ~ (L + 1 <= L) /\ (L + 1) - L = 1
      BY <1>2, <2>3
    <3> QED BY <1>5, <2>1, <3>1
  <2> QED BY <1>5, <2>1, <2>2, <2>3
<1> DEFINE M == Len(last)
<1>20. M \in {0, 1} /\ DOMAIN Roots = 1 .. L + M /\ L \in Nat
  BY <1>2, <1>4, <1>9
<1> HIDE DEF L, M
<1>10. \A n \in DOMAIN Roots : n \in 1 .. L \/ (n = L + 1 /\ M = 1)
  BY <1>20
<1>11. ASSUME NEW n \in DOMAIN Roots PROVE Unheld(heap, Roots[n])
  <2>1. CASE n \in 1 .. L
    BY <1>9, <2>1 DEF Sane, Owners, Holding, L
  <2>2. CASE n = L + 1 /\ M = 1
    BY <1>6, <1>9, <2>2 DEF Sane, Owners, M
  <2> QED BY <1>10, <2>1, <2>2
<1>12. ASSUME NEW n \in 1 .. L, Returned(ret, doing) PROVE stack[n].atom # ret.atom
  <2>1. doing = "deliver"
    <3>1. stack # <<>>
      <4>1. Len(stack) # 0
        BY <1>20 DEF L
      <4> QED BY <4>1
    <3> QED BY <1>12, <3>1 DEF Sane, Calls, Returned
  <2>2. /\ Frame.atom < ret.atom /\ ret.atom \in Nat /\ Frame.atom \in Nat
        /\ stack[n].atom <= Frame.atom
    <3>1. doing # "done" /\ n \in 1 .. Len(stack)
      BY <2>1 DEF L
    <3>2. \A i \in 1 .. Len(stack) : stack[i].atom <= Frame.atom
      BY <3>1, Running
    <3> QED BY <2>1, <3>1, <3>2, AtDelivery, Running
  <2> QED BY <1>2, <2>2
<1>13. ASSUME NEW m \in DOMAIN Roots, NEW n \in DOMAIN Roots, m < n PROVE Roots[m] # Roots[n]
  <2>1. m \in 1 .. L
    BY <1>13, <1>20
  <2>2. CASE n \in 1 .. L
    <3>1. stack[m].atom < stack[n].atom
      BY <1>1, <1>13, <2>1, <2>2 DEF Nesting, L
    <3> QED BY <1>2, <1>9, <2>1, <2>2, <3>1
  <2>3. CASE n = L + 1 /\ M = 1
    BY <1>6, <1>9, <1>12, <2>1, <2>3 DEF M
  <2> QED BY <1>10, <2>2, <2>3
<1>14. \A m, n \in DOMAIN Roots : m # n => Roots[m] # Roots[n]
  <2>1. \A n \in DOMAIN Roots : n \in Int
    BY <1>20
  <2>2. \A m, n \in DOMAIN Roots : m # n => m < n \/ n < m
    BY <2>1
  <2> QED BY <1>13, <2>2
<1>15. Returned(ret, doing) => \E n \in DOMAIN Roots : Roots[n] = ret.atom
  <2> SUFFICES ASSUME Returned(ret, doing) PROVE \E n \in DOMAIN Roots : Roots[n] = ret.atom
    OBVIOUS
  <2>1. M = 1 /\ L + 1 \in DOMAIN Roots
    BY <1>8, <1>20 DEF M
  <2> QED BY <1>6, <1>9, <2>1 DEF M
<1>16. \A n \in 1 .. L : n \in DOMAIN Roots /\ Roots[n] = stack[n].atom
  BY <1>9, <1>20
<1> QED BY <1>11, <1>14, <1>15, <1>16 DEF L

\* Trees with different roots that nobody refers to are apart.
LEMMA SaneOwnsOnce == TreesSane => OwnedOnce
<1> SUFFICES ASSUME TreesSane, Ordinary
             PROVE  /\ sound
                    /\ \A n \in DOMAIN Roots : IsTree(Roots[n])
                    /\ \A m, n \in DOMAIN Roots :
                         m # n => Reached[Roots[m]] \cap Reached[Roots[n]] = {}
  BY DEF OwnedOnce
<1>1. atoms \in Files /\ Sane(stack, heap, ret, doing, sound)
  BY DEF TreesSane
<1>2. sound /\ Forest(heap)
  BY <1>1 DEF Sane, Owners
<1>3. \A n \in DOMAIN Roots : Unheld(heap, Roots[n])
  BY <1>1, RootsUnheld
<1>4. \A m, n \in DOMAIN Roots : m # n => Roots[m] # Roots[n]
  BY <1>1, RootsUnheld
<1>5. \A n \in DOMAIN Roots : IsTree(Roots[n])
  BY <1>1, <1>2, <1>3, RootIsTree
<1>6. \A m, n \in DOMAIN Roots : m # n => Reached[Roots[m]] \cap Reached[Roots[n]] = {}
  BY <1>1, <1>2, <1>3, <1>4, RootsApart
<1> QED BY <1>2, <1>5, <1>6

\* Whatever the file, as long as dinf holds nothing but a dref, no exit function (mp4_io.h)
\* frees an object twice, and no object that was freed can be reached.
THEOREM TreesOwnedOnce == TreeSpec => []OwnedOnce
<1>1. TreeInit => TreesSane
  BY InitSane
<1>2. TreesSane /\ [TreeNext]_treeVars => TreesSane'
  BY NextSane
<1>3. TreesSane => OwnedOnce
  BY SaneOwnsOnce
<1> QED BY <1>1, <1>2, <1>3, PTL DEF TreeSpec

-----------------------------------------------------------------------------
(* What is not owned may be forgotten.                                     *)

\* Object x is that of a call or what was returned, is referred to, or may be forgotten.
Known(s, H, r, d, x) ==
  \/ \E n \in 1 .. Len(s) : x = s[n].atom
  \/ Returned(r, d) /\ x = r.atom
  \/ \E h \in DOMAIN H : x \in HeldBy(H[h])
  \/ x \in Forgettable

\* What an open call has in its slots, and in its list of unknown atoms.
Sorted(k, o) ==
  /\ \A c \in DOMAIN o.slots : o.slots[c] # 0 =>
       /\ o.slots[c] \in Kids(k) /\ Knows(k, atoms[o.slots[c]].type)
       /\ Slot(atoms[o.slots[c]].type) = c /\ SlotType(atoms[o.slots[c]].type)
  /\ \A j \in Range(o.unknown) : j \in Kids(k) /\ ~ Knows(k, atoms[j].type)

\* Nothing is lost that may not be.
Accounted(s, H, r, d) ==
  /\ \A x \in DOMAIN H : Known(s, H, r, d, x)
  /\ \A n \in 1 .. Len(s) : Sorted(s[n].atom, H[s[n].atom])

\* The atoms of the calls stay when a child is passed over.
LEMMA PassedAtoms ==
  ASSUME atoms \in Files, Sane(stack, heap, ret, doing, sound), doing # "done",
         NEW j \in Kids(Frame.atom), j = Frame.next, PassOver(j)
  PROVE  /\ Len(stack') = Len(stack)
         /\ \A n \in 1 .. Len(stack) : stack'[n].atom = stack[n].atom
<1> DEFINE L == Len(stack)
           t == [stack EXCEPT ![L].next = LastIn(j) + 1]
<1>1. stack # <<>> /\ Nesting(stack) /\ Frame = stack[L]
  BY Running
<1>2. j \in Kids(stack[L].atom) /\ j = stack[L].next
  BY <1>1
<1>3. /\ Len(t) = L /\ \A n \in 1 .. L : n # L => t[n] = stack[n]
      /\ t[L] = [atom |-> stack[L].atom, next |-> LastIn(j) + 1]
  BY <1>1, <1>2, Passing
<1>4. stack' = t
  BY DEF PassOver
<1> HIDE DEF t
<1>5. t[L].atom = stack[L].atom
  BY <1>3
<1> QED BY <1>3, <1>4, <1>5

\* The loop is left and nothing else happens.
LEMMA LeavingAccounted ==
  ASSUME Accounted(stack, heap, ret, doing), ~ Returned(ret, doing),
         stack' = stack, heap' = heap, ret' = ret, doing' = "check"
  PROVE  Accounted(stack', heap', ret', doing')
BY DEF Accounted, Known

\* Unknown: a list that is forgotten comes before a big atom.
LEMMA UnknownAccounted ==
  ASSUME atoms \in Files, Sane(stack, heap, ret, doing, sound), Unknown,
         Accounted(stack, heap, ret, doing)
  PROVE  Accounted(stack', heap', ret', doing')
<1> DEFINE k == Frame.atom
           c == Child
           L == Len(stack)
<1>0. doing # "done" /\ InLoop /\ doing = "loop"
  BY DEF Unknown, InLoop
<1>1. /\ c \in Kids(k) /\ c = Frame.next /\ k \in DOMAIN heap /\ Forest(heap)
      /\ PassOver(c) /\ ret' = ret /\ doing' = "loop" /\ c \in DOMAIN atoms
      /\ c \in Nat \ {0} /\ c \notin DOMAIN heap /\ k \in DOMAIN atoms
      /\ L \in 1 .. L /\ stack[L].atom = k /\ HeldBy(heap[k]) \subseteq 1 .. c - 1
      /\ DOMAIN heap \subseteq 1 .. c - 1
      /\ ~ Knows(k, atoms[c].type)
  BY <1>0, AtChild, Running DEF Unknown, InLoop, Holding, IsUnknown
<1>2. /\ Len(stack') = L /\ \A n \in 1 .. L : stack'[n].atom = stack[n].atom
  BY <1>0, <1>1, PassedAtoms
<1>3. \A n \in 1 .. L : stack[n].atom \in DOMAIN heap /\ stack[n].atom # c
  BY <1>0, <1>1, Running
<1>4. IsObject(heap[k]) /\ Apart(heap[k]) /\ c \notin HeldBy(heap[k])
  BY <1>1 DEF Forest
<1>5. ~ Returned(ret, doing) /\ ~ Returned(ret', doing')
  BY <1>0, <1>1 DEF Returned
<1>6. \A n \in 1 .. L : Sorted(stack[n].atom, heap[stack[n].atom])
  BY DEF Accounted
<1>7. \A x \in DOMAIN heap : Known(stack, heap, ret, doing, x)
  BY DEF Accounted
<1>8. CASE atoms[c].size > 1024 * 1024 - 8
  <2> DEFINE p == [heap[k] EXCEPT !.unknown = <<>>]
  <2>1. /\ HeldBy(heap[k]) \subseteq HeldBy(p) \cup Range(heap[k].unknown)
        /\ p.slots = heap[k].slots /\ p.unknown = <<>>
    BY <1>4, UnknownForgotten
  <2>2. heap' = [heap EXCEPT ![k] = p]
    BY <1>8 DEF Unknown
  <2> HIDE DEF p
  <2>3. /\ DOMAIN heap' = DOMAIN heap /\ heap'[k] = p
        /\ \A i \in DOMAIN heap : i # k => heap'[i] = heap[i]
    BY <1>1, <2>2
  <2>4. Sorted(k, heap[k])
    BY <1>1, <1>6
  <2>5. Sorted(k, p)
    BY <2>1, <2>4 DEF Sorted, Range
  <2>6. ASSUME NEW n \in 1 .. L PROVE Sorted(stack'[n].atom, heap'[stack'[n].atom])
    BY <1>2, <1>3, <1>6, <2>3, <2>5
  <2>7. ASSUME NEW x \in Range(heap[k].unknown) PROVE x \in Forgettable
    <3>1. x \in Kids(k) /\ ~ Knows(k, atoms[x].type)
      BY <2>4 DEF Sorted
    <3>2. x \in DOMAIN atoms
      BY <1>1, <3>1, NextKid
    <3>3. x \in HeldBy(heap[k])
      BY DEF HeldBy
    <3>4. c > x
      BY <1>1, <3>3
    <3> QED BY <1>1, <1>8, <3>1, <3>2, <3>4 DEF Forgettable
  <2>8. ASSUME NEW x \in DOMAIN heap' PROVE Known(stack', heap', ret', doing', x)
    <3>1. Known(stack, heap, ret, doing, x)
      BY <1>7, <2>3
    <3>2. CASE \E n \in 1 .. L : x = stack[n].atom
      BY <1>2, <3>2 DEF Known
    <3>3. CASE \E h \in DOMAIN heap : x \in HeldBy(heap[h])
      BY <1>1, <2>1, <2>3, <2>7, <3>3 DEF Known
    <3> QED BY <1>5, <3>1, <3>2, <3>3 DEF Known
  <2> QED BY <1>2, <2>6, <2>8 DEF Accounted
<1>9. CASE ~ (atoms[c].size > 1024 * 1024 - 8)
  <2> DEFINE p == [heap[k] EXCEPT !.unknown = Append(heap[k].unknown, c)]
  <2>1. /\ HeldBy(p) = HeldBy(heap[k]) \cup {c} /\ p.slots = heap[k].slots
        /\ p.unknown = Append(heap[k].unknown, c)
    BY <1>1, <1>4, UnknownHolds
  <2>2. heap' = [i \in DOMAIN heap \cup {c} |->
                   IF i = c THEN Fresh("unknown") ELSE IF i = k THEN p ELSE heap[i]]
    BY <1>9 DEF Unknown
  <2> HIDE DEF p
  <2>3. DOMAIN heap' = DOMAIN heap \cup {c} /\ heap'[k] = p
        /\ \A i \in DOMAIN heap : i # k => heap'[i] = heap[i]
    BY <1>1, <2>2
  <2>4. Sorted(k, heap[k])
    BY <1>1, <1>6
  <2>5. Range(p.unknown) = Range(heap[k].unknown) \cup {c}
    <3>1. c \notin Range(heap[k].unknown)
      BY <1>4 DEF HeldBy
    <3>2. heap[k].unknown \in Seq(Nat) /\ IsInjective(heap[k].unknown)
      BY <1>4, ObjectFields DEF Apart
    <3> QED BY <1>1, <2>1, <3>1, <3>2, ListHolds
  <2>6. Sorted(k, p)
    BY <1>1, <2>1, <2>4, <2>5 DEF Sorted
  <2>7. ASSUME NEW n \in 1 .. L PROVE Sorted(stack'[n].atom, heap'[stack'[n].atom])
    BY <1>2, <1>3, <1>6, <2>3, <2>6
  <2>8. ASSUME NEW x \in DOMAIN heap' PROVE Known(stack', heap', ret', doing', x)
    <3>1. CASE x = c
      BY <1>1, <2>1, <2>3, <3>1 DEF Known
    <3>2. CASE x # c
      <4>1. Known(stack, heap, ret, doing, x)
        BY <1>7, <2>3, <3>2
      <4>2. CASE \E n \in 1 .. L : x = stack[n].atom
        BY <1>2, <4>2 DEF Known
      <4>3. CASE \E h \in DOMAIN heap : x \in HeldBy(heap[h])
        BY <1>1, <2>1, <2>3, <4>3 DEF Known
      <4> QED BY <1>5, <4>1, <4>2, <4>3 DEF Known
    <3> QED BY <3>1, <3>2
  <2> QED BY <1>2, <2>7, <2>8 DEF Accounted
<1> QED BY <1>8, <1>9

\* The atoms without children that a container knows.
LeafType ==
  {"stsd", "stts", "stss", "stsc", "stsz", "stco", "co64", "ctts", "dref", "vmhd", "smhd",
   "mdhd", "hdlr", "elst", "tkhd", "trex", "mvhd"}

\* What a container knows is a container or one of the leaves.
LEMMA LeafTypes ==
  ASSUME NEW k, IsContainer(k), NEW type, Knows(k, type), type \notin DOMAIN Containers
  PROVE  type \in LeafType
BY DEF Knows, IsContainer, Containers, LeafType, stbl_read, dinf_read, minf_read, mdia_read,
       edts_read, trak_read, mvex_read, moov_read

\* A reader of a leaf returns it, or refuses it, or forgets it.
LEMMA ReaderLeaves ==
  ASSUME NEW a, a.type \in LeafType
  PROVE  Reader(a) \in {Read, Refused, Leaked}
<1>1. \A h, e : Table(a, h, e) \in {Read, Refused, Leaked}
  BY DEF Table
<1>2. \A s : AtLeast(a, s) \in {Read, Refused, Leaked}
  BY DEF AtLeast
<1>3. CASE a.type \in {"stsd", "stts", "stss", "stsc"}
  BY <1>1, <1>2, <1>3 DEF Reader, stsd_read, stts_read, stss_read, stsc_read
<1>4. CASE a.type \in {"stsz", "stco", "co64", "ctts"}
  BY <1>1, <1>2, <1>4 DEF Reader, stsz_read, stco_read, co64_read, ctts_read
<1>5. CASE a.type \in {"dref", "vmhd", "smhd", "mdhd"}
  BY <1>2, <1>5 DEF Reader, dref_read, vmhd_read, smhd_read, mdhd_read
<1>6. CASE a.type \in {"hdlr", "elst", "tkhd", "trex", "mvhd"}
  BY <1>2, <1>6 DEF Reader, hdlr_read, elst_read, tkhd_read, trex_read, mvhd_read
<1> QED BY <1>3, <1>4, <1>5, <1>6 DEF LeafType

\* Leaf: an object is returned, or forgotten by its reader.
LEMMA LeafAccounted ==
  ASSUME atoms \in Files, Sane(stack, heap, ret, doing, sound), Leaf,
         Accounted(stack, heap, ret, doing)
  PROVE  Accounted(stack', heap', ret', doing')
<1> DEFINE c == Child
           k == Frame.atom
           left == Reader(atoms[c])
           G == Extended(heap, c, atoms[c].type)
<1>0. doing # "done" /\ InLoop /\ doing = "loop"
  BY DEF Leaf, InLoop
<1>1. /\ stack' = stack /\ ret' = [atom |-> c, null |-> left # Read] /\ doing' = "deliver"
      /\ Knows(k, atoms[c].type) /\ ~ IsContainer(c)
  BY DEF Leaf
<1>2. heap' = IF left = Refused THEN heap ELSE G
  <2>1. heap' = IF left = Refused THEN heap
                ELSE [i \in DOMAIN heap \cup {c} |->
                        IF i = c THEN Fresh(atoms[i].type) ELSE heap[i]]
    BY DEF Leaf
  <2>2. [i \in DOMAIN heap \cup {c} |-> IF i = c THEN Fresh(atoms[i].type) ELSE heap[i]] = G
    BY DEF Extended
  <2> QED BY <2>1, <2>2
<1>3. /\ DOMAIN G = DOMAIN heap \cup {c} /\ \A i \in DOMAIN heap : G[i] = heap[i]
  BY <1>0, Growing
<1>4. /\ c \in Kids(k) /\ c \in DOMAIN atoms /\ k \in DOMAIN atoms
      /\ \A n \in 1 .. Len(stack) : stack[n].atom \in DOMAIN heap
  BY <1>0, AtChild, Running
<1>41. left \in {Read, Refused, Leaked}
  <2>1. IsContainer(k)
    BY <1>0, Running DEF Underway
  <2> QED BY <1>1, <2>1, LeafTypes, ReaderLeaves DEF IsContainer
<1> HIDE DEF G, left
<1>5. ~ Returned(ret, doing)
  BY <1>0 DEF Returned
<1>6. ret'.null = (left # Read) /\ ret'.atom = c
  BY <1>1
<1>7. heap' = heap \/ (heap' = G /\ (ret'.null => c \in Forgettable))
  <2>1. left = Leaked => c \in Forgettable
    BY <1>1, <1>4 DEF Forgettable, left
  <2> QED BY <1>2, <1>6, <2>1, <1>41
<1>8. \A n \in 1 .. Len(stack) : heap'[stack[n].atom] = heap[stack[n].atom]
  BY <1>2, <1>3, <1>4
<1>9. \A n \in 1 .. Len(stack') : Sorted(stack'[n].atom, heap'[stack'[n].atom])
  BY <1>1, <1>8 DEF Accounted
<1>10. ASSUME NEW x \in DOMAIN heap' PROVE Known(stack', heap', ret', doing', x)
  <2>1. CASE x \in DOMAIN heap
    <3>1. Known(stack, heap, ret, doing, x)
      BY <2>1 DEF Accounted
    <3>2. DOMAIN heap \subseteq DOMAIN heap' /\ \A i \in DOMAIN heap : heap'[i] = heap[i]
      BY <1>2, <1>3
    <3> QED BY <1>1, <1>5, <3>1, <3>2 DEF Known
  <2>2. CASE x \notin DOMAIN heap
    <3>1. x = c /\ heap' = G /\ heap' # heap
      BY <1>2, <1>3, <2>2
    <3> QED BY <1>1, <1>6, <1>7, <3>1 DEF Known, Returned
  <2> QED BY <2>1, <2>2
<1> QED BY <1>9, <1>10 DEF Accounted

\* Enter: the new object is that of the new call.
LEMMA EnterAccounted ==
  ASSUME atoms \in Files, Sane(stack, heap, ret, doing, sound), Enter,
         Accounted(stack, heap, ret, doing)
  PROVE  Accounted(stack', heap', ret', doing')
<1> DEFINE c == Child
           L == Len(stack)
           G == Extended(heap, c, atoms[c].type)
           t == Append(stack, [atom |-> c, next |-> c + 1])
<1>0. doing # "done" /\ InLoop /\ doing = "loop"
  BY DEF Enter, InLoop
<1>1. /\ stack' = t /\ ret' = ret /\ doing' = "loop"
      /\ Knows(Frame.atom, atoms[c].type) /\ IsContainer(c)
  BY <1>0 DEF Enter
<1>2. heap' = G
  <2>1. heap' = [k \in DOMAIN heap \cup {c} |->
                   IF k = c THEN Fresh(atoms[k].type) ELSE heap[k]]
    BY DEF Enter
  <2> QED BY <2>1 DEF Extended
<1>3. /\ DOMAIN G = DOMAIN heap \cup {c} /\ \A i \in DOMAIN heap : G[i] = heap[i]
      /\ G[c] = Fresh(atoms[c].type)
  BY <1>0, Growing
<1>4. /\ stack # <<>> /\ Frame = stack[L] /\ Nesting(stack) /\ L \in Nat \ {0}
      /\ \A n \in 1 .. L : stack[n].atom \in DOMAIN heap
  BY <1>0, Running
<1>5. c = Frame.next /\ c <= LastIn(Frame.atom)
  BY <1>0, AtChild DEF InLoop
<1>6. /\ Len(t) = L + 1 /\ \A n \in 1 .. L : t[n] = stack[n]
      /\ t[L + 1] = [atom |-> c, next |-> c + 1]
  <2>1. Awaits(stack[L], c)
    BY <1>1, <1>4, <1>5 DEF Awaits
  <2> QED BY <1>1, <1>4, <2>1, Entering
<1> HIDE DEF G, t
<1>7. t[L + 1].atom = c
  BY <1>6
<1>8. Sorted(c, G[c])
  <2>1. HeldBy(G[c]) = {}
    BY <1>3, FreshHoldsNothing
  <2>2. \A f \in DOMAIN G[c].slots : G[c].slots[f] = 0
    BY <2>1 DEF HeldBy, Slotted
  <2>3. Range(G[c].unknown) = {}
    BY <2>1 DEF HeldBy
  <2> QED BY <2>2, <2>3 DEF Sorted
<1>9. \A n \in 1 .. L + 1 : n \in 1 .. L \/ n = L + 1
  BY <1>4
<1>10. \A n \in 1 .. L + 1 : Sorted(t[n].atom, G[t[n].atom])
  BY <1>3, <1>4, <1>6, <1>7, <1>8, <1>9 DEF Accounted
<1>11. ASSUME NEW x \in DOMAIN G PROVE Known(stack', heap', ret', doing', x)
  <2>1. CASE x = c
    <3>1. L + 1 \in 1 .. L + 1
      BY <1>4
    <3> QED BY <1>1, <1>6, <1>7, <2>1, <3>1 DEF Known
  <2>2. CASE x # c
    <3>1. Known(stack, heap, ret, doing, x) /\ ~ Returned(ret, doing)
      BY <1>0, <1>3, <2>2 DEF Accounted, Returned
    <3>2. \A n \in 1 .. L : n \in 1 .. L + 1 /\ t[n].atom = stack[n].atom
      BY <1>4, <1>6
    <3> QED BY <1>1, <1>2, <1>3, <1>6, <3>1, <3>2 DEF Known
  <2> QED BY <2>1, <2>2
<1> QED BY <1>1, <1>2, <1>6, <1>10, <1>11 DEF Accounted

\* The child that was read becomes part of the object of the running call: what it
\* replaces may be forgotten.
LEMMA DeliveringAccounted ==
  ASSUME atoms \in Files, Sane(stack, heap, ret, doing, sound), doing = "deliver", ~ ret.null,
         Accounted(stack, heap, ret, doing),
         NEW p, Sorted(Frame.atom, p), ret.atom \in HeldBy(p),
         \A x \in HeldBy(heap[Frame.atom]) : x \in HeldBy(p) \/ x \in Forgettable,
         heap' = [heap EXCEPT ![Frame.atom] = p],
         PassOver(ret.atom), ret' = ret, doing' = "loop"
  PROVE  Accounted(stack', heap', ret', doing')
<1> DEFINE k == Frame.atom
           j == ret.atom
           L == Len(stack)
<1>0. doing # "done"
  OBVIOUS
<1>1. j \in Kids(k) /\ j = Frame.next
  BY AtDelivery
<1>2. k \in DOMAIN heap /\ \A n \in 1 .. L : stack[n].atom \in DOMAIN heap
  BY <1>0, Running
<1>3. /\ Len(stack') = L /\ \A n \in 1 .. L : stack'[n].atom = stack[n].atom
  BY <1>0, <1>1, PassedAtoms
<1>4. /\ DOMAIN heap' = DOMAIN heap /\ heap'[k] = p
      /\ \A i \in DOMAIN heap : i # k => heap'[i] = heap[i]
  BY <1>2
<1>5. \A n \in 1 .. L : Sorted(stack'[n].atom, heap'[stack'[n].atom])
  BY <1>2, <1>3, <1>4 DEF Accounted
<1>6. ASSUME NEW x \in DOMAIN heap' PROVE Known(stack', heap', ret', doing', x)
  <2>1. Known(stack, heap, ret, doing, x)
    BY <1>4 DEF Accounted
  <2>2. CASE \E n \in 1 .. L : x = stack[n].atom
    BY <1>3, <2>2 DEF Known
  <2>3. CASE x = j
    BY <1>2, <1>4, <2>3 DEF Known
  <2>4. CASE \E h \in DOMAIN heap : x \in HeldBy(heap[h])
    BY <1>2, <1>4, <2>4 DEF Known
  <2> QED BY <2>1, <2>2, <2>3, <2>4 DEF Known
<1> QED BY <1>3, <1>5, <1>6 DEF Accounted

\* Store: what is replaced is an earlier child for the same slot.
LEMMA StoreAccounted ==
  ASSUME atoms \in Files, Sane(stack, heap, ret, doing, sound), Store,
         Accounted(stack, heap, ret, doing)
  PROVE  Accounted(stack', heap', ret', doing')
<1> DEFINE k == Frame.atom
           j == ret.atom
           c == Slot(atoms[j].type)
           o == heap[k]
           p == [o EXCEPT !.slots[c] = j]
<1>1. /\ doing = "deliver" /\ doing # "done" /\ ~ ret.null /\ SlotType(atoms[j].type)
      /\ PassOver(j) /\ doing' = "loop" /\ ret' = ret
  BY DEF Store, SlotType
<1>2. heap' = [heap EXCEPT ![k] = p]
  BY DEF Store
<1>3. /\ k \in DOMAIN heap /\ Forest(heap) /\ Holding(Frame, heap) /\ Underway(Frame)
      /\ Len(stack) \in 1 .. Len(stack) /\ Frame = stack[Len(stack)] /\ k \in DOMAIN atoms
  BY <1>1, Running
<1>4. /\ Unheld(heap, j) /\ j \in Nat \ {0} /\ Awaits(Frame, j) /\ j \in Kids(k)
      /\ j = Frame.next /\ k \in DOMAIN atoms
  BY <1>1, <1>3, AtDelivery
<1>5. IsObject(o) /\ Apart(o) /\ j \notin HeldBy(o)
  BY <1>3, <1>4 DEF Forest, Unheld
<1>6. c \in DOMAIN o.slots
  BY <1>1, <1>3, <1>4, SlotKnown DEF Awaits, Underway, Holding
<1>7. Sorted(k, o) /\ HeldBy(o) \subseteq 1 .. j - 1
  BY <1>3, <1>4 DEF Accounted, Holding
<1>8. Knows(k, atoms[j].type)
  BY <1>4 DEF Awaits
<1> HIDE DEF o
<1>9. /\ j \in HeldBy(p) /\ HeldBy(o) \subseteq HeldBy(p) \cup {o.slots[c]}
      /\ p.slots = [o.slots EXCEPT ![c] = j] /\ p.unknown = o.unknown
  <2> HIDE DEF c, j, k
  <2> DEFINE q == [o EXCEPT !.slots[c] = j]
  <2>2. /\ j \in HeldBy(q) /\ HeldBy(o) \subseteq HeldBy(q) \cup {o.slots[c]}
        /\ q.slots = [o.slots EXCEPT ![c] = j] /\ q.unknown = o.unknown
    BY <1>4, <1>5, <1>6, SlotHolds
  <2> QED BY <2>2
<1> HIDE DEF p
<1>10. Sorted(k, p)
  <2>1. /\ DOMAIN p.slots = DOMAIN o.slots /\ p.slots[c] = j
        /\ \A f \in DOMAIN o.slots : f # c => p.slots[f] = o.slots[f]
    BY <1>6, <1>9
  <2>2. ASSUME NEW f \in DOMAIN p.slots, p.slots[f] # 0
        PROVE  /\ p.slots[f] \in Kids(k) /\ Knows(k, atoms[p.slots[f]].type)
               /\ Slot(atoms[p.slots[f]].type) = f /\ SlotType(atoms[p.slots[f]].type)
    <3>1. CASE f = c
      BY <1>1, <1>4, <1>8, <2>1, <3>1
    <3>2. CASE f # c
      BY <1>7, <2>1, <2>2, <3>2 DEF Sorted
    <3> QED BY <3>1, <3>2
  <2>3. \A i \in Range(p.unknown) : i \in Kids(k) /\ ~ Knows(k, atoms[i].type)
    BY <1>7, <1>9 DEF Sorted
  <2> QED BY <2>2, <2>3 DEF Sorted
<1>11. ASSUME NEW x \in HeldBy(o), x \notin HeldBy(p) PROVE x \in Forgettable
  <2>1. x = o.slots[c]
    BY <1>9, <1>11
  <2>2. x \in 1 .. j - 1
    BY <1>7
  <2>3. /\ x \in Kids(k) /\ Knows(k, atoms[x].type) /\ Slot(atoms[x].type) = c
    BY <1>6, <1>7, <2>1, <2>2 DEF Sorted
  <2>4. j > x
    BY <1>4, <2>2
  <2>5. x \in DOMAIN atoms
    BY <1>3, <2>3, NextKid
  <2>6. atoms[j].type \notin {"trak", "trex"}
    BY <1>1 DEF SlotType
  <2> QED BY <1>3, <1>4, <1>8, <2>3, <2>4, <2>5, <2>6 DEF Forgettable
<1>12. \A x \in HeldBy(heap[Frame.atom]) : x \in HeldBy(p) \/ x \in Forgettable
  BY <1>11 DEF o
<1> QED BY <1>1, <1>2, <1>9, <1>10, <1>12, DeliveringAccounted

\* AddTrack: the track is in the list.
LEMMA AddTrackAccounted ==
  ASSUME atoms \in Files, Sane(stack, heap, ret, doing, sound), AddTrack,
         Accounted(stack, heap, ret, doing)
  PROVE  Accounted(stack', heap', ret', doing')
<1> DEFINE k == Frame.atom
           j == ret.atom
           p == [heap[k] EXCEPT !.tracks = Append(@, j)]
<1>1. /\ doing = "deliver" /\ doing # "done" /\ ~ ret.null
      /\ PassOver(j) /\ doing' = "loop" /\ ret' = ret
  BY DEF AddTrack
<1>2. heap' = [heap EXCEPT ![k] = p]
  BY DEF AddTrack
<1>3. /\ k \in DOMAIN heap /\ Forest(heap) /\ Len(stack) \in 1 .. Len(stack)
      /\ Frame = stack[Len(stack)]
  BY <1>1, Running
<1>4. Unheld(heap, j) /\ j \in Nat \ {0}
  BY <1>1, AtDelivery
<1>5. IsObject(heap[k]) /\ Apart(heap[k]) /\ j \notin HeldBy(heap[k])
  BY <1>3, <1>4 DEF Forest, Unheld
<1>6. /\ HeldBy(p) = HeldBy(heap[k]) \cup {j}
      /\ p.slots = heap[k].slots /\ p.unknown = heap[k].unknown
  BY <1>4, <1>5, TracksHold
<1>7. Sorted(k, heap[k])
  BY <1>3 DEF Accounted
<1> HIDE DEF p
<1>8. Sorted(k, p)
  BY <1>6, <1>7 DEF Sorted
<1> QED BY <1>1, <1>2, <1>6, <1>8, DeliveringAccounted

\* Whatever refers to an object that stays stays.
LEMMA FreeingKnown ==
  ASSUME atoms \in Files, Sane(stack, heap, ret, doing, sound), doing # "done",
         NEW k, Unheld(heap, k), Exit(k)
  PROVE  /\ k \notin DOMAIN heap'
         /\ \A x \in DOMAIN heap' : \A h \in DOMAIN heap : x \in HeldBy(heap[h]) =>
              h \in DOMAIN heap' /\ x \in HeldBy(heap'[h])
<1>1. Forest(heap) /\ heap' = [j \in DOMAIN heap \ Reached[k] |-> heap[j]]
  BY Running DEF Exit
<1>2. k \in Reached[k]
  <2>1. k \in DOMAIN atoms
    BY <1>1 DEF Unheld, Forest
  <2> QED BY <1>1, <2>1, ReachedIsClosed
<1>3. \A x \in DOMAIN heap' : \A h \in DOMAIN heap :
        x \in HeldBy(heap[h]) => h \in DOMAIN heap'
  BY <1>1, ForestFrees
<1>4. \A h \in DOMAIN heap' : heap'[h] = heap[h]
  BY <1>1
<1> QED BY <1>1, <1>2, <1>3, <1>4

\* TableFull: the track is freed with all it refers to.
LEMMA TableFullAccounted ==
  ASSUME atoms \in Files, Sane(stack, heap, ret, doing, sound), TableFull,
         Accounted(stack, heap, ret, doing)
  PROVE  Accounted(stack', heap', ret', doing')
<1>1. /\ doing = "deliver" /\ doing # "done" /\ ~ ret.null /\ Exit(ret.atom)
      /\ stack' = stack /\ ret' = ret /\ doing' = "check"
  BY DEF TableFull, Break
<1>2. Unheld(heap, ret.atom) /\ ret.atom \in Nat /\ Frame.atom < ret.atom
  BY <1>1, AtDelivery
<1>3. \A n \in 1 .. Len(stack) : stack[n].atom \in Nat /\ stack[n].atom <= Frame.atom
      /\ Frame.atom \in Nat
  BY <1>1, Running DEF Call
<1>4. \A n \in 1 .. Len(stack) : stack[n].atom # ret.atom
  BY <1>2, <1>3
<1>5. /\ DOMAIN heap' \subseteq DOMAIN heap
      /\ \A n \in 1 .. Len(stack) : heap'[stack[n].atom] = heap[stack[n].atom]
  BY <1>1, <1>2, <1>4, Freeing
<1>6. /\ ret.atom \notin DOMAIN heap'
      /\ \A x \in DOMAIN heap' : \A h \in DOMAIN heap : x \in HeldBy(heap[h]) =>
           h \in DOMAIN heap' /\ x \in HeldBy(heap'[h])
  BY <1>1, <1>2, FreeingKnown
<1>7. \A n \in 1 .. Len(stack) : Sorted(stack[n].atom, heap'[stack[n].atom])
  BY <1>5 DEF Accounted
<1>8. ASSUME NEW x \in DOMAIN heap' PROVE Known(stack', heap', ret', doing', x)
  <2>1. Known(stack, heap, ret, doing, x)
    BY <1>5 DEF Accounted
  <2> QED BY <1>1, <1>6, <2>1 DEF Known
<1> QED BY <1>1, <1>7, <1>8 DEF Accounted

\* IgnoreTrak: the track is freed with all it refers to.
LEMMA IgnoreTrakAccounted ==
  ASSUME atoms \in Files, Sane(stack, heap, ret, doing, sound), IgnoreTrak,
         Accounted(stack, heap, ret, doing)
  PROVE  Accounted(stack', heap', ret', doing')
<1>1. /\ doing = "deliver" /\ doing # "done" /\ ~ ret.null /\ Exit(ret.atom)
      /\ PassOver(ret.atom) /\ ret' = ret /\ doing' = "loop"
  BY DEF IgnoreTrak
<1>2. /\ Unheld(heap, ret.atom) /\ ret.atom \in Nat /\ Frame.atom < ret.atom
      /\ ret.atom \in Kids(Frame.atom) /\ ret.atom = Frame.next
  BY <1>1, AtDelivery
<1>3. \A n \in 1 .. Len(stack) : stack[n].atom \in Nat /\ stack[n].atom <= Frame.atom
      /\ Frame.atom \in Nat
  BY <1>1, Running DEF Call
<1>4. \A n \in 1 .. Len(stack) : stack[n].atom # ret.atom
  BY <1>2, <1>3
<1>5. /\ DOMAIN heap' \subseteq DOMAIN heap
      /\ \A n \in 1 .. Len(stack) : heap'[stack[n].atom] = heap[stack[n].atom]
  BY <1>1, <1>2, <1>4, Freeing
<1>6. /\ ret.atom \notin DOMAIN heap'
      /\ \A x \in DOMAIN heap' : \A h \in DOMAIN heap : x \in HeldBy(heap[h]) =>
           h \in DOMAIN heap' /\ x \in HeldBy(heap'[h])
  BY <1>1, <1>2, FreeingKnown
<1>7. /\ Len(stack') = Len(stack)
      /\ \A n \in 1 .. Len(stack) : stack'[n].atom = stack[n].atom
  BY <1>1, <1>2, PassedAtoms
<1>8. \A n \in 1 .. Len(stack) : Sorted(stack[n].atom, heap'[stack[n].atom])
  BY <1>5 DEF Accounted
<1>9. ASSUME NEW x \in DOMAIN heap' PROVE Known(stack', heap', ret', doing', x)
  <2>1. Known(stack, heap, ret, doing, x)
    BY <1>5 DEF Accounted
  <2> QED BY <1>6, <1>7, <2>1 DEF Known
<1> QED BY <1>7, <1>8, <1>9 DEF Accounted

\* The running call returns.
LEMMA BelowAtoms ==
  ASSUME atoms \in Files, Sane(stack, heap, ret, doing, sound), doing = "check", stack' = Below
  PROVE  /\ Len(stack) \in Nat \ {0} /\ Len(stack') = Len(stack) - 1
         /\ \A n \in 1 .. Len(stack) - 1 : stack'[n] = stack[n]
<1>1. stack # <<>> /\ Nesting(stack) /\ Len(stack) \in Nat \ {0}
  BY Running
<1> QED BY <1>1, Returning DEF Below

\* Accept: the object of the call is returned.
LEMMA AcceptAccounted ==
  ASSUME atoms \in Files, Sane(stack, heap, ret, doing, sound), Accept,
         Accounted(stack, heap, ret, doing)
  PROVE  Accounted(stack', heap', ret', doing')
<1> DEFINE L == Len(stack)
<1>1. /\ doing = "check" /\ doing # "done" /\ stack' = Below /\ doing' \in {"done", "deliver"}
      /\ ret' = [atom |-> Frame.atom, null |-> FALSE] /\ heap' = heap
  BY DEF Accept
<1>2. L \in Nat \ {0} /\ Len(stack') = L - 1 /\ \A n \in 1 .. L - 1 : stack'[n] = stack[n]
  BY <1>1, BelowAtoms
<1>3. Frame = stack[L]
  BY <1>1, Running
<1> HIDE DEF L
<1>4. \A n \in 1 .. L - 1 : n \in 1 .. L
  BY <1>2
<1>5. \A n \in 1 .. L : n = L \/ n \in 1 .. L - 1
  BY <1>2
<1>6. Returned(ret', doing') /\ ret'.atom = stack[L].atom /\ ~ Returned(ret, doing)
  BY <1>1, <1>3 DEF Returned
<1>7. \A n \in 1 .. Len(stack') : Sorted(stack'[n].atom, heap'[stack'[n].atom])
  BY <1>1, <1>2, <1>4 DEF Accounted, L
<1>8. ASSUME NEW x \in DOMAIN heap' PROVE Known(stack', heap', ret', doing', x)
  <2>1. Known(stack, heap, ret, doing, x)
    BY <1>1 DEF Accounted
  <2>2. CASE \E n \in 1 .. L : x = stack[n].atom
    BY <1>2, <1>5, <1>6, <2>2 DEF Known
  <2> QED BY <1>1, <1>6, <2>1, <2>2 DEF Known, L
<1> QED BY <1>7, <1>8 DEF Accounted

\* Reject: the object of the call is freed with all it refers to.
LEMMA RejectAccounted ==
  ASSUME atoms \in Files, Sane(stack, heap, ret, doing, sound), Reject,
         Accounted(stack, heap, ret, doing)
  PROVE  Accounted(stack', heap', ret', doing')
<1> DEFINE L == Len(stack)
<1>1. /\ doing = "check" /\ doing # "done" /\ stack' = Below /\ Exit(Frame.atom)
  BY DEF Reject
<1>2. L \in Nat \ {0} /\ Len(stack') = L - 1 /\ \A n \in 1 .. L - 1 : stack'[n] = stack[n]
  BY <1>1, BelowAtoms
<1>3. /\ Frame = stack[L] /\ Holding(Frame, heap) /\ Frame.atom \in Nat
      /\ \A n \in 1 .. L : n # L => stack[n].atom < Frame.atom
      /\ \A n \in 1 .. L : stack[n] \in Call
  BY <1>1, Running
<1>4. Unheld(heap, Frame.atom)
  BY <1>3 DEF Holding
<1>5. \A n \in 1 .. L : n # L => stack[n].atom # Frame.atom
  BY <1>3 DEF Call
<1>6. /\ DOMAIN heap' \subseteq DOMAIN heap
      /\ \A n \in 1 .. L : n # L => heap'[stack[n].atom] = heap[stack[n].atom]
  BY <1>1, <1>4, <1>5, Freeing
<1>7. /\ Frame.atom \notin DOMAIN heap'
      /\ \A x \in DOMAIN heap' : \A h \in DOMAIN heap : x \in HeldBy(heap[h]) =>
           h \in DOMAIN heap' /\ x \in HeldBy(heap'[h])
  BY <1>1, <1>4, FreeingKnown
<1> HIDE DEF L
<1>8. \A n \in 1 .. L - 1 : n \in 1 .. L /\ n # L
  BY <1>2
<1>9. \A n \in 1 .. L : n = L \/ n \in 1 .. L - 1
  BY <1>2
<1>10. \A n \in 1 .. Len(stack') : Sorted(stack'[n].atom, heap'[stack'[n].atom])
  BY <1>2, <1>6, <1>8 DEF Accounted, L
<1>11. ~ Returned(ret, doing)
  BY <1>1 DEF Returned
<1>12. ASSUME NEW x \in DOMAIN heap' PROVE Known(stack', heap', ret', doing', x)
  <2>1. Known(stack, heap, ret, doing, x)
    BY <1>6 DEF Accounted
  <2>2. CASE \E n \in 1 .. L : x = stack[n].atom
    BY <1>2, <1>3, <1>7, <1>9, <2>2 DEF Known
  <2> QED BY <1>7, <1>11, <2>1, <2>2 DEF Known, L
<1> QED BY <1>10, <1>12 DEF Accounted

-----------------------------------------------------------------------------
\* The inductive invariant for what is forgotten.
TreesAccounted == TreesSane /\ (Ordinary => Accounted(stack, heap, ret, doing))

\* The only object is that of the only call.
LEMMA InitAccounted == TreeInit => TreesAccounted
<1> SUFFICES ASSUME TreeInit PROVE Accounted(stack, heap, ret, doing)
  BY InitSane DEF TreesAccounted
<1>1. /\ stack = <<[atom |-> 1, next |-> 2]>> /\ heap = [k \in {1} |-> Fresh("moov")]
  BY DEF TreeInit
<1>2. Len(stack) = 1 /\ stack[1].atom = 1 /\ DOMAIN heap = {1} /\ heap[1] = Fresh("moov")
  BY <1>1
<1>3. HeldBy(heap[1]) = {}
  BY <1>2, FreshHoldsNothing
<1>4. /\ \A f \in DOMAIN heap[1].slots : heap[1].slots[f] = 0
      /\ Range(heap[1].unknown) = {}
  BY <1>3 DEF HeldBy, Slotted
<1>5. Sorted(1, heap[1])
  BY <1>4 DEF Sorted
<1> QED BY <1>2, <1>5 DEF Accounted, Known

\* The invariant is kept by every step.
LEMMA NextAccounted == TreesAccounted /\ [TreeNext]_treeVars => TreesAccounted'
<1> SUFFICES ASSUME TreesAccounted, [TreeNext]_treeVars PROVE TreesAccounted'
  OBVIOUS
<1>1. TreesSane /\ TreesSane' /\ atoms \in Files
  BY NextSane DEF TreesAccounted, TreesSane
<1>2. atoms' = atoms
  BY DEF TreeNext, treeVars, BadHeader, Unknown, UnknownInDinf, Leaf, Enter, AtEnd, ChildFailed,
         Store, TableFull, IgnoreTrak, AddTrack, Accept, Reject
<1>3. SUFFICES ASSUME Ordinary PROVE Accounted(stack', heap', ret', doing')
  <2>1. Ordinary' <=> Ordinary
    BY <1>2 DEF Ordinary, LastIn
  <2>2. Accounted(stack', heap', ret', doing') => Accounted(stack, heap, ret, doing)'
    <3>1. Forgettable' = Forgettable
      BY <1>2 DEF Forgettable, Kids, Knows, IsContainer, LastIn
    <3>2. \A k, o : Sorted(k, o)' <=> Sorted(k, o)
      BY <1>2 DEF Sorted, Kids, Knows, LastIn
    <3> QED BY <3>1, <3>2 DEF Accounted, Known, Returned, Sorted, Kids, Knows, LastIn
  <2> QED BY <1>1, <1>3, <2>1, <2>2 DEF TreesAccounted
<1>4. Sane(stack, heap, ret, doing, sound) /\ Accounted(stack, heap, ret, doing)
  BY <1>1, <1>3 DEF TreesSane, TreesAccounted
<1>5. CASE UNCHANGED treeVars
  BY <1>4, <1>5 DEF treeVars
<1>6. CASE TreeNext
  <2>1. CASE UnknownInDinf
    BY <1>1, <1>3, <1>4, <2>1, NoUnknownInDinf
  <2>2. CASE BadHeader \/ AtEnd
    <3>1. /\ doing = "loop" /\ stack' = stack /\ heap' = heap /\ ret' = ret /\ doing' = "check"
      BY <2>2 DEF BadHeader, AtEnd, InLoop
    <3> QED BY <1>4, <3>1, LeavingAccounted DEF Returned
  <2>3. CASE ChildFailed
    <3>1. /\ ret.null /\ stack' = stack /\ heap' = heap /\ ret' = ret /\ doing' = "check"
      BY <2>3 DEF ChildFailed, Break
    <3> QED BY <1>4, <3>1, LeavingAccounted DEF Returned
  <2>4. CASE Unknown \/ Leaf \/ Enter
    BY <1>1, <1>4, <2>4, UnknownAccounted, LeafAccounted, EnterAccounted
  <2>5. CASE Store \/ TableFull \/ IgnoreTrak \/ AddTrack
    BY <1>1, <1>4, <2>5, StoreAccounted, TableFullAccounted, IgnoreTrakAccounted, AddTrackAccounted
  <2>6. CASE Accept \/ Reject
    BY <1>1, <1>4, <2>6, AcceptAccounted, RejectAccounted
  <2> QED BY <1>6, <2>1, <2>2, <2>3, <2>4, <2>5, <2>6 DEF TreeNext
<1> QED BY <1>5, <1>6

\* From an object that is lost one goes up to what refers to it, to a call, to what was
\* returned or to what may be forgotten.
LEMMA AccountedLeaksNothing == TreesAccounted => NothingElseLeaks
<1> SUFFICES ASSUME TreesAccounted, Ordinary,
                    NEW z \in DOMAIN heap,
                    ~ \/ \E n \in DOMAIN Roots : z \in Reached[Roots[n]]
                      \/ \E j \in Forgettable : z \in j .. LastIn(j)
             PROVE  FALSE
  BY DEF NothingElseLeaks
<1>1. atoms \in Files /\ Sane(stack, heap, ret, doing, sound) /\ Accounted(stack, heap, ret, doing)
  BY DEF TreesAccounted, TreesSane
<1>2. Forest(heap) /\ DOMAIN heap \subseteq DOMAIN atoms
  BY <1>1 DEF Sane, Owners, Forest
<1>3. \A x \in DOMAIN atoms : x \in Nat /\ LastIn(x) \in Nat /\ x <= LastIn(x)
  BY <1>1, AtomsNested
<1> DEFINE Lost(x) == /\ ~ \E n \in DOMAIN Roots : x \in Reached[Roots[n]]
                      /\ ~ \E j \in Forgettable : x \in j .. LastIn(j)
           S == {x \in DOMAIN heap : Lost(x)}
<1>4. S \in SUBSET Nat /\ S # {}
  BY <1>2, <1>3
<1>5. PICK x \in S : \A y \in S : x <= y
  BY <1>4, LeastNat
<1>6. x \in DOMAIN heap /\ x \in DOMAIN atoms /\ Lost(x)
  BY <1>2, <1>5
<1>7. Known(stack, heap, ret, doing, x)
  BY <1>1, <1>6 DEF Accounted
<1>8. \A n \in DOMAIN Roots : Roots[n] \in DOMAIN atoms /\ Roots[n] \in Reached[Roots[n]]
  <2>1. \A n \in DOMAIN Roots : Roots[n] \in DOMAIN atoms
    BY <1>1, <1>2, RootsUnheld DEF Unheld
  <2> QED BY <1>1, <1>2, <2>1, ReachedIsClosed
<1>9. ~ \E n \in 1 .. Len(stack) : x = stack[n].atom
  BY <1>1, <1>6, <1>8, RootsUnheld
<1>10. ~ (Returned(ret, doing) /\ x = ret.atom)
  BY <1>1, <1>6, <1>8, RootsUnheld
<1>11. x \notin Forgettable
  BY <1>3, <1>6
<1>12. PICK h \in DOMAIN heap : x \in HeldBy(heap[h])
  BY <1>7, <1>9, <1>10, <1>11 DEF Known
<1>13. h \in DOMAIN atoms /\ x \in h + 1 .. LastIn(h)
  BY <1>2, <1>12 DEF Forest
<1>14. h \notin S
  BY <1>3, <1>5, <1>13
<1>15. CASE \E n \in DOMAIN Roots : h \in Reached[Roots[n]]
  <2>1. PICK n \in DOMAIN Roots : h \in Reached[Roots[n]]
    BY <1>15
  <2>2. Held(h) \subseteq Reached[Roots[n]]
    BY <1>1, <1>2, <1>8, <2>1, ReachedIsClosed
  <2>3. x \in Reached[Roots[n]]
    BY <1>12, <2>2 DEF Held
  <2> QED BY <1>6, <2>3
<1>16. CASE \E j \in Forgettable : h \in j .. LastIn(j)
  <2>1. PICK j \in Forgettable : h \in j .. LastIn(j)
    BY <1>16
  <2>2. j \in DOMAIN atoms
    BY <2>1 DEF Forgettable
  <2>3. LastIn(h) <= LastIn(j)
    <3>1. CASE h = j
      BY <1>3, <1>13, <3>1
    <3>2. CASE h # j
      <4>1. j < h /\ h <= LastIn(j)
        BY <1>3, <1>13, <2>1, <2>2, <3>2
      <4> QED BY <1>1, <1>13, <2>2, <4>1, AtomsNested
    <3> QED BY <3>1, <3>2
  <2>4. x \in j .. LastIn(j)
    BY <1>3, <1>13, <2>1, <2>2, <2>3
  <2> QED BY <1>6, <2>4
<1> QED BY <1>12, <1>14, <1>15, <1>16

\* Whatever the file, as long as dinf holds nothing but a dref, the readers (mp4_reader.h)
\* lose no object but those that a later one replaces, those a reader allocates and
\* then refuses, and unknown atoms before a big one.
THEOREM TreesLeakNothingElse == TreeSpec => []NothingElseLeaks
<1>1. TreeInit => TreesAccounted
  BY InitAccounted
<1>2. TreesAccounted /\ [TreeNext]_treeVars => TreesAccounted'
  BY NextAccounted
<1>3. TreesAccounted => NothingElseLeaks
  BY AccountedLeaksNothing
<1> QED BY <1>1, <1>2, <1>3, PTL DEF TreeSpec

-----------------------------------------------------------------------------
(* Kids, and the last one of some.                                         *)

\* The last of some atoms is one of them, and none comes behind it.
LEMMA LastIsLast ==
  ASSUME NEW N \in Nat, NEW S \in SUBSET (1 .. N), S # {}
  PROVE  LastOf(S) \in S /\ \A i \in S : i <= LastOf(S)
<1> DEFINE T == {N - i : i \in S}
<1>1. T \in SUBSET Nat /\ T # {}
  <2>1. \A i \in S : N - i \in Nat
    OBVIOUS
  <2>2. T # {}
    <3>1. PICK i \in S : TRUE
      OBVIOUS
    <3>2. N - i \in T
      OBVIOUS
    <3> QED BY <3>2
  <2> QED BY <2>1, <2>2
<1>2. PICK m \in T : \A n \in T : m <= n
  BY <1>1, LeastNat
<1>3. PICK j \in S : m = N - j
  BY <1>2
<1>4. \A i \in S : i <= j
  <2> SUFFICES ASSUME NEW i \in S PROVE i <= j
    OBVIOUS
  <2>1. N - i \in T
    OBVIOUS
  <2>2. N - j <= N - i
    BY <1>2, <1>3, <2>1
  <2> QED BY <2>2
<1>5. \E x \in S : \A i \in S : i <= x
  BY <1>3, <1>4
<1> QED BY <1>5 DEF LastOf

\* An element that none exceeds is the last one.
LEMMA LastIsOnly ==
  ASSUME NEW N \in Nat, NEW S \in SUBSET (1 .. N), NEW j \in S, \A i \in S : i <= j
  PROVE  LastOf(S) = j
<1>1. LastOf(S) \in S /\ \A i \in S : i <= LastOf(S)
  BY LastIsLast
<1>2. S \subseteq Nat
  OBVIOUS
<1>3. LastOf(S) \in Nat /\ j \in Nat
  BY <1>1, <1>2
<1>4. j <= LastOf(S) /\ LastOf(S) <= j
  BY <1>1
<1> QED BY <1>3, <1>4

\* The children of an atom lie inside of it.
LEMMA KidsWithin ==
  ASSUME atoms \in Files, NEW k \in DOMAIN atoms
  PROVE  /\ Kids(k) \subseteq k + 1 .. LastIn(k) /\ Kids(k) \subseteq DOMAIN atoms
         /\ Kids(k) \in SUBSET (1 .. Len(atoms)) /\ Len(atoms) \in Nat
         /\ \A j \in Kids(k) : j \in Nat /\ j > k /\ j <= LastIn(k) /\ LastIn(j) <= LastIn(k)
<1>1. /\ Len(atoms) \in Nat /\ DOMAIN atoms = 1 .. Len(atoms) /\ k \in Nat
      /\ LastIn(k) \in Nat /\ LastIn(k) <= Len(atoms)
  BY AtomsNested
<1>2. Kids(k) \subseteq k + 1 .. LastIn(k)
  BY DEF Kids
<1>3. k + 1 .. LastIn(k) \subseteq 1 .. Len(atoms)
  BY <1>1
<1>4. \A j \in Kids(k) : j \in Nat /\ j > k /\ j <= LastIn(k) /\ LastIn(j) <= LastIn(k)
  <2> SUFFICES ASSUME NEW j \in Kids(k)
               PROVE  j \in Nat /\ j > k /\ j <= LastIn(k) /\ LastIn(j) <= LastIn(k)
    OBVIOUS
  <2>1. j \in k + 1 .. LastIn(k)
    BY <1>2
  <2> QED BY <1>1, <2>1, NextKid
<1> QED BY <1>1, <1>2, <1>3, <1>4

\* A later child comes behind all that is inside an earlier one.
LEMMA KidsApart ==
  ASSUME atoms \in Files, NEW k \in DOMAIN atoms, NEW i \in Kids(k), NEW j \in Kids(k), i > j
  PROVE  i > LastIn(j)
<1>1. /\ i \in DOMAIN atoms /\ j \in DOMAIN atoms /\ i \in Nat /\ j \in Nat /\ LastIn(j) \in Nat
      /\ atoms[i].depth \in Nat
  <2>1. i \in DOMAIN atoms /\ j \in DOMAIN atoms
    BY NextKid
  <2> QED BY <2>1, AtomsNested
<1>2. atoms[i].depth = atoms[j].depth
  BY DEF Kids
<1>3. i <= LastIn(j) => atoms[i].depth > atoms[j].depth
  BY <1>1, AtomsNested
<1> QED BY <1>1, <1>2, <1>3

\* The children that come before what is behind child j.
LEMMA KidsUpTo ==
  ASSUME atoms \in Files, NEW k \in DOMAIN atoms, NEW j \in Kids(k), NEW i \in Kids(k)
  PROVE  i < LastIn(j) + 1 <=> i < j \/ i = j
<1>1. /\ i \in Nat /\ j \in Nat /\ LastIn(j) \in Nat /\ j <= LastIn(j)
  <2>1. i \in DOMAIN atoms /\ j \in DOMAIN atoms
    BY NextKid
  <2> QED BY <2>1, AtomsNested
<1>2. i > j => i > LastIn(j)
  BY KidsApart
<1> QED BY <1>1, <1>2

-----------------------------------------------------------------------------
(* Which atoms are fine.                                                   *)

\* What a container knows of what is inside.
Inside(k, f) == [j \in k + 1 .. LastIn(k) |-> f[j]]

\* An atom without children can be read.
FineLeaf(k) ==
  /\ \E c \in DOMAIN Containers : atoms[k].type \in Containers[c].knows
  /\ Reader(atoms[k]) = Read

\* The recursion ends, as what is inside an atom comes behind it.
LEMMA FineUnfolds ==
  ASSUME atoms \in Files
  PROVE  /\ DOMAIN Fine = DOMAIN atoms
         /\ \A k \in DOMAIN atoms :
              Fine[k] = IF IsContainer(k) THEN FineContainer(k, Inside(k, Fine)) ELSE FineLeaf(k)
<1> DEFINE N == Len(atoms)
           From(m) == {k \in DOMAIN atoms : m <= k}
           Step(k, f) == IF IsContainer(k) THEN FineContainer(k, Inside(k, f)) ELSE FineLeaf(k)
           Solves(f, S) == f = [k \in S |-> Step(k, f)]
           Ends(d) == \E f : Solves(f, From(N + 1 - d))
           Bad == {d \in Nat : d <= N /\ ~ Ends(d)}
<1>1. N \in Nat \ {0} /\ DOMAIN atoms = 1 .. N
      /\ \A k \in DOMAIN atoms : LastIn(k) \in k .. N
  BY AtomsNested
<1>2. \A k \in DOMAIN atoms : \A j \in k + 1 .. LastIn(k) : j \in DOMAIN atoms /\ j > k
  BY <1>1
<1>3. \A k, f, g : (\A j \in k + 1 .. LastIn(k) : f[j] = g[j]) => Step(k, f) = Step(k, g)
  <2> SUFFICES ASSUME NEW k, NEW f, NEW g, \A j \in k + 1 .. LastIn(k) : f[j] = g[j]
               PROVE  Step(k, f) = Step(k, g)
    OBVIOUS
  <2>1. Inside(k, f) = Inside(k, g)
    BY DEF Inside
  <2> QED BY <2>1
<1> HIDE DEF Step
<1>4. Bad = {}
  <2> SUFFICES ASSUME Bad # {} PROVE FALSE
    OBVIOUS
  <2>0. Bad \in SUBSET Nat
    OBVIOUS
  <2>1. PICK d \in Bad : \A e \in Bad : d <= e
    BY <2>0, LeastNat
  <2>11. d \in Nat /\ d <= N /\ ~ Ends(d) /\ \A e \in Nat : e < d /\ e <= N => Ends(e)
    <3> HIDE DEF Ends
    <3> QED BY <1>1, <2>1
  <2>2. CASE d = 0
    <3>1. From(N + 1 - d) = {}
      BY <1>1, <2>2
    <3> DEFINE g == [k \in {} |-> {k}]
    <3>2. Solves(g, From(N + 1 - d))
      <4>1. g = [k \in {} |-> Step(k, g)]
        OBVIOUS
      <4> QED BY <3>1, <4>1
    <3> QED BY <2>11, <3>2
  <2>3. CASE d # 0
    <3>1. d - 1 \in Nat /\ Ends(d - 1) /\ d \in 1 .. N
      <4> HIDE DEF Ends
      <4> QED BY <1>1, <2>11, <2>3
    <3>2. PICK f : Solves(f, From(N + 1 - (d - 1)))
      BY <3>1
    <3> DEFINE m == N + 1 - d
               g == [k \in From(m) |-> IF k = m THEN Step(m, f) ELSE f[k]]
    <3>3. m \in DOMAIN atoms /\ From(m) = {m} \cup From(m + 1) /\ m \notin From(m + 1)
          /\ N + 1 - (d - 1) = m + 1
      BY <1>1, <3>1
    <3>4. \A k \in From(m) : \A j \in k + 1 .. LastIn(k) : j \in From(m + 1)
      BY <1>1, <1>2, <3>3
    <3>5. Solves(f, From(m + 1))
      BY <3>2, <3>3
    <3> HIDE DEF m, From, Bad
    <3>6. \A j \in From(m + 1) : g[j] = f[j]
      BY <3>3
    <3>7. \A k \in From(m) : Step(k, g) = Step(k, f)
      <4> HIDE DEF g
      <4> QED BY <1>3, <3>4, <3>6
    <3>8. ASSUME NEW k \in From(m)
          PROVE  g[k] = Step(k, g)
      <4>1. CASE k = m
        <5>1. g[k] = Step(k, f)
          BY <4>1
        <5> QED BY <3>7, <5>1
      <4>2. CASE k # m
        <5>1. k \in From(m + 1)
          BY <3>3, <4>2
        <5>2. g[k] = f[k]
          BY <3>6, <5>1
        <5>3. f[k] = Step(k, f)
          BY <3>5, <5>1
        <5> QED BY <3>7, <5>2, <5>3
      <4> QED BY <4>1, <4>2
    <3>9. Solves(g, From(m))
      <4>1. g = [k \in From(m) |-> g[k]]
        OBVIOUS
      <4> HIDE DEF g
      <4>2. g = [k \in From(m) |-> Step(k, g)]
        BY <3>8, <4>1
      <4> QED BY <4>2
    <3>10. Ends(d)
      <4> HIDE DEF g
      <4> QED BY <3>9 DEF m
    <3> QED BY <2>11, <3>10
  <2> QED BY <2>2, <2>3
<1>5. \E f : Solves(f, DOMAIN atoms)
  <2>1. Ends(N)
    <3> HIDE DEF Ends
    <3> QED BY <1>1, <1>4
  <2>2. \E f : Solves(f, From(N + 1 - N))
    BY <2>1
  <2>3. From(N + 1 - N) = DOMAIN atoms
    BY <1>1
  <2> QED BY <2>2, <2>3
<1>6. Solves(Fine, DOMAIN atoms)
  <2>1. Fine = CHOOSE f : Solves(f, DOMAIN atoms)
    BY DEF Fine, Step, Inside, FineLeaf
  <2> QED BY <1>5, <2>1
<1>7. DOMAIN Fine = DOMAIN atoms
  BY <1>6
<1> QED BY <1>6, <1>7 DEF Step

\* The child of a kind that counts, when there is one.
LEMMA ChildIsKid ==
  ASSUME atoms \in Files, NEW k \in DOMAIN atoms, NEW f, NEW t,
         \E j \in Kids(k) : f[j] /\ atoms[j].type = t
  PROVE  /\ ChildOf(k, f, t) \in Kids(k) /\ ChildOf(k, f, t) \in DOMAIN atoms
         /\ f[ChildOf(k, f, t)] /\ atoms[ChildOf(k, f, t)].type = t
<1> DEFINE S == {j \in Kids(k) : f[j] /\ atoms[j].type = t}
<1>1. /\ S # {} /\ S \in SUBSET (1 .. Len(atoms)) /\ Len(atoms) \in Nat
      /\ Kids(k) \subseteq DOMAIN atoms
  BY KidsWithin
<1>2. LastOf(S) \in S
  BY <1>1, LastIsLast
<1> QED BY <1>1, <1>2 DEF ChildOf

\* The last child of a kind depends on which children are fine, and on nothing else.
LEMMA ChildSame ==
  ASSUME NEW k, NEW f, NEW g, \A j \in Kids(k) : f[j] = g[j], NEW t
  PROVE  ChildOf(k, f, t) = ChildOf(k, g, t)
<1>1. {j \in Kids(k) : f[j] /\ atoms[j].type = t} = {j \in Kids(k) : g[j] /\ atoms[j].type = t}
  OBVIOUS
<1> QED BY <1>1 DEF ChildOf

\* What a fine container cannot do without is there.
LEMMA FineNeeds ==
  ASSUME atoms \in Files, NEW k \in DOMAIN atoms, IsContainer(k), Fine[k],
         NEW c \in Containers[atoms[k].type].needs, c \notin {"trak", "trex"}
  PROVE  \E j \in Kids(k) : Fine[j] /\ atoms[j].type = c
<1>1. FineContainer(k, Inside(k, Fine))
  BY FineUnfolds
<1>2. \E j \in Kids(k) : Inside(k, Fine)[j] /\ atoms[j].type = c
  BY <1>1 DEF FineContainer
<1>3. \A j \in Kids(k) : Inside(k, Fine)[j] = Fine[j]
  BY KidsWithin DEF Inside
<1> QED BY <1>2, <1>3

\* What is inside a child is inside its parent.
LEMMA InsideKid ==
  ASSUME atoms \in Files, NEW k \in DOMAIN atoms, NEW j \in Kids(k)
  PROVE  /\ j \in DOMAIN atoms /\ j \in k + 1 .. LastIn(k)
         /\ j + 1 .. LastIn(j) \subseteq k + 1 .. LastIn(k)
         /\ Kids(j) \subseteq k + 1 .. LastIn(k)
<1>1. j \in DOMAIN atoms /\ j \in k + 1 .. LastIn(k) /\ LastIn(j) <= LastIn(k) /\ j > k /\ j \in Nat
  BY KidsWithin
<1>2. k \in Nat /\ LastIn(k) \in Nat /\ LastIn(j) \in Nat
  BY <1>1, AtomsNested
<1>3. j + 1 .. LastIn(j) \subseteq k + 1 .. LastIn(k)
  BY <1>1, <1>2
<1> QED BY <1>1, <1>3, KidsWithin

\* The types of what a track's kind depends on.
Types(m, n, b, h, s) ==
  /\ atoms[m].type = "mdia" /\ atoms[n].type = "minf" /\ atoms[b].type = "stbl"
  /\ atoms[h].type = "hdlr" /\ atoms[s].type = "stsd"

\* The children that tell the kind of track k.
MdiaOf(k, f) == ChildOf(k, f, "mdia")
HdlrOf(k, f) == ChildOf(MdiaOf(k, f), f, "hdlr")
MinfOf(k, f) == ChildOf(MdiaOf(k, f), f, "minf")
StblOf(k, f) == ChildOf(MinfOf(k, f), f, "stbl")
StsdOf(k, f) == ChildOf(StblOf(k, f), f, "stsd")

\* Track k has a mdia that can be read.
HasMdia(k) == \E j \in Kids(k) : Fine[j] /\ atoms[j].type = "mdia"

\* A track that has a mdia has all that its kind depends on.
LEMMA TrakChain ==
  ASSUME atoms \in Files, NEW k \in DOMAIN atoms, HasMdia(k)
  PROVE  /\ MdiaOf(k, Fine) \in Kids(k) /\ Fine[MdiaOf(k, Fine)]
         /\ HdlrOf(k, Fine) \in Kids(MdiaOf(k, Fine))
         /\ MinfOf(k, Fine) \in Kids(MdiaOf(k, Fine)) /\ Fine[MinfOf(k, Fine)]
         /\ StblOf(k, Fine) \in Kids(MinfOf(k, Fine)) /\ Fine[StblOf(k, Fine)]
         /\ StsdOf(k, Fine) \in Kids(StblOf(k, Fine))
         /\ MdiaOf(k, Fine) \in DOMAIN atoms /\ MinfOf(k, Fine) \in DOMAIN atoms
         /\ StblOf(k, Fine) \in DOMAIN atoms
         /\ Fine[HdlrOf(k, Fine)] /\ Fine[StsdOf(k, Fine)]
         /\ Types(MdiaOf(k, Fine), MinfOf(k, Fine), StblOf(k, Fine), HdlrOf(k, Fine),
                  StsdOf(k, Fine))
<1> DEFINE m == MdiaOf(k, Fine)
           n == MinfOf(k, Fine)
           b == StblOf(k, Fine)
<1>1. m \in Kids(k) /\ m \in DOMAIN atoms /\ Fine[m] /\ atoms[m].type = "mdia"
  BY ChildIsKid DEF HasMdia, MdiaOf
<1> HIDE DEF m
<1>2. IsContainer(m) /\ {"hdlr", "minf"} \subseteq Containers[atoms[m].type].needs
  BY <1>1 DEF IsContainer, Containers, mdia_read
<1>3. \E j \in Kids(m) : Fine[j] /\ atoms[j].type = "hdlr"
  BY <1>1, <1>2, FineNeeds
<1>4. \E j \in Kids(m) : Fine[j] /\ atoms[j].type = "minf"
  BY <1>1, <1>2, FineNeeds
<1>5. /\ HdlrOf(k, Fine) \in Kids(m) /\ Fine[HdlrOf(k, Fine)]
      /\ atoms[HdlrOf(k, Fine)].type = "hdlr"
  BY <1>1, <1>3, ChildIsKid DEF HdlrOf, m
<1>6. n \in Kids(m) /\ n \in DOMAIN atoms /\ Fine[n] /\ atoms[n].type = "minf"
  BY <1>1, <1>4, ChildIsKid DEF MinfOf, m
<1> HIDE DEF n
<1>7. IsContainer(n) /\ "stbl" \in Containers[atoms[n].type].needs
  BY <1>6 DEF IsContainer, Containers, minf_read
<1>8. \E j \in Kids(n) : Fine[j] /\ atoms[j].type = "stbl"
  BY <1>6, <1>7, FineNeeds
<1>9. b \in Kids(n) /\ b \in DOMAIN atoms /\ Fine[b] /\ atoms[b].type = "stbl"
  BY <1>6, <1>8, ChildIsKid DEF StblOf, n
<1> HIDE DEF b
<1>10. IsContainer(b) /\ "stsd" \in Containers[atoms[b].type].needs
  BY <1>9 DEF IsContainer, Containers, stbl_read
<1>11. \E j \in Kids(b) : Fine[j] /\ atoms[j].type = "stsd"
  BY <1>9, <1>10, FineNeeds
<1>12. /\ StsdOf(k, Fine) \in Kids(b) /\ Fine[StsdOf(k, Fine)]
       /\ atoms[StsdOf(k, Fine)].type = "stsd"
  BY <1>9, <1>11, ChildIsKid DEF StsdOf, b
<1> QED BY <1>1, <1>5, <1>6, <1>9, <1>12 DEF m, n, b, Types

\* f says of what is inside k what Fine does.
Agrees(f, k) == \A j \in k + 1 .. LastIn(k) : f[j] = Fine[j]

\* What a track's kind depends on is inside the track.
LEMMA ChainSame ==
  ASSUME atoms \in Files, NEW k \in DOMAIN atoms, HasMdia(k), NEW f, Agrees(f, k)
  PROVE  /\ HdlrOf(k, f) = HdlrOf(k, Fine) /\ StsdOf(k, f) = StsdOf(k, Fine)
<1> DEFINE m == MdiaOf(k, Fine)
           n == MinfOf(k, Fine)
           b == StblOf(k, Fine)
<1>1. /\ m \in Kids(k) /\ n \in Kids(m) /\ b \in Kids(n)
      /\ m \in DOMAIN atoms /\ n \in DOMAIN atoms /\ b \in DOMAIN atoms
  BY TrakChain
<1>2. \A j \in Kids(k) : f[j] = Fine[j]
  BY KidsWithin DEF Agrees
<1>3. MdiaOf(k, f) = m
  BY <1>2, ChildSame DEF MdiaOf
<1> HIDE DEF m, n, b
<1>4. m + 1 .. LastIn(m) \subseteq k + 1 .. LastIn(k) /\ Kids(m) \subseteq k + 1 .. LastIn(k)
  BY <1>1, InsideKid
<1>5. \A j \in Kids(m) : f[j] = Fine[j]
  BY <1>4 DEF Agrees
<1>6. HdlrOf(k, f) = HdlrOf(k, Fine) /\ MinfOf(k, f) = n
  <2>1. ChildOf(m, f, "hdlr") = ChildOf(m, Fine, "hdlr")
    BY <1>5, ChildSame
  <2>2. ChildOf(m, f, "minf") = ChildOf(m, Fine, "minf")
    BY <1>5, ChildSame
  <2> QED BY <1>3, <2>1, <2>2 DEF HdlrOf, MinfOf, m, n
<1>7. n + 1 .. LastIn(n) \subseteq k + 1 .. LastIn(k) /\ Kids(n) \subseteq k + 1 .. LastIn(k)
  BY <1>1, <1>4, InsideKid
<1>8. StblOf(k, f) = b
  <2>1. \A j \in Kids(n) : f[j] = Fine[j]
    BY <1>7 DEF Agrees
  <2>2. ChildOf(n, f, "stbl") = ChildOf(n, Fine, "stbl")
    BY <2>1, ChildSame
  <2> QED BY <1>6, <2>2 DEF StblOf, n, b
<1>9. Kids(b) \subseteq k + 1 .. LastIn(k)
  BY <1>1, <1>7, InsideKid
<1>10. StsdOf(k, f) = StsdOf(k, Fine)
  <2>1. \A j \in Kids(b) : f[j] = Fine[j]
    BY <1>9 DEF Agrees
  <2>2. ChildOf(b, f, "stsd") = ChildOf(b, Fine, "stsd")
    BY <2>1, ChildSame
  <2> QED BY <1>8, <2>2 DEF StsdOf, b
<1> QED BY <1>6, <1>10

\* A fine track has a mdia.
LEMMA FineTrak ==
  ASSUME atoms \in Files, NEW k \in DOMAIN atoms, atoms[k].type = "trak", Fine[k]
  PROVE  HasMdia(k) /\ Kids(k) # {}
<1>1. IsContainer(k) /\ "mdia" \in Containers[atoms[k].type].needs
  BY DEF IsContainer, Containers, trak_read
<1>2. \E j \in Kids(k) : Fine[j] /\ atoms[j].type = "mdia"
  BY <1>1, FineNeeds
<1> QED BY <1>2 DEF HasMdia

\* So do the tracks, as what their kinds depend on is inside of them.
LEMMA PlayableSame ==
  ASSUME atoms \in Files, NEW k \in DOMAIN atoms, NEW f, Agrees(f, k)
  PROVE  TrackKids(k, f) = TrackKids(k, Fine) /\ Playable(k, f) = Playable(k, Fine)
<1>1. \A j \in Kids(k) : f[j] = Fine[j]
  BY KidsWithin DEF Agrees
<1>2. TrackKids(k, f) = TrackKids(k, Fine)
  BY <1>1 DEF TrackKids
<1>3. ASSUME NEW j \in TrackKids(k, Fine), atoms[j].type # "trex"
      PROVE  KindOf(j, f) = KindOf(j, Fine)
  <2>1. j \in Kids(k) /\ Fine[j] /\ atoms[j].type = "trak"
    BY <1>3 DEF TrackKids
  <2>2. j \in DOMAIN atoms /\ j + 1 .. LastIn(j) \subseteq k + 1 .. LastIn(k)
    BY <2>1, InsideKid
  <2>3. HasMdia(j) /\ Agrees(f, j)
    BY <2>1, <2>2, FineTrak DEF Agrees
  <2>4. HdlrOf(j, f) = HdlrOf(j, Fine)
    BY <2>2, <2>3, ChainSame
  <2> QED BY <2>4 DEF KindOf, HdlrOf, MdiaOf
<1>4. Playable(k, f) = Playable(k, Fine)
  BY <1>2, <1>3 DEF Playable
<1> QED BY <1>2, <1>4

\* A mandatory child is there.
FineNeed(k, c, f) ==
  IF c \in {"trak", "trex"} THEN Playable(k, f) # {}
  ELSE \E j \in Kids(k) : f[j] /\ atoms[j].type = c

\* Every child can be read, or is let off, and the tracks fit.
AllRead(k, f) ==
  /\ \A j \in Kids(k) :
       /\ atoms[j].type # "bad"
       /\ Knows(k, atoms[j].type) /\ ~ f[j] => atoms[j].size = 0 /\ LastIn(j) = LastIn(k)
  /\ \A j \in TrackKids(k, f) : Cardinality({i \in Playable(k, f) : i < j}) < MAX_TRACKS

\* The parts of what makes a container fine.
LEMMA FineParts ==
  ASSUME NEW k, NEW f
  PROVE  FineContainer(k, f) <=>
           /\ AllRead(k, f)
           /\ \A c \in Containers[atoms[k].type].needs : FineNeed(k, c, f)
           /\ atoms[k].type = "trak" /\ atoms[HdlrOf(k, f)].handler \in {"vide", "soun"} =>
                atoms[StsdOf(k, f)].parses
BY DEF FineContainer, AllRead, FineNeed, KindOf, HdlrOf, StsdOf, StblOf, MinfOf, MdiaOf

\* What is fine, with nothing cut off.
LEMMA FineIs ==
  ASSUME atoms \in Files, NEW k \in DOMAIN atoms
  PROVE  /\ Fine[k] \in BOOLEAN
         /\ IsContainer(k) => (Fine[k] <=> FineContainer(k, Fine))
         /\ ~ IsContainer(k) => (Fine[k] <=> FineLeaf(k))
<1> DEFINE f == Inside(k, Fine)
<1>1. Agrees(f, k)
  BY DEF Agrees, Inside
<1> HIDE DEF f
<1>2. TrackKids(k, f) = TrackKids(k, Fine) /\ Playable(k, f) = Playable(k, Fine)
  BY <1>1, PlayableSame
<1>3. \A j \in Kids(k) : f[j] = Fine[j]
  BY <1>1, KidsWithin DEF Agrees
<1>4. AllRead(k, f) <=> AllRead(k, Fine)
  BY <1>2, <1>3 DEF AllRead
<1>5. \A c : FineNeed(k, c, f) <=> FineNeed(k, c, Fine)
  BY <1>2, <1>3 DEF FineNeed
<1>6. atoms[k].type = "trak" /\ (\A c \in Containers[atoms[k].type].needs : FineNeed(k, c, Fine)) =>
        HdlrOf(k, f) = HdlrOf(k, Fine) /\ StsdOf(k, f) = StsdOf(k, Fine)
  <2> SUFFICES ASSUME atoms[k].type = "trak",
                      \A c \in Containers[atoms[k].type].needs : FineNeed(k, c, Fine)
               PROVE  HdlrOf(k, f) = HdlrOf(k, Fine) /\ StsdOf(k, f) = StsdOf(k, Fine)
    OBVIOUS
  <2>1. "mdia" \in Containers[atoms[k].type].needs
    BY DEF Containers, trak_read
  <2>2. HasMdia(k)
    BY <2>1 DEF FineNeed, HasMdia
  <2> QED BY <1>1, <2>2, ChainSame
<1>7. FineContainer(k, f) <=> FineContainer(k, Fine)
  BY <1>4, <1>5, <1>6, FineParts
<1>8. Fine[k] = IF IsContainer(k) THEN FineContainer(k, f) ELSE FineLeaf(k)
  BY FineUnfolds DEF f
<1>9. FineContainer(k, f) \in BOOLEAN /\ FineLeaf(k) \in BOOLEAN
  BY DEF FineContainer, FineLeaf
<1> QED BY <1>7, <1>8, <1>9

-----------------------------------------------------------------------------
(* What the object of an atom holds, of the children before p.             *)

\* The children for slot c.
Counting(k, p, c) ==
  {j \in Kids(k) : /\ j < p /\ Fine[j] /\ Knows(k, atoms[j].type)
                   /\ Slot(atoms[j].type) = c /\ SlotType(atoms[j].type)}

\* Every slot has the last child for it.
Filled(k, o, p) ==
  /\ DOMAIN o.slots = Slots(atoms[k].type)
  /\ \A c \in DOMAIN o.slots :
       o.slots[c] = IF Counting(k, p, c) = {} THEN 0 ELSE LastOf(Counting(k, p, c))

\* The tracks are those that are not ignored, in order.
TracksListed(k, o, p) ==
  /\ Range(o.tracks) = {j \in Playable(k, Fine) : j < p}
  /\ \A m, n \in DOMAIN o.tracks : m < n => o.tracks[m] < o.tracks[n]

\* No child was refused, and there was room for the tracks.
PassedBy(k, p) ==
  /\ \A j \in Kids(k) : j < p => atoms[j].type # "bad" /\ (Knows(k, atoms[j].type) => Fine[j])
  /\ \A j \in TrackKids(k, Fine) :
       j < p => Cardinality({i \in Playable(k, Fine) : i < j}) < MAX_TRACKS

\* What has been read of atom k when p is next, and when all has been.
ReadSoFar(k, o, p) == Filled(k, o, p) /\ TracksListed(k, o, p) /\ PassedBy(k, p)
WholeRead(k, o) == Filled(k, o, LastIn(k) + 1) /\ TracksListed(k, o, LastIn(k) + 1)

\* Child j is for slot c.
Counts(k, j, c) ==
  Fine[j] /\ Knows(k, atoms[j].type) /\ Slot(atoms[j].type) = c /\ SlotType(atoms[j].type)

\* One child more.
LEMMA CountingOn ==
  ASSUME atoms \in Files, NEW k \in DOMAIN atoms, NEW j \in Kids(k), NEW c
  PROVE  /\ Counts(k, j, c) => Counting(k, LastIn(j) + 1, c) = Counting(k, j, c) \cup {j}
         /\ ~ Counts(k, j, c) => Counting(k, LastIn(j) + 1, c) = Counting(k, j, c)
<1>1. \A i \in Kids(k) : i < LastIn(j) + 1 <=> i < j \/ i = j
  BY KidsUpTo
<1>2. j \notin Counting(k, j, c)
  BY KidsWithin DEF Counting
<1> QED BY <1>1, <1>2 DEF Counting, Counts

\* What counts are children before p.
LEMMA CountingIn ==
  ASSUME atoms \in Files, NEW k \in DOMAIN atoms, NEW p, NEW c
  PROVE  /\ Counting(k, p, c) \in SUBSET (1 .. Len(atoms)) /\ Len(atoms) \in Nat
         /\ Counting(k, p, c) \subseteq Kids(k)
         /\ \A j \in Counting(k, p, c) : j < p /\ j \in Nat /\ j # 0
<1>1. Counting(k, p, c) \subseteq Kids(k)
  BY DEF Counting
<1>2. Kids(k) \in SUBSET (1 .. Len(atoms)) /\ Len(atoms) \in Nat
  BY KidsWithin
<1>3. \A j \in Counting(k, p, c) : j < p
  BY DEF Counting
<1>4. \A j \in 1 .. Len(atoms) : j \in Nat /\ j # 0
  BY <1>2
<1> QED BY <1>1, <1>2, <1>3, <1>4

\* A child that is not for a slot is passed over.
LEMMA FilledSkip ==
  ASSUME atoms \in Files, NEW k \in DOMAIN atoms, NEW j \in Kids(k), NEW o, Filled(k, o, j),
         ~ Knows(k, atoms[j].type) \/ ~ SlotType(atoms[j].type) \/ ~ Fine[j],
         NEW p, p.slots = o.slots
  PROVE  Filled(k, p, LastIn(j) + 1)
<1>1. \A c : Counting(k, LastIn(j) + 1, c) = Counting(k, j, c)
  BY CountingOn DEF Counts
<1> QED BY <1>1 DEF Filled

\* A child is stored in its slot.
LEMMA FilledStore ==
  ASSUME atoms \in Files, NEW k \in DOMAIN atoms, NEW j \in Kids(k), NEW o, Filled(k, o, j),
         Knows(k, atoms[j].type), SlotType(atoms[j].type), Fine[j],
         NEW p, p.slots = [o.slots EXCEPT ![Slot(atoms[j].type)] = j],
         Slot(atoms[j].type) \in DOMAIN o.slots
  PROVE  Filled(k, p, LastIn(j) + 1)
<1> DEFINE s == Slot(atoms[j].type)
<1>1. /\ DOMAIN p.slots = DOMAIN o.slots /\ p.slots[s] = j
      /\ \A c \in DOMAIN o.slots : c # s => p.slots[c] = o.slots[c]
  OBVIOUS
<1>2. \A c : c # s => Counting(k, LastIn(j) + 1, c) = Counting(k, j, c)
  BY CountingOn DEF Counts
<1>3. Counting(k, LastIn(j) + 1, s) = Counting(k, j, s) \cup {j}
  BY CountingOn DEF Counts
<1>4. LastOf(Counting(k, LastIn(j) + 1, s)) = j
  <2> DEFINE S == Counting(k, LastIn(j) + 1, s)
  <2>1. S \in SUBSET (1 .. Len(atoms)) /\ Len(atoms) \in Nat
    BY CountingIn
  <2>2. j \in S /\ j \in Nat
    BY <1>3, KidsWithin
  <2>3. \A i \in S : i <= j
    <3>1. \A i \in Counting(k, j, s) : i < j /\ i \in Nat
      BY CountingIn
    <3> QED BY <1>3, <2>2, <3>1
  <2> HIDE DEF S
  <2>4. LastOf(S) = j
    BY <2>1, <2>2, <2>3, LastIsOnly
  <2> QED BY <2>4 DEF S
<1>5. ASSUME NEW c \in DOMAIN p.slots
      PROVE  p.slots[c] = IF Counting(k, LastIn(j) + 1, c) = {} THEN 0
                          ELSE LastOf(Counting(k, LastIn(j) + 1, c))
  <2>1. CASE c = s
    <3>1. Counting(k, LastIn(j) + 1, c) # {}
      BY <1>3, <2>1
    <3> QED BY <1>1, <1>4, <2>1, <3>1
  <2>2. CASE c # s
    BY <1>1, <1>2, <2>2 DEF Filled
  <2> QED BY <2>1, <2>2
<1> QED BY <1>1, <1>5 DEF Filled

\* The tracks up to the end of child j are those before it, and j if it is one.
LEMMA PlayableOn ==
  ASSUME atoms \in Files, NEW k \in DOMAIN atoms, NEW j \in Kids(k)
  PROVE  {i \in Playable(k, Fine) : i < LastIn(j) + 1} =
           {i \in Playable(k, Fine) : i < j} \cup (Playable(k, Fine) \cap {j})
<1>1. Playable(k, Fine) \subseteq Kids(k)
  BY DEF Playable, TrackKids
<1>2. \A i \in Kids(k) : i < LastIn(j) + 1 <=> i < j \/ i = j
  BY KidsUpTo
<1> QED BY <1>1, <1>2

\* A child that is not a track, or is ignored, is passed over.
LEMMA ListedSkip ==
  ASSUME atoms \in Files, NEW k \in DOMAIN atoms, NEW j \in Kids(k), NEW o, TracksListed(k, o, j),
         j \notin Playable(k, Fine), NEW p, p.tracks = o.tracks
  PROVE  TracksListed(k, p, LastIn(j) + 1)
<1>1. {i \in Playable(k, Fine) : i < LastIn(j) + 1} = {i \in Playable(k, Fine) : i < j}
  BY PlayableOn
<1> QED BY <1>1 DEF TracksListed

\* A track is appended to the list.
LEMMA ListedAdd ==
  ASSUME atoms \in Files, NEW k \in DOMAIN atoms, NEW j \in Kids(k), NEW o, TracksListed(k, o, j),
         o.tracks \in Seq(Nat), j \in Playable(k, Fine), NEW p, p.tracks = Append(o.tracks, j)
  PROVE  TracksListed(k, p, LastIn(j) + 1)
<1> DEFINE s == o.tracks
           t == Append(s, j)
<1>1. j \in Nat
  BY KidsWithin
<1>2. /\ Len(s) \in Nat /\ DOMAIN s = 1 .. Len(s) /\ DOMAIN t = 1 .. Len(s) + 1
      /\ t[Len(s) + 1] = j /\ \A n \in 1 .. Len(s) : t[n] = s[n]
  BY <1>1, AppendProperties
<1>3. \A n \in 1 .. Len(s) : s[n] < j
  <2> SUFFICES ASSUME NEW n \in 1 .. Len(s) PROVE s[n] < j
    OBVIOUS
  <2>1. s[n] \in Range(s)
    BY <1>2 DEF Range
  <2> QED BY <2>1 DEF TracksListed
<1> HIDE DEF s, t
<1>4. Range(t) = Range(s) \cup {j}
  <2>1. ASSUME NEW x \in Range(t) PROVE x \in Range(s) \cup {j}
    BY <1>2 DEF Range
  <2>2. ASSUME NEW x \in Range(s) PROVE x \in Range(t)
    BY <1>2 DEF Range
  <2>3. j \in Range(t)
    <3>1. Len(s) + 1 \in DOMAIN t
      BY <1>2
    <3> QED BY <1>2, <3>1 DEF Range
  <2> QED BY <2>1, <2>2, <2>3
<1>5. {i \in Playable(k, Fine) : i < LastIn(j) + 1} =
        {i \in Playable(k, Fine) : i < j} \cup {j}
  BY PlayableOn
<1>6. Range(t) = {i \in Playable(k, Fine) : i < LastIn(j) + 1}
  BY <1>4, <1>5 DEF TracksListed, s
<1>7. ASSUME NEW m \in DOMAIN t, NEW n \in DOMAIN t, m < n PROVE t[m] < t[n]
  <2>1. m \in 1 .. Len(s) /\ t[m] = s[m]
    BY <1>2, <1>7
  <2>2. CASE n \in 1 .. Len(s)
    BY <1>2, <1>7, <2>1, <2>2 DEF TracksListed, s
  <2>3. CASE n = Len(s) + 1
    BY <1>2, <1>3, <2>1, <2>3
  <2> QED BY <1>2, <2>2, <2>3
<1>8. p.tracks = t
  BY DEF s, t
<1> QED BY <1>6, <1>7, <1>8 DEF TracksListed

\* A child that is not refused is passed over.
LEMMA PassedOn ==
  ASSUME atoms \in Files, NEW k \in DOMAIN atoms, NEW j \in Kids(k), PassedBy(k, j),
         atoms[j].type # "bad", Knows(k, atoms[j].type) => Fine[j],
         j \in TrackKids(k, Fine) => Cardinality({i \in Playable(k, Fine) : i < j}) < MAX_TRACKS
  PROVE  PassedBy(k, LastIn(j) + 1)
<1>1. \A i \in Kids(k) : i < LastIn(j) + 1 <=> i < j \/ i = j
  BY KidsUpTo
<1>2. TrackKids(k, Fine) \subseteq Kids(k)
  BY DEF TrackKids
<1> QED BY <1>1, <1>2 DEF PassedBy

\* A list has as many tracks as it lists.
LEMMA ListedCount ==
  ASSUME atoms \in Files, NEW k \in DOMAIN atoms, NEW p, NEW o, TracksListed(k, o, p),
         o.tracks \in Seq(Nat), IsInjective(o.tracks)
  PROVE  Cardinality({i \in Playable(k, Fine) : i < p}) = Len(o.tracks)
<1> DEFINE s == o.tracks
           S == {i \in Playable(k, Fine) : i < p}
<1>1. Len(s) \in Nat /\ DOMAIN s = 1 .. Len(s)
  OBVIOUS
<1>2. Range(s) = S
  BY DEF TracksListed
<1> HIDE DEF S
<1>3. s \in [1 .. Len(s) -> S]
  BY <1>1, <1>2 DEF Range
<1>4. s \in Injection(1 .. Len(s), S)
  BY <1>3 DEF Injection
<1>5. s \in Surjection(1 .. Len(s), S)
  BY <1>1, <1>2, <1>3 DEF Surjection, Range
<1>6. ExistsBijection(1 .. Len(s), S)
  BY <1>4, <1>5 DEF ExistsBijection, Bijection
<1> HIDE DEF s
<1>7. Cardinality(S) = Len(s)
  BY <1>1, <1>6, FS_CountingElements
<1> QED BY <1>7 DEF S, s

\* The slot of a kind that has one of its own.
LEMMA WholeSlot ==
  ASSUME atoms \in Files, NEW k \in DOMAIN atoms, NEW o, WholeRead(k, o), IsContainer(k),
         NEW t, Knows(k, t), SlotType(t), t \notin {"stco", "co64"}
  PROVE  /\ t \in DOMAIN o.slots
         /\ (\E j \in Kids(k) : Fine[j] /\ atoms[j].type = t) => o.slots[t] = ChildOf(k, Fine, t)
         /\ o.slots[t] # 0 <=> \E j \in Kids(k) : Fine[j] /\ atoms[j].type = t
<1> DEFINE p == LastIn(k) + 1
           S == {j \in Kids(k) : Fine[j] /\ atoms[j].type = t}
<1>1. t \in DOMAIN o.slots
  BY SlotKnown DEF WholeRead, Filled, Slot
<1>2. \A j \in Kids(k) : j < p
  <2>1. LastIn(k) \in Nat /\ \A j \in Kids(k) : j \in Nat /\ j <= LastIn(k)
    BY KidsWithin, AtomsNested
  <2> QED BY <2>1
<1>3. \A x : Slot(x) = t <=> x = t
  BY DEF Slot
<1>4. Counting(k, p, t) = S
  BY <1>2, <1>3 DEF Counting
<1>5. o.slots[t] = IF S = {} THEN 0 ELSE LastOf(S)
  BY <1>1, <1>4 DEF WholeRead, Filled
<1>6. S \in SUBSET (1 .. Len(atoms)) /\ Len(atoms) \in Nat
  BY KidsWithin
<1>7. S # {} => LastOf(S) # 0
  <2> HIDE DEF S
  <2>1. S # {} => LastOf(S) \in 1 .. Len(atoms)
    BY <1>6, LastIsLast
  <2> QED BY <2>1
<1> QED BY <1>1, <1>5, <1>7 DEF ChildOf

-----------------------------------------------------------------------------
(* The heap.                                                               *)

\* The containers in slots are whole.
Chained(H) ==
  \A k \in DOMAIN H : \A c \in DOMAIN H[k].slots :
    H[k].slots[c] # 0 /\ IsContainer(H[k].slots[c]) => WholeRead(H[k].slots[c], H[H[k].slots[c]])

\* What is in a slot is allocated.
LEMMA SlotHeld ==
  ASSUME NEW H, Forest(H), NEW k \in DOMAIN H, NEW c \in DOMAIN H[k].slots, H[k].slots[c] # 0
  PROVE  H[k].slots[c] \in HeldBy(H[k]) /\ H[k].slots[c] \in DOMAIN H
<1>1. H[k].slots[c] \in HeldBy(H[k])
  BY DEF HeldBy, Slotted
<1> QED BY <1>1 DEF Forest

\* A new object has empty slots.
LEMMA ChainedGrows ==
  ASSUME NEW H, Forest(H), Chained(H), NEW c \in DOMAIN atoms, c \notin DOMAIN H, NEW type
  PROVE  Chained(Extended(H, c, type))
<1> DEFINE G == Extended(H, c, type)
<1>1. /\ DOMAIN G = DOMAIN H \cup {c} /\ G[c] = Fresh(type)
      /\ \A k \in DOMAIN H : G[k] = H[k]
  BY DEF Extended
<1> HIDE DEF G
<1>2. HeldBy(G[c]) = {}
  BY <1>1, FreshHoldsNothing
<1>3. \A f \in DOMAIN G[c].slots : G[c].slots[f] = 0
  BY <1>2 DEF HeldBy, Slotted
<1>4. ASSUME NEW k \in DOMAIN G, NEW f \in DOMAIN G[k].slots, G[k].slots[f] # 0,
             IsContainer(G[k].slots[f])
      PROVE  WholeRead(G[k].slots[f], G[G[k].slots[f]])
  <2>1. k \in DOMAIN H /\ G[k] = H[k]
    BY <1>1, <1>3, <1>4
  <2>2. H[k].slots[f] \in DOMAIN H
    BY <1>4, <2>1, SlotHeld
  <2> QED BY <1>1, <1>4, <2>1, <2>2 DEF Chained
<1> QED BY <1>4 DEF Chained, G

\* An object nobody refers to changes: its slots stay, or get a whole container.
LEMMA ChainedHolds ==
  ASSUME NEW H, Forest(H), Chained(H), NEW k, Unheld(H, k), NEW p, NEW j,
         \A c \in DOMAIN p.slots :
           \/ c \in DOMAIN H[k].slots /\ p.slots[c] = H[k].slots[c]
           \/ p.slots[c] = j /\ j # k /\ (IsContainer(j) => WholeRead(j, H[j]))
  PROVE  Chained([H EXCEPT ![k] = p])
<1> DEFINE G == [H EXCEPT ![k] = p]
<1>1. /\ k \in DOMAIN H /\ DOMAIN G = DOMAIN H /\ G[k] = p
      /\ \A i \in DOMAIN H : i # k => G[i] = H[i]
  BY DEF Unheld
<1> HIDE DEF G
<1>2. ASSUME NEW i \in DOMAIN H, NEW c \in DOMAIN H[i].slots, H[i].slots[c] # 0,
             IsContainer(H[i].slots[c])
      PROVE  WholeRead(H[i].slots[c], G[H[i].slots[c]])
  <2>1. H[i].slots[c] \in DOMAIN H /\ H[i].slots[c] # k
    BY <1>2, SlotHeld DEF Unheld
  <2>2. WholeRead(H[i].slots[c], H[H[i].slots[c]])
    BY <1>2 DEF Chained
  <2>3. G[H[i].slots[c]] = H[H[i].slots[c]]
    BY <1>1, <2>1
  <2> QED BY <2>2, <2>3
<1>3. \A x : x # k => G[x] = H[x]
  BY DEF G
<1>4. ASSUME NEW i \in DOMAIN G, NEW c \in DOMAIN G[i].slots, G[i].slots[c] # 0,
             IsContainer(G[i].slots[c])
      PROVE  WholeRead(G[i].slots[c], G[G[i].slots[c]])
  <2>1. CASE i # k
    BY <1>1, <1>2, <1>4, <2>1
  <2>2. CASE i = k
    <3>1. CASE c \in DOMAIN H[k].slots /\ p.slots[c] = H[k].slots[c]
      BY <1>1, <1>2, <1>4, <2>2, <3>1
    <3>2. CASE p.slots[c] = j /\ j # k /\ (IsContainer(j) => WholeRead(j, H[j]))
      BY <1>1, <1>3, <1>4, <2>2, <3>2
    <3> QED BY <1>1, <2>2, <3>1, <3>2
  <2> QED BY <2>1, <2>2
<1> QED BY <1>4 DEF Chained, G

\* What stays when objects are freed is as it was.
LEMMA ChainedFrees ==
  ASSUME NEW H, Chained(H), NEW G, Forest(G), DOMAIN G \subseteq DOMAIN H,
         \A k \in DOMAIN G : G[k] = H[k]
  PROVE  Chained(G)
<1>1. ASSUME NEW i \in DOMAIN G, NEW c \in DOMAIN G[i].slots, G[i].slots[c] # 0,
             IsContainer(G[i].slots[c])
      PROVE  WholeRead(G[i].slots[c], G[G[i].slots[c]])
  <2>1. G[i].slots[c] \in DOMAIN G
    BY <1>1, SlotHeld
  <2> QED BY <1>1, <2>1 DEF Chained
<1> QED BY <1>1 DEF Chained

-----------------------------------------------------------------------------
(* What is found by way of slots.                                          *)

\* What the handler and the sample entries of a track are found to be are those
\* of the file.
LEMMA TrakFound ==
  ASSUME atoms \in Files, Forest(heap), Chained(heap), NEW k \in DOMAIN heap,
         atoms[k].type = "trak", WholeRead(k, heap[k]), HasMdia(k)
  PROVE  /\ Handler(k) = atoms[HdlrOf(k, Fine)].handler
         /\ StsdParsed(k) <=> (atoms[HdlrOf(k, Fine)].handler \in {"vide", "soun"} =>
                                 atoms[StsdOf(k, Fine)].parses)
<1> DEFINE m == MdiaOf(k, Fine)
           h == HdlrOf(k, Fine)
           n == MinfOf(k, Fine)
           b == StblOf(k, Fine)
           s == StsdOf(k, Fine)
<1>1. k \in DOMAIN atoms /\ IsContainer(k) /\ Knows(k, "mdia")
  BY DEF Forest, IsContainer, Knows, Containers, trak_read
<1>2. /\ m \in Kids(k) /\ h \in Kids(m) /\ n \in Kids(m) /\ b \in Kids(n) /\ s \in Kids(b)
      /\ m \in DOMAIN atoms /\ n \in DOMAIN atoms /\ b \in DOMAIN atoms
      /\ Types(m, n, b, h, s) /\ Fine[h] /\ Fine[n] /\ Fine[b] /\ Fine[s] /\ Fine[m]
  BY <1>1, TrakChain
<1>3. heap[k].slots["mdia"] = m /\ "mdia" \in DOMAIN heap[k].slots
  BY <1>1, WholeSlot DEF HasMdia, MdiaOf, SlotType
<1> HIDE DEF m, n, b, h, s
<1>4. m \in Nat \ {0} /\ n \in Nat \ {0} /\ b \in Nat \ {0}
  BY <1>2, AtomsNested
<1>5. /\ atoms[m].type = "mdia" /\ atoms[n].type = "minf" /\ atoms[b].type = "stbl"
      /\ atoms[h].type = "hdlr" /\ atoms[s].type = "stsd"
  BY <1>2 DEF Types
<1>6. /\ IsContainer(m) /\ IsContainer(n) /\ IsContainer(b) /\ Knows(m, "hdlr")
      /\ Knows(m, "minf") /\ Knows(n, "stbl") /\ Knows(b, "stsd")
  BY <1>5 DEF IsContainer, Knows, Containers, mdia_read, minf_read, stbl_read
<1>7. m \in DOMAIN heap /\ WholeRead(m, heap[m])
  BY <1>3, <1>4, <1>6, SlotHeld DEF Chained
<1>8. /\ heap[m].slots["hdlr"] = h /\ heap[m].slots["minf"] = n
      /\ "minf" \in DOMAIN heap[m].slots
  <2>1. heap[m].slots["hdlr"] = ChildOf(m, Fine, "hdlr")
    BY <1>2, <1>5, <1>6, <1>7, WholeSlot DEF SlotType
  <2>2. heap[m].slots["minf"] = ChildOf(m, Fine, "minf") /\ "minf" \in DOMAIN heap[m].slots
    BY <1>2, <1>5, <1>6, <1>7, WholeSlot DEF SlotType
  <2> QED BY <2>1, <2>2 DEF m, h, n, HdlrOf, MinfOf
<1>9. n \in DOMAIN heap /\ WholeRead(n, heap[n])
  BY <1>4, <1>6, <1>7, <1>8, SlotHeld DEF Chained
<1>10. heap[n].slots["stbl"] = b /\ "stbl" \in DOMAIN heap[n].slots
  <2>1. heap[n].slots["stbl"] = ChildOf(n, Fine, "stbl") /\ "stbl" \in DOMAIN heap[n].slots
    BY <1>2, <1>5, <1>6, <1>9, WholeSlot DEF SlotType
  <2> QED BY <2>1 DEF n, b, StblOf
<1>11. b \in DOMAIN heap /\ WholeRead(b, heap[b])
  BY <1>4, <1>6, <1>9, <1>10, SlotHeld DEF Chained
<1>12. heap[b].slots["stsd"] = s
  <2>1. heap[b].slots["stsd"] = ChildOf(b, Fine, "stsd")
    BY <1>2, <1>5, <1>6, <1>11, WholeSlot DEF SlotType
  <2> QED BY <2>1 DEF b, s, StsdOf
<1>13. Handler(k) = atoms[h].handler
  BY <1>3, <1>8 DEF Handler
<1>14. StsdParsed(k) <=> (Handler(k) \in {"vide", "soun"} => atoms[s].parses)
  BY <1>3, <1>8, <1>10, <1>12 DEF StsdParsed
<1> QED BY <1>13, <1>14 DEF h, s

\* A container that was read to its end is accepted when it is fine.
LEMMA GoodIsFine ==
  ASSUME atoms \in Files, Forest(heap), Chained(heap), NEW k \in DOMAIN heap, IsContainer(k),
         result <=> AllRead(k, Fine), result => WholeRead(k, heap[k])
  PROVE  Good(k) <=> Fine[k]
<1>1. k \in DOMAIN atoms
  BY DEF Forest
<1>2. Fine[k] <=>
        /\ AllRead(k, Fine)
        /\ \A c \in Containers[atoms[k].type].needs : FineNeed(k, c, Fine)
        /\ atoms[k].type = "trak" /\ atoms[HdlrOf(k, Fine)].handler \in {"vide", "soun"} =>
             atoms[StsdOf(k, Fine)].parses
  BY <1>1, FineIs, FineParts
<1>3. CASE ~ result
  BY <1>2, <1>3 DEF Good
<1>4. CASE result
  <2>1. WholeRead(k, heap[k]) /\ IsObject(heap[k])
    BY <1>4 DEF Forest
  <2>2. ASSUME NEW c \in Containers[atoms[k].type].needs
        PROVE  (IF c \in {"trak", "trex"} THEN heap[k].tracks # <<>> ELSE heap[k].slots[c] # 0)
                 <=> FineNeed(k, c, Fine)
    <3>1. CASE c \in {"trak", "trex"}
      <4>1. \A i \in Playable(k, Fine) : i < LastIn(k) + 1
        <5>1. Playable(k, Fine) \subseteq Kids(k)
          BY DEF Playable, TrackKids
        <5>2. LastIn(k) \in Nat /\ \A i \in Kids(k) : i \in Nat /\ i <= LastIn(k)
          BY <1>1, KidsWithin, AtomsNested
        <5> QED BY <5>1, <5>2
      <4>2. Range(heap[k].tracks) = Playable(k, Fine)
        BY <2>1, <4>1 DEF WholeRead, TracksListed
      <4>3. heap[k].tracks # <<>> <=> Range(heap[k].tracks) # {}
        <5>1. heap[k].tracks \in Seq(Nat)
          BY <2>1, ObjectFields
        <5>2. heap[k].tracks # <<>> => 1 \in DOMAIN heap[k].tracks
          BY <5>1
        <5>3. heap[k].tracks = <<>> => DOMAIN heap[k].tracks = {}
          OBVIOUS
        <5> QED BY <5>2, <5>3 DEF Range
      <4> QED BY <3>1, <4>2, <4>3 DEF FineNeed
    <3>2. CASE c \notin {"trak", "trex"}
      <4>1. Knows(k, c) /\ c \notin {"stco", "co64"}
        BY DEF IsContainer, Knows, Containers, stbl_read, dinf_read, minf_read, mdia_read,
               edts_read, trak_read, mvex_read, moov_read
      <4>2. heap[k].slots[c] # 0 <=> \E j \in Kids(k) : Fine[j] /\ atoms[j].type = c
        BY <1>1, <2>1, <3>2, <4>1, WholeSlot DEF SlotType
      <4> QED BY <3>2, <4>2 DEF FineNeed
    <3> QED BY <3>1, <3>2
  <2>3. Complete(k) <=> \A c \in Containers[atoms[k].type].needs : FineNeed(k, c, Fine)
    BY <2>2 DEF Complete
  <2>4. ASSUME Complete(k), atoms[k].type = "trak"
        PROVE  StsdParsed(k) <=> (atoms[HdlrOf(k, Fine)].handler \in {"vide", "soun"} =>
                                    atoms[StsdOf(k, Fine)].parses)
    <3>1. "mdia" \in Containers[atoms[k].type].needs
      BY <2>4 DEF Containers, trak_read
    <3>2. HasMdia(k)
      BY <2>3, <2>4, <3>1 DEF FineNeed, HasMdia
    <3> QED BY <2>1, <2>4, <3>2, TrakFound
  <2> QED BY <1>2, <1>4, <2>3, <2>4 DEF Good
<1> QED BY <1>3, <1>4

-----------------------------------------------------------------------------
(* The readers have read what the file says.                               *)

\* The object of each open call holds what its children before the next one say.
Progress(s, H, d) ==
  \A n \in 1 .. Len(s) :
    n < Len(s) \/ d \in {"loop", "deliver"} => ReadSoFar(s[n].atom, H[s[n].atom], s[n].next)

\* The loop over the children of atom k has ended with the right result.
Ended(k, H, res) == (res <=> AllRead(k, Fine)) /\ (res => WholeRead(k, H[k]))

\* The last reader has returned NULL if its atom is not fine, and else the whole of it.
AnsweredWell(r, H) ==
  /\ r.null <=> ~ Fine[r.atom]
  /\ ~ r.null /\ IsContainer(r.atom) => WholeRead(r.atom, H[r.atom])

\* All of that.
Faithful(s, H, r, d, res) ==
  /\ Chained(H)
  /\ Progress(s, H, d)
  /\ d = "check" => Ended(s[Len(s)].atom, H, res)
  /\ d \in {"deliver", "done"} => AnsweredWell(r, H)

\* A child is passed over.
LEMMA PassingFaithful ==
  ASSUME atoms \in Files, Sane(stack, heap, ret, doing, sound), doing \in {"loop", "deliver"},
         Faithful(stack, heap, ret, doing, result),
         NEW j \in Kids(Frame.atom), j = Frame.next, PassOver(j), doing' = "loop",
         Chained(heap'), ReadSoFar(Frame.atom, heap'[Frame.atom], LastIn(j) + 1),
         \A n \in 1 .. Len(stack) : n # Len(stack) => heap'[stack[n].atom] = heap[stack[n].atom]
  PROVE  Faithful(stack', heap', ret', doing', result')
<1> DEFINE L == Len(stack)
           t == [stack EXCEPT ![L].next = LastIn(j) + 1]
<1>1. stack # <<>> /\ Nesting(stack) /\ Frame = stack[L] /\ doing # "done"
  BY Running
<1>2. j \in Kids(stack[L].atom) /\ j = stack[L].next
  BY <1>1
<1>3. /\ Len(t) = L /\ \A n \in 1 .. L : n # L => t[n] = stack[n]
      /\ t[L] = [atom |-> stack[L].atom, next |-> LastIn(j) + 1]
  BY <1>1, <1>2, Passing
<1>4. stack' = t
  BY DEF PassOver
<1> HIDE DEF t
<1>5. t[L].atom = Frame.atom /\ t[L].next = LastIn(j) + 1
  BY <1>1, <1>3
<1>6. ASSUME NEW n \in 1 .. L PROVE ReadSoFar(t[n].atom, heap'[t[n].atom], t[n].next)
  <2>1. CASE n = L
    BY <1>5, <2>1
  <2>2. CASE n # L
    BY <1>3, <2>2 DEF Faithful, Progress
  <2> QED BY <2>1, <2>2
<1>7. Progress(stack', heap', doing')
  BY <1>3, <1>4, <1>6 DEF Progress
<1> QED BY <1>7 DEF Faithful

\* The loop is left.
LEMMA LeavingFaithful ==
  ASSUME atoms \in Files, Sane(stack, heap, ret, doing, sound), doing \in {"loop", "deliver"},
         Faithful(stack, heap, ret, doing, result),
         stack' = stack, doing' = "check", Chained(heap'),
         \A n \in 1 .. Len(stack) : heap'[stack[n].atom] = heap[stack[n].atom],
         Ended(Frame.atom, heap, result')
  PROVE  Faithful(stack', heap', ret', doing', result')
<1>1. Frame = stack[Len(stack)] /\ Len(stack) \in 1 .. Len(stack)
  BY Running
<1>2. Progress(stack', heap', doing')
  BY DEF Faithful, Progress
<1>3. Ended(stack'[Len(stack')].atom, heap', result')
  BY <1>1 DEF Ended
<1> QED BY <1>2, <1>3 DEF Faithful

\* The running call returns.
LEMMA ReturningFaithful ==
  ASSUME atoms \in Files, Sane(stack, heap, ret, doing, sound), doing = "check",
         Faithful(stack, heap, ret, doing, result),
         stack' = Below, doing' \in {"deliver", "done"}, Chained(heap'),
         \A n \in 1 .. Len(stack) : n # Len(stack) => heap'[stack[n].atom] = heap[stack[n].atom],
         AnsweredWell(ret', heap')
  PROVE  Faithful(stack', heap', ret', doing', result')
<1> DEFINE L == Len(stack)
<1>1. L \in Nat \ {0} /\ Len(stack') = L - 1 /\ \A n \in 1 .. L - 1 : stack'[n] = stack[n]
  BY BelowAtoms
<1>2. \A n \in 1 .. L : n < L => ReadSoFar(stack[n].atom, heap[stack[n].atom], stack[n].next)
  BY DEF Faithful, Progress
<1>3. \A n \in 1 .. L : n # L => heap'[stack[n].atom] = heap[stack[n].atom]
  OBVIOUS
<1> HIDE DEF L
<1>4. \A n \in 1 .. L - 1 : n \in 1 .. L /\ n < L /\ n # L
  BY <1>1
<1>5. \A n \in 1 .. Len(stack') : ReadSoFar(stack'[n].atom, heap'[stack'[n].atom], stack'[n].next)
  BY <1>1, <1>2, <1>3, <1>4
<1>6. Progress(stack', heap', doing')
  BY <1>5 DEF Progress
<1> QED BY <1>6 DEF Faithful

\* What is known at a child of the running call.
LEMMA ChildSoFar ==
  ASSUME atoms \in Files, Sane(stack, heap, ret, doing, sound), doing \in {"loop", "deliver"},
         Faithful(stack, heap, ret, doing, result)
  PROVE  /\ Filled(Frame.atom, heap[Frame.atom], Frame.next)
         /\ TracksListed(Frame.atom, heap[Frame.atom], Frame.next)
         /\ PassedBy(Frame.atom, Frame.next)
         /\ Chained(heap) /\ Forest(heap) /\ Unheld(heap, Frame.atom)
         /\ Frame.atom \in DOMAIN atoms /\ Frame.atom \in DOMAIN heap
         /\ heap[Frame.atom].tracks \in Seq(Nat) /\ IsInjective(heap[Frame.atom].tracks)
<1>1. /\ doing # "done" /\ Frame = stack[Len(stack)] /\ Len(stack) \in 1 .. Len(stack)
      /\ Forest(heap) /\ Frame.atom \in DOMAIN atoms /\ Frame.atom \in DOMAIN heap
      /\ Holding(Frame, heap)
  BY Running
<1>2. ReadSoFar(Frame.atom, heap[Frame.atom], Frame.next)
  BY <1>1 DEF Faithful, Progress
<1>3. IsObject(heap[Frame.atom]) /\ Apart(heap[Frame.atom])
  BY <1>1 DEF Forest
<1> QED BY <1>1, <1>2, <1>3, ObjectFields DEF Faithful, ReadSoFar, Holding, Apart

\* Nothing has been read yet.
LEMMA FreshSoFar ==
  ASSUME atoms \in Files, NEW k \in DOMAIN atoms
  PROVE  ReadSoFar(k, Fresh(atoms[k].type), k + 1)
<1> DEFINE o == Fresh(atoms[k].type)
<1>1. o.slots = [c \in Slots(atoms[k].type) |-> 0] /\ o.tracks = <<>>
  BY DEF Fresh
<1> HIDE DEF o
<1>2. \A j \in Kids(k) : ~ (j < k + 1)
  <2>1. \A j \in Kids(k) : j \in k + 1 .. LastIn(k)
    BY DEF Kids
  <2>2. k \in Nat /\ LastIn(k) \in Nat
    BY AtomsNested
  <2> QED BY <2>1, <2>2
<1>3. \A c : Counting(k, k + 1, c) = {}
  BY <1>2 DEF Counting
<1>4. Filled(k, o, k + 1)
  BY <1>1, <1>3 DEF Filled
<1>5. {j \in Playable(k, Fine) : j < k + 1} = {}
  BY <1>2 DEF Playable, TrackKids
<1>6. TracksListed(k, o, k + 1)
  BY <1>1, <1>5 DEF TracksListed, Range
<1>7. PassedBy(k, k + 1)
  BY <1>2 DEF PassedBy, TrackKids
<1> QED BY <1>4, <1>6, <1>7 DEF ReadSoFar, o

\* No container knows a malformed atom.
LEMMA KnownIsNotBad ==
  ASSUME NEW k, IsContainer(k) PROVE ~ Knows(k, "bad")
BY DEF IsContainer, Knows, Containers, stbl_read, dinf_read, minf_read, mdia_read, edts_read,
       trak_read, mvex_read, moov_read

\* All children have been passed.
LEMMA PassedAll ==
  ASSUME atoms \in Files, NEW k \in DOMAIN atoms, PassedBy(k, LastIn(k) + 1)
  PROVE  AllRead(k, Fine)
<1>1. \A j \in Kids(k) : j < LastIn(k) + 1
  <2>1. \A j \in Kids(k) : j \in k + 1 .. LastIn(k)
    BY DEF Kids
  <2>2. k \in Nat /\ LastIn(k) \in Nat
    BY AtomsNested
  <2> QED BY <2>1, <2>2
<1> QED BY <1>1 DEF PassedBy, AllRead, TrackKids

-----------------------------------------------------------------------------

\* BadHeader: a malformed child makes the atom unreadable.
LEMMA BadHeaderFaithful ==
  ASSUME atoms \in Files, Sane(stack, heap, ret, doing, sound), BadHeader,
         Faithful(stack, heap, ret, doing, result)
  PROVE  Faithful(stack', heap', ret', doing', result')
<1>1. /\ InLoop /\ doing = "loop" /\ atoms[Child].type = "bad" /\ result' = FALSE
      /\ stack' = stack /\ doing' = "check" /\ heap' = heap
  BY DEF BadHeader, InLoop
<1>2. Child \in Kids(Frame.atom)
  BY <1>1, AtChild
<1>3. ~ AllRead(Frame.atom, Fine)
  BY <1>1, <1>2 DEF AllRead
<1>4. Ended(Frame.atom, heap, result')
  BY <1>1, <1>3 DEF Ended
<1> QED BY <1>1, <1>4, LeavingFaithful DEF Faithful

\* AtEnd: all children have been passed.
LEMMA AtEndFaithful ==
  ASSUME atoms \in Files, Sane(stack, heap, ret, doing, sound), AtEnd,
         Faithful(stack, heap, ret, doing, result)
  PROVE  Faithful(stack', heap', ret', doing', result')
<1> DEFINE k == Frame.atom
<1>1. /\ doing = "loop" /\ doing # "done" /\ Frame.next > LastIn(k) /\ result' = TRUE
      /\ stack' = stack /\ doing' = "check" /\ heap' = heap
  BY DEF AtEnd, Child
<1>2. Frame.next \in Nat /\ LastIn(k) \in Nat /\ Frame.next <= LastIn(k) + 1
  BY <1>1, Running
<1>3. Frame.next = LastIn(k) + 1
  BY <1>1, <1>2
<1>4. /\ Filled(k, heap[k], Frame.next) /\ TracksListed(k, heap[k], Frame.next)
      /\ PassedBy(k, Frame.next) /\ k \in DOMAIN atoms
  BY <1>1, ChildSoFar
<1>5. AllRead(k, Fine)
  BY <1>3, <1>4, PassedAll
<1>6. Ended(k, heap, result')
  BY <1>1, <1>3, <1>4, <1>5 DEF Ended, WholeRead
<1> QED BY <1>1, <1>6, LeavingFaithful DEF Faithful

\* Leaf: the reader returns an object if the atom is fine.
LEMMA LeafFaithful ==
  ASSUME atoms \in Files, Sane(stack, heap, ret, doing, sound), Leaf,
         Faithful(stack, heap, ret, doing, result)
  PROVE  Faithful(stack', heap', ret', doing', result')
<1> DEFINE c == Child
           left == Reader(atoms[c])
           G == Extended(heap, c, atoms[c].type)
<1>0. doing # "done" /\ InLoop /\ doing = "loop"
  BY DEF Leaf, InLoop
<1>1. /\ stack' = stack /\ ret' = [atom |-> c, null |-> left # Read] /\ doing' = "deliver"
      /\ Knows(Frame.atom, atoms[c].type) /\ ~ IsContainer(c)
  BY DEF Leaf
<1>2. heap' = IF left = Refused THEN heap ELSE G
  <2>1. heap' = IF left = Refused THEN heap
                ELSE [k \in DOMAIN heap \cup {c} |->
                        IF k = c THEN Fresh(atoms[k].type) ELSE heap[k]]
    BY DEF Leaf
  <2>2. [k \in DOMAIN heap \cup {c} |-> IF k = c THEN Fresh(atoms[k].type) ELSE heap[k]] = G
    BY DEF Extended
  <2> QED BY <2>1, <2>2
<1>3. /\ c \in DOMAIN atoms /\ c \notin DOMAIN heap /\ Forest(heap) /\ IsContainer(Frame.atom)
      /\ \A n \in 1 .. Len(stack) : stack[n].atom \in DOMAIN heap
  BY <1>0, AtChild, Running DEF Underway
<1>4. Chained(G) /\ \A k \in DOMAIN heap : G[k] = heap[k]
  <2>1. Chained(G)
    BY <1>3, ChainedGrows DEF Faithful
  <2>2. \A k \in DOMAIN heap : G[k] = heap[k]
    BY <1>0, Growing
  <2> QED BY <2>1, <2>2
<1>5. Fine[c] <=> left = Read
  <2>1. Fine[c] <=> FineLeaf(c)
    BY <1>1, <1>3, FineIs
  <2>2. \E t \in DOMAIN Containers : atoms[c].type \in Containers[t].knows
    BY <1>1, <1>3 DEF Knows, IsContainer
  <2> QED BY <2>1, <2>2 DEF FineLeaf
<1> HIDE DEF left, G
<1>6. ret'.atom = c /\ ret'.null = (left # Read)
  BY <1>1
<1>7. AnsweredWell(ret', heap')
  BY <1>1, <1>5, <1>6 DEF AnsweredWell
<1>8. Chained(heap') /\ \A n \in 1 .. Len(stack) : heap'[stack[n].atom] = heap[stack[n].atom]
  BY <1>2, <1>3, <1>4 DEF Faithful
<1>9. Progress(stack', heap', doing')
  BY <1>0, <1>1, <1>8 DEF Faithful, Progress
<1> QED BY <1>1, <1>7, <1>8, <1>9 DEF Faithful

\* Enter: the new call has read nothing.
LEMMA EnterFaithful ==
  ASSUME atoms \in Files, Sane(stack, heap, ret, doing, sound), Enter,
         Faithful(stack, heap, ret, doing, result)
  PROVE  Faithful(stack', heap', ret', doing', result')
<1> DEFINE c == Child
           L == Len(stack)
           G == Extended(heap, c, atoms[c].type)
           t == Append(stack, [atom |-> c, next |-> c + 1])
<1>0. doing # "done" /\ InLoop /\ doing = "loop"
  BY DEF Enter, InLoop
<1>1. /\ stack' = t /\ doing' = "loop" /\ Knows(Frame.atom, atoms[c].type) /\ IsContainer(c)
  BY <1>0 DEF Enter
<1>2. heap' = G
  <2>1. heap' = [k \in DOMAIN heap \cup {c} |->
                   IF k = c THEN Fresh(atoms[k].type) ELSE heap[k]]
    BY DEF Enter
  <2> QED BY <2>1 DEF Extended
<1>3. \A i \in DOMAIN heap : G[i] = heap[i]
  BY <1>0, Growing
<1>31. G[c] = Fresh(atoms[c].type)
  BY <1>0, Growing
<1>4. /\ stack # <<>> /\ Frame = stack[L] /\ Nesting(stack) /\ L \in Nat \ {0}
      /\ Forest(heap) /\ \A n \in 1 .. L : stack[n].atom \in DOMAIN heap
  BY <1>0, Running
<1>5. /\ c = Frame.next /\ c <= LastIn(Frame.atom) /\ c \in DOMAIN atoms
      /\ c \notin DOMAIN heap
  BY <1>0, AtChild DEF InLoop
<1>6. /\ Len(t) = L + 1 /\ \A n \in 1 .. L : t[n] = stack[n]
      /\ t[L + 1] = [atom |-> c, next |-> c + 1]
  <2>1. Awaits(stack[L], c)
    BY <1>1, <1>4, <1>5 DEF Awaits
  <2> QED BY <1>1, <1>4, <2>1, Entering
<1>7. Chained(G)
  BY <1>4, <1>5, ChainedGrows DEF Faithful
<1>8. ReadSoFar(c, G[c], c + 1)
  BY <1>5, <1>31, FreshSoFar
<1> HIDE DEF t, G
<1>9. ASSUME NEW n \in 1 .. L PROVE ReadSoFar(t[n].atom, G[t[n].atom], t[n].next)
  <2>1. ReadSoFar(stack[n].atom, heap[stack[n].atom], stack[n].next)
    BY <1>0 DEF Faithful, Progress
  <2> QED BY <1>3, <1>4, <1>6, <2>1
<1>10. ReadSoFar(t[L + 1].atom, G[t[L + 1].atom], t[L + 1].next)
  BY <1>6, <1>8
<1>11. \A n \in 1 .. L + 1 : n \in 1 .. L \/ n = L + 1
  BY <1>4
<1>12. Progress(stack', heap', doing')
  BY <1>1, <1>2, <1>6, <1>9, <1>10, <1>11 DEF Progress
<1> QED BY <1>1, <1>2, <1>7, <1>12 DEF Faithful

\* What is known of the child that was read.
LEMMA DeliverySoFar ==
  ASSUME atoms \in Files, Sane(stack, heap, ret, doing, sound), doing = "deliver",
         Faithful(stack, heap, ret, doing, result)
  PROVE  /\ Filled(Frame.atom, heap[Frame.atom], ret.atom)
         /\ TracksListed(Frame.atom, heap[Frame.atom], ret.atom)
         /\ PassedBy(Frame.atom, ret.atom)
         /\ Chained(heap) /\ Forest(heap) /\ Unheld(heap, Frame.atom)
         /\ Frame.atom \in DOMAIN atoms /\ Frame.atom \in DOMAIN heap
         /\ heap[Frame.atom].tracks \in Seq(Nat)
         /\ Cardinality({i \in Playable(Frame.atom, Fine) : i < ret.atom}) =
              Len(heap[Frame.atom].tracks)
         /\ ret.atom \in Kids(Frame.atom) /\ ret.atom = Frame.next /\ ret.atom \in DOMAIN atoms
         /\ ret.atom # Frame.atom /\ ret.atom \in Nat
         /\ Knows(Frame.atom, atoms[ret.atom].type) /\ atoms[ret.atom].type # "bad"
         /\ ret.null <=> ~ Fine[ret.atom]
         /\ ~ ret.null => /\ Unheld(heap, ret.atom) /\ ret.atom \in DOMAIN heap
                          /\ IsContainer(ret.atom) => WholeRead(ret.atom, heap[ret.atom])
<1>1. /\ Filled(Frame.atom, heap[Frame.atom], Frame.next)
      /\ TracksListed(Frame.atom, heap[Frame.atom], Frame.next)
      /\ PassedBy(Frame.atom, Frame.next)
      /\ Chained(heap) /\ Forest(heap) /\ Unheld(heap, Frame.atom)
      /\ Frame.atom \in DOMAIN atoms /\ Frame.atom \in DOMAIN heap
      /\ heap[Frame.atom].tracks \in Seq(Nat) /\ IsInjective(heap[Frame.atom].tracks)
  BY ChildSoFar
<1>2. /\ Awaits(Frame, ret.atom) /\ ret.atom = Frame.next /\ ret.atom \in Kids(Frame.atom)
      /\ ret.atom \in DOMAIN atoms /\ ret.atom \in Nat /\ Frame.atom < ret.atom
      /\ ~ ret.null => Unheld(heap, ret.atom) /\ ret.atom \in DOMAIN heap
  BY AtDelivery
<1>3. Knows(Frame.atom, atoms[ret.atom].type)
  BY <1>2 DEF Awaits
<1>4. IsContainer(Frame.atom) /\ Frame.atom \in Nat
  BY Running DEF Underway
<1>5. atoms[ret.atom].type # "bad"
  BY <1>3, <1>4, KnownIsNotBad
<1>6. Cardinality({i \in Playable(Frame.atom, Fine) : i < ret.atom}) =
        Len(heap[Frame.atom].tracks)
  BY <1>1, <1>2, ListedCount
<1>7. AnsweredWell(ret, heap)
  BY DEF Faithful
<1>8. ret.atom # Frame.atom
  BY <1>2, <1>4
<1> QED BY <1>1, <1>2, <1>3, <1>5, <1>6, <1>7, <1>8 DEF AnsweredWell

\* A track that was read is of the kind that it is found to be.
LEMMA KindFound ==
  ASSUME atoms \in Files, Sane(stack, heap, ret, doing, sound), doing = "deliver", ~ ret.null,
         Faithful(stack, heap, ret, doing, result), atoms[ret.atom].type = "trak"
  PROVE  Handler(ret.atom) = KindOf(ret.atom, Fine)
<1>1. /\ Chained(heap) /\ Forest(heap) /\ ret.atom \in DOMAIN heap /\ ret.atom \in DOMAIN atoms
      /\ Fine[ret.atom] /\ (IsContainer(ret.atom) => WholeRead(ret.atom, heap[ret.atom]))
  BY DeliverySoFar
<1>2. IsContainer(ret.atom)
  BY DEF IsContainer, Containers
<1>3. HasMdia(ret.atom)
  BY <1>1, DeliverySoFar, FineTrak
<1>4. Handler(ret.atom) = atoms[HdlrOf(ret.atom, Fine)].handler
  BY <1>1, <1>2, <1>3, TrakFound
<1>5. KindOf(ret.atom, Fine) = atoms[HdlrOf(ret.atom, Fine)].handler
  BY DEF KindOf, HdlrOf, MdiaOf
<1> QED BY <1>4, <1>5

-----------------------------------------------------------------------------

\* Unknown changes neither slots nor tracks.
LEMMA UnknownFaithful ==
  ASSUME atoms \in Files, Sane(stack, heap, ret, doing, sound), Unknown,
         Faithful(stack, heap, ret, doing, result)
  PROVE  Faithful(stack', heap', ret', doing', result')
<1> DEFINE k == Frame.atom
           c == Child
           p == LastIn(c) + 1
<1>0. doing # "done" /\ InLoop /\ doing = "loop"
  BY DEF Unknown, InLoop
<1>1. /\ PassOver(c) /\ doing' = "loop" /\ atoms[c].type # "bad" /\ ~ Knows(k, atoms[c].type)
  BY <1>0 DEF Unknown, IsUnknown
<1>2. /\ c \in Kids(k) /\ c = Frame.next /\ c \in DOMAIN atoms /\ c \notin DOMAIN heap
  BY <1>0, AtChild
<1>3. /\ Filled(k, heap[k], c) /\ TracksListed(k, heap[k], c) /\ PassedBy(k, c)
      /\ Chained(heap) /\ Forest(heap) /\ Unheld(heap, k) /\ k \in DOMAIN atoms /\ k \in DOMAIN heap
  BY <1>0, <1>2, ChildSoFar
<1>4. c \notin TrackKids(k, Fine) /\ c \notin Playable(k, Fine)
  BY <1>1 DEF TrackKids, Playable
<1>5. PassedBy(k, p)
  BY <1>1, <1>2, <1>3, <1>4, PassedOn
<1>6. ASSUME NEW o, o.slots = heap[k].slots, o.tracks = heap[k].tracks
      PROVE  ReadSoFar(k, o, p)
  <2>1. Filled(k, o, p)
    BY <1>1, <1>2, <1>3, <1>6, FilledSkip
  <2>2. TracksListed(k, o, p)
    BY <1>2, <1>3, <1>4, <1>6, ListedSkip
  <2> QED BY <1>5, <2>1, <2>2 DEF ReadSoFar
<1>7. \A n \in 1 .. Len(stack) : stack[n].atom \in DOMAIN heap
      /\ (n # Len(stack) => stack[n].atom # k)
  <2>1. \A n \in 1 .. Len(stack) : /\ stack[n].atom \in DOMAIN heap /\ stack[n] \in Call
                                   /\ n # Len(stack) => stack[n].atom < k
    BY <1>0, Running
  <2>2. k \in Nat
    BY <1>0, Running
  <2> QED BY <2>1, <2>2 DEF Call
<1>8. /\ Chained(heap') /\ k \in DOMAIN heap'
      /\ heap'[k].slots = heap[k].slots /\ heap'[k].tracks = heap[k].tracks
      /\ \A i \in DOMAIN heap : i # k => heap'[i] = heap[i]
  <2>1. CASE atoms[c].size > 1024 * 1024 - 8
    <3> DEFINE q == [heap[k] EXCEPT !.unknown = <<>>]
    <3>1. heap' = [heap EXCEPT ![k] = q]
      BY <1>3, <2>1 DEF Unknown
    <3>2. q.slots = heap[k].slots /\ q.tracks = heap[k].tracks
      BY <1>3 DEF Forest, IsObject
    <3> HIDE DEF q
    <3>3. \A f \in DOMAIN q.slots : f \in DOMAIN heap[k].slots /\ q.slots[f] = heap[k].slots[f]
      BY <3>2
    <3>4. Chained(heap')
      BY <1>3, <3>1, <3>3, ChainedHolds
    <3> QED BY <1>3, <3>1, <3>2, <3>4
  <2>2. CASE ~ (atoms[c].size > 1024 * 1024 - 8)
    <3> DEFINE G == Extended(heap, c, "unknown")
               q == [heap[k] EXCEPT !.unknown = Append(heap[k].unknown, c)]
    <3>1. /\ Forest(G) /\ DOMAIN G = DOMAIN heap \cup {c} /\ G[c] = Fresh("unknown")
          /\ \A i \in DOMAIN heap : G[i] = heap[i]
          /\ \A n \in 1 .. Len(stack) : Holding(stack[n], G)
      BY <1>0, Growing
    <3>2. heap' = [G EXCEPT ![k] = q]
      <4>1. heap' = [i \in DOMAIN heap \cup {c} |->
                       IF i = c THEN Fresh("unknown") ELSE IF i = k THEN q ELSE heap[i]]
        BY <2>2 DEF Unknown
      <4> HIDE DEF q
      <4>2. heap' = [i \in DOMAIN G |-> IF i = k THEN q ELSE G[i]]
        <5> HIDE DEF G
        <5> QED BY <1>2, <1>3, <3>1, <4>1
      <4> HIDE DEF G
      <4>3. \A i \in DOMAIN G : [G EXCEPT ![k] = q][i] = IF i = k THEN q ELSE G[i]
        BY <1>3, <3>1
      <4>4. G = [i \in DOMAIN G |-> G[i]]
        BY <3>1 DEF G, Extended
      <4> QED BY <1>3, <3>1, <4>2, <4>3, <4>4
    <3>3. q.slots = heap[k].slots /\ q.tracks = heap[k].tracks
      BY <1>3 DEF Forest, IsObject
    <3>4. Chained(G)
      BY <1>2, <1>3, ChainedGrows
    <3> HIDE DEF G, q
    <3>5. Unheld(G, k) /\ G[k] = heap[k]
      <4>1. Frame = stack[Len(stack)] /\ Len(stack) \in 1 .. Len(stack)
        BY <1>0, Running
      <4> QED BY <1>3, <3>1, <4>1 DEF Holding
    <3>6. \A f \in DOMAIN q.slots : f \in DOMAIN G[k].slots /\ q.slots[f] = G[k].slots[f]
      BY <3>3, <3>5
    <3>7. Chained(heap')
      BY <3>1, <3>2, <3>4, <3>5, <3>6, ChainedHolds
    <3>8. k \in DOMAIN G
      BY <1>3, <3>1
    <3>9. heap'[k] = q /\ k \in DOMAIN heap'
      BY <3>2, <3>8
    <3>10. \A i \in DOMAIN heap : i # k => heap'[i] = heap[i]
      BY <3>1, <3>2
    <3> QED BY <3>3, <3>7, <3>9, <3>10
  <2> QED BY <2>1, <2>2
<1>9. ReadSoFar(k, heap'[k], p)
  BY <1>6, <1>8
<1> QED BY <1>0, <1>1, <1>2, <1>7, <1>8, <1>9, PassingFaithful

\* ChildFailed: the atom is unreadable, unless the child is empty and the last one.
LEMMA ChildFailedFaithful ==
  ASSUME atoms \in Files, Sane(stack, heap, ret, doing, sound), ChildFailed,
         Faithful(stack, heap, ret, doing, result)
  PROVE  Faithful(stack', heap', ret', doing', result')
<1> DEFINE k == Frame.atom
           j == ret.atom
           o == heap[k]
<1>1. /\ doing = "deliver" /\ ret.null /\ stack' = stack /\ heap' = heap /\ doing' = "check"
      /\ result' = (atoms[j].size = 0 /\ LastIn(j) = LastIn(k))
  BY DEF ChildFailed, Break
<1>2. /\ Filled(k, o, j) /\ TracksListed(k, o, j) /\ PassedBy(k, j)
      /\ k \in DOMAIN atoms /\ j \in Kids(k) /\ Knows(k, atoms[j].type) /\ atoms[j].type # "bad"
      /\ ~ Fine[j]
  BY <1>1, DeliverySoFar
<1>3. j \notin TrackKids(k, Fine) /\ j \notin Playable(k, Fine)
  BY <1>2 DEF TrackKids, Playable
<1>4. ~ result' => ~ AllRead(k, Fine)
  BY <1>1, <1>2 DEF AllRead
<1>5. ASSUME result' PROVE AllRead(k, Fine) /\ WholeRead(k, o)
  <2>1. atoms[j].size = 0 /\ LastIn(j) = LastIn(k)
    BY <1>1, <1>5
  <2>2. \A i \in Kids(k) : i < j \/ i = j
    <3>1. LastIn(k) \in Nat /\ \A i \in Kids(k) : i \in Nat /\ i <= LastIn(k)
      BY <1>2, KidsWithin, AtomsNested
    <3>2. \A i \in Kids(k) : i < LastIn(j) + 1
      BY <2>1, <3>1
    <3> QED BY <1>2, <3>2, KidsUpTo
  <2>3. AllRead(k, Fine)
    <3>1. TrackKids(k, Fine) \subseteq Kids(k)
      BY DEF TrackKids
    <3> QED BY <1>2, <1>3, <2>1, <2>2, <3>1 DEF AllRead, PassedBy
  <2>4. Filled(k, o, LastIn(j) + 1)
    BY <1>2, FilledSkip
  <2>5. TracksListed(k, o, LastIn(j) + 1)
    BY <1>2, <1>3, ListedSkip
  <2> QED BY <2>1, <2>3, <2>4, <2>5 DEF WholeRead
<1>6. Ended(k, heap, result')
  BY <1>4, <1>5 DEF Ended
<1> QED BY <1>1, <1>6, LeavingFaithful DEF Faithful

\* Store: the child is the last one for its slot.
LEMMA StoreFaithful ==
  ASSUME atoms \in Files, Sane(stack, heap, ret, doing, sound), Store,
         Faithful(stack, heap, ret, doing, result)
  PROVE  Faithful(stack', heap', ret', doing', result')
<1> DEFINE k == Frame.atom
           j == ret.atom
           c == Slot(atoms[j].type)
           o == heap[k]
           p == [o EXCEPT !.slots[c] = j]
<1>1. /\ doing = "deliver" /\ doing # "done" /\ ~ ret.null /\ SlotType(atoms[j].type)
      /\ PassOver(j) /\ doing' = "loop"
  BY DEF Store, SlotType
<1>2. heap' = [heap EXCEPT ![k] = p]
  BY DEF Store
<1>3. /\ Filled(k, o, j) /\ TracksListed(k, o, j) /\ PassedBy(k, j) /\ Chained(heap) /\ Forest(heap)
      /\ Unheld(heap, k) /\ k \in DOMAIN heap /\ j # k /\ j = Frame.next
      /\ k \in DOMAIN atoms /\ j \in Kids(k) /\ Knows(k, atoms[j].type) /\ atoms[j].type # "bad"
      /\ Fine[j] /\ (IsContainer(j) => WholeRead(j, heap[j]))
  BY <1>1, DeliverySoFar
<1>4. c \in DOMAIN o.slots
  <2>1. IsContainer(k) /\ Holding(Frame, heap)
    BY <1>1, Running DEF Underway
  <2> QED BY <1>1, <1>3, <2>1, SlotKnown DEF Holding
<1>5. p.slots = [o.slots EXCEPT ![c] = j] /\ p.tracks = o.tracks
  <2>1. IsObject(o)
    BY <1>3 DEF Forest
  <2> HIDE DEF o, c, j
  <2> QED BY <2>1 DEF IsObject
<1> HIDE DEF p
<1>6. j \notin TrackKids(k, Fine) /\ j \notin Playable(k, Fine)
  BY <1>1 DEF TrackKids, Playable, SlotType
<1>7. ReadSoFar(k, p, LastIn(j) + 1)
  <2>1. Filled(k, p, LastIn(j) + 1)
    BY <1>1, <1>3, <1>4, <1>5, FilledStore
  <2>2. TracksListed(k, p, LastIn(j) + 1)
    BY <1>3, <1>5, <1>6, ListedSkip
  <2>3. PassedBy(k, LastIn(j) + 1)
    BY <1>3, <1>6, PassedOn
  <2> QED BY <2>1, <2>2, <2>3 DEF ReadSoFar
<1>8. Chained(heap')
  <2>1. \A f \in DOMAIN p.slots :
          \/ f \in DOMAIN heap[k].slots /\ p.slots[f] = heap[k].slots[f]
          \/ p.slots[f] = j /\ j # k /\ (IsContainer(j) => WholeRead(j, heap[j]))
    BY <1>3, <1>4, <1>5
  <2> QED BY <1>2, <1>3, <2>1, ChainedHolds
<1>9. \A n \in 1 .. Len(stack) : n # Len(stack) => heap'[stack[n].atom] = heap[stack[n].atom]
  <2>1. \A n \in 1 .. Len(stack) : n # Len(stack) => stack[n].atom # k
    <3>1. k \in Nat /\ \A n \in 1 .. Len(stack) : n # Len(stack) => stack[n].atom < k
      BY <1>1, Running
    <3>2. \A n \in 1 .. Len(stack) : stack[n].atom \in Nat
      BY <1>1, Running DEF Call
    <3> QED BY <3>1, <3>2
  <2> QED BY <1>2, <2>1
<1>10. heap'[k] = p
  BY <1>2, <1>3
<1> QED BY <1>1, <1>3, <1>7, <1>8, <1>9, <1>10, PassingFaithful

\* AddTrack: the track is not one to be ignored, and there is room for it.
LEMMA AddTrackFaithful ==
  ASSUME atoms \in Files, Sane(stack, heap, ret, doing, sound), AddTrack,
         Faithful(stack, heap, ret, doing, result)
  PROVE  Faithful(stack', heap', ret', doing', result')
<1> DEFINE k == Frame.atom
           j == ret.atom
           o == heap[k]
           p == [o EXCEPT !.tracks = Append(@, j)]
<1>1. /\ doing = "deliver" /\ doing # "done" /\ ~ ret.null /\ atoms[j].type \in {"trak", "trex"}
      /\ PassOver(j) /\ doing' = "loop" /\ Len(o.tracks) < MAX_TRACKS
      /\ atoms[j].type = "trak" => Handler(j) \in {"vide", "soun"}
  BY DEF AddTrack
<1>2. heap' = [heap EXCEPT ![k] = p]
  BY DEF AddTrack
<1>3. /\ Filled(k, o, j) /\ TracksListed(k, o, j) /\ PassedBy(k, j) /\ Chained(heap) /\ Forest(heap)
      /\ Unheld(heap, k) /\ k \in DOMAIN heap /\ j # k /\ j = Frame.next
      /\ k \in DOMAIN atoms /\ j \in Kids(k) /\ Knows(k, atoms[j].type) /\ atoms[j].type # "bad"
      /\ Fine[j] /\ o.tracks \in Seq(Nat)
      /\ Cardinality({i \in Playable(k, Fine) : i < j}) = Len(o.tracks)
  BY <1>1, DeliverySoFar
<1>4. j \in Playable(k, Fine)
  <2>1. j \in TrackKids(k, Fine)
    BY <1>1, <1>3 DEF TrackKids
  <2>2. atoms[j].type = "trak" => KindOf(j, Fine) \in {"vide", "soun"}
    BY <1>1, KindFound
  <2> QED BY <1>1, <2>1, <2>2 DEF Playable
<1>5. p.slots = o.slots /\ p.tracks = Append(o.tracks, j)
  BY <1>3 DEF Forest, IsObject
<1> HIDE DEF p
<1>7. ReadSoFar(k, p, LastIn(j) + 1)
  <2>1. Filled(k, p, LastIn(j) + 1)
    BY <1>1, <1>3, <1>5, FilledSkip DEF SlotType
  <2>2. TracksListed(k, p, LastIn(j) + 1)
    BY <1>3, <1>4, <1>5, ListedAdd
  <2>3. PassedBy(k, LastIn(j) + 1)
    BY <1>1, <1>3, PassedOn
  <2> QED BY <2>1, <2>2, <2>3 DEF ReadSoFar
<1>8. Chained(heap')
  <2>1. \A f \in DOMAIN p.slots :
          f \in DOMAIN heap[k].slots /\ p.slots[f] = heap[k].slots[f]
    BY <1>5
  <2> QED BY <1>2, <1>3, <2>1, ChainedHolds
<1>9. \A n \in 1 .. Len(stack) : n # Len(stack) => heap'[stack[n].atom] = heap[stack[n].atom]
  <2>1. \A n \in 1 .. Len(stack) : n # Len(stack) => stack[n].atom # k
    <3>1. k \in Nat /\ \A n \in 1 .. Len(stack) : n # Len(stack) => stack[n].atom < k
      BY <1>1, Running
    <3>2. \A n \in 1 .. Len(stack) : stack[n].atom \in Nat
      BY <1>1, Running DEF Call
    <3> QED BY <3>1, <3>2
  <2> QED BY <1>2, <2>1
<1>10. heap'[k] = p
  BY <1>2, <1>3
<1> QED BY <1>1, <1>3, <1>7, <1>8, <1>9, <1>10, PassingFaithful

\* A track that there is no room for is not empty.
LEMMA TrackNotEmpty ==
  ASSUME atoms \in Files, NEW j \in DOMAIN atoms, Fine[j], atoms[j].type \in {"trak", "trex"}
  PROVE  atoms[j].size # 0
<1>1. CASE atoms[j].type = "trak"
  <2>1. Kids(j) # {}
    BY <1>1, FineTrak
  <2>2. LastIn(j) # j
    <3>1. j \in Nat /\ LastIn(j) \in Nat /\ \A i \in Kids(j) : i \in Nat /\ i > j /\ i <= LastIn(j)
      BY KidsWithin, AtomsNested
    <3> QED BY <2>1, <3>1
  <2> QED BY <2>2, AtomTreeAssumption DEF Nested, LastIn
<1>2. CASE atoms[j].type = "trex"
  <2>1. ~ IsContainer(j)
    BY <1>2 DEF IsContainer, Containers
  <2>2. Reader(atoms[j]) = Read
    BY <2>1, FineIs DEF FineLeaf
  <2>3. trex_read(atoms[j]) = Read
    BY <1>2, <2>2 DEF Reader
  <2>4. ~ (atoms[j].size < 24)
    BY <2>3 DEF trex_read, Read, Leaked
  <2> QED BY <2>4
<1> QED BY <1>1, <1>2

\* TableFull: there are too many tracks, and the atom is unreadable.
LEMMA TableFullFaithful ==
  ASSUME atoms \in Files, Sane(stack, heap, ret, doing, sound), TableFull,
         Faithful(stack, heap, ret, doing, result)
  PROVE  Faithful(stack', heap', ret', doing', result')
<1> DEFINE k == Frame.atom
           j == ret.atom
<1>1. /\ doing = "deliver" /\ doing # "done" /\ ~ ret.null /\ Exit(j)
      /\ stack' = stack /\ doing' = "check" /\ atoms[j].type \in {"trak", "trex"}
      /\ Len(heap[k].tracks) = MAX_TRACKS
      /\ result' = (atoms[j].size = 0 /\ LastIn(j) = LastIn(k))
  BY DEF TableFull, Break
<1>2. /\ j \in Kids(k) /\ Knows(k, atoms[j].type) /\ Fine[j] /\ j \in DOMAIN atoms
      /\ Cardinality({i \in Playable(k, Fine) : i < j}) = MAX_TRACKS
      /\ Chained(heap) /\ Unheld(heap, j)
  BY <1>1, DeliverySoFar
<1>3. ~ result'
  BY <1>1, <1>2, TrackNotEmpty
<1>4. ~ AllRead(k, Fine)
  <2>1. j \in TrackKids(k, Fine)
    BY <1>1, <1>2 DEF TrackKids
  <2>2. ~ (MAX_TRACKS < MAX_TRACKS)
    BY AtomTreeAssumption
  <2> QED BY <1>2, <2>1, <2>2 DEF AllRead
<1>5. Ended(k, heap, result')
  BY <1>3, <1>4 DEF Ended
<1>6. \A n \in 1 .. Len(stack) : stack[n].atom # j
  <2>1. \A n \in 1 .. Len(stack) : stack[n].atom \in Nat /\ stack[n].atom <= k
    BY <1>1, Running DEF Call
  <2>2. k \in Nat /\ k < j /\ j \in Nat
    BY <1>1, Running, AtDelivery
  <2> QED BY <2>1, <2>2
<1>7. /\ Forest(heap') /\ DOMAIN heap' \subseteq DOMAIN heap
      /\ \A i \in DOMAIN heap' : heap'[i] = heap[i]
      /\ \A n \in 1 .. Len(stack) : heap'[stack[n].atom] = heap[stack[n].atom]
  BY <1>1, <1>2, <1>6, Freeing
<1>8. Chained(heap')
  BY <1>2, <1>7, ChainedFrees
<1> QED BY <1>1, <1>5, <1>7, <1>8, LeavingFaithful

\* IgnoreTrak: the track is one to be ignored, and there is room for it.
LEMMA IgnoreTrakFaithful ==
  ASSUME atoms \in Files, Sane(stack, heap, ret, doing, sound), IgnoreTrak,
         Faithful(stack, heap, ret, doing, result)
  PROVE  Faithful(stack', heap', ret', doing', result')
<1> DEFINE k == Frame.atom
           j == ret.atom
           o == heap[k]
<1>1. /\ doing = "deliver" /\ doing # "done" /\ ~ ret.null /\ Exit(j)
      /\ PassOver(j) /\ doing' = "loop" /\ atoms[j].type = "trak"
      /\ Len(o.tracks) < MAX_TRACKS /\ Handler(j) \notin {"vide", "soun"}
  BY DEF IgnoreTrak
<1>2. /\ Filled(k, o, j) /\ TracksListed(k, o, j) /\ PassedBy(k, j) /\ Chained(heap)
      /\ Unheld(heap, j) /\ j = Frame.next /\ Fine[j]
      /\ k \in DOMAIN atoms /\ j \in Kids(k) /\ Knows(k, atoms[j].type) /\ atoms[j].type # "bad"
      /\ Cardinality({i \in Playable(k, Fine) : i < j}) = Len(o.tracks)
  BY <1>1, DeliverySoFar
<1>3. j \notin Playable(k, Fine)
  <2>1. KindOf(j, Fine) \notin {"vide", "soun"}
    BY <1>1, KindFound
  <2> QED BY <1>1, <2>1 DEF Playable
<1>4. ReadSoFar(k, o, LastIn(j) + 1)
  <2>1. Filled(k, o, LastIn(j) + 1)
    BY <1>1, <1>2, FilledSkip DEF SlotType
  <2>2. TracksListed(k, o, LastIn(j) + 1)
    BY <1>2, <1>3, ListedSkip
  <2>3. PassedBy(k, LastIn(j) + 1)
    BY <1>1, <1>2, PassedOn
  <2> QED BY <2>1, <2>2, <2>3 DEF ReadSoFar
<1>6. /\ \A n \in 1 .. Len(stack) : stack[n].atom # j
      /\ Frame = stack[Len(stack)] /\ Len(stack) \in 1 .. Len(stack)
  <2>1. /\ \A n \in 1 .. Len(stack) : stack[n].atom \in Nat /\ stack[n].atom <= k
        /\ Frame = stack[Len(stack)] /\ Len(stack) \in 1 .. Len(stack)
    BY <1>1, Running DEF Call
  <2>2. k \in Nat /\ k < j /\ j \in Nat
    BY <1>1, Running, AtDelivery
  <2> QED BY <2>1, <2>2
<1>7. /\ Forest(heap') /\ DOMAIN heap' \subseteq DOMAIN heap
      /\ \A i \in DOMAIN heap' : heap'[i] = heap[i]
      /\ \A n \in 1 .. Len(stack) : heap'[stack[n].atom] = heap[stack[n].atom]
  BY <1>1, <1>2, <1>6, Freeing
<1>8. Chained(heap')
  BY <1>2, <1>7, ChainedFrees
<1>9. heap'[k] = o
  BY <1>6, <1>7
<1> QED BY <1>1, <1>2, <1>4, <1>7, <1>8, <1>9, PassingFaithful

\* The running call is at the end of its atom.
LEMMA CheckSoFar ==
  ASSUME atoms \in Files, Sane(stack, heap, ret, doing, sound), doing = "check",
         Faithful(stack, heap, ret, doing, result)
  PROVE  /\ Good(Frame.atom) <=> Fine[Frame.atom]
         /\ Fine[Frame.atom] => WholeRead(Frame.atom, heap[Frame.atom])
         /\ Chained(heap) /\ Unheld(heap, Frame.atom)
<1>1. /\ Forest(heap) /\ Frame = stack[Len(stack)] /\ Frame.atom \in DOMAIN heap
      /\ IsContainer(Frame.atom) /\ Unheld(heap, Frame.atom)
  BY Running DEF Underway, Holding
<1>2. Ended(Frame.atom, heap, result) /\ Chained(heap)
  BY <1>1 DEF Faithful
<1>3. Good(Frame.atom) <=> Fine[Frame.atom]
  BY <1>1, <1>2, GoodIsFine DEF Ended
<1>4. Good(Frame.atom) => result
  BY DEF Good
<1> QED BY <1>1, <1>2, <1>3, <1>4 DEF Ended

\* Accept: the atom is fine.
LEMMA AcceptFaithful ==
  ASSUME atoms \in Files, Sane(stack, heap, ret, doing, sound), Accept,
         Faithful(stack, heap, ret, doing, result)
  PROVE  Faithful(stack', heap', ret', doing', result')
<1>1. /\ doing = "check" /\ Good(Frame.atom) /\ stack' = Below /\ doing' \in {"deliver", "done"}
      /\ ret'.atom = Frame.atom /\ ~ ret'.null /\ heap' = heap
  BY DEF Accept
<1>2. Fine[Frame.atom] /\ WholeRead(Frame.atom, heap[Frame.atom]) /\ Chained(heap)
  BY <1>1, CheckSoFar
<1>3. AnsweredWell(ret', heap')
  BY <1>1, <1>2 DEF AnsweredWell
<1> QED BY <1>1, <1>2, <1>3, ReturningFaithful

\* Reject: the atom is not fine.
LEMMA RejectFaithful ==
  ASSUME atoms \in Files, Sane(stack, heap, ret, doing, sound), Reject,
         Faithful(stack, heap, ret, doing, result)
  PROVE  Faithful(stack', heap', ret', doing', result')
<1>1. /\ doing = "check" /\ doing # "done" /\ ~ Good(Frame.atom) /\ stack' = Below
      /\ doing' \in {"deliver", "done"}
      /\ ret'.atom = Frame.atom /\ ret'.null /\ Exit(Frame.atom)
  BY DEF Reject
<1>2. ~ Fine[Frame.atom] /\ Chained(heap) /\ Unheld(heap, Frame.atom)
  BY <1>1, CheckSoFar
<1>3. AnsweredWell(ret', heap')
  BY <1>1, <1>2 DEF AnsweredWell
<1>4. \A n \in 1 .. Len(stack) : n # Len(stack) => stack[n].atom # Frame.atom
  <2>1. /\ Frame.atom \in Nat /\ \A n \in 1 .. Len(stack) : stack[n] \in Call
        /\ \A n \in 1 .. Len(stack) : n # Len(stack) => stack[n].atom < Frame.atom
    BY <1>1, Running
  <2> QED BY <2>1 DEF Call
<1>5. /\ Forest(heap') /\ DOMAIN heap' \subseteq DOMAIN heap
      /\ \A i \in DOMAIN heap' : heap'[i] = heap[i]
      /\ \A n \in 1 .. Len(stack) : n # Len(stack) => heap'[stack[n].atom] = heap[stack[n].atom]
  BY <1>1, <1>2, <1>4, Freeing
<1>6. Chained(heap')
  BY <1>2, <1>5, ChainedFrees
<1> QED BY <1>1, <1>3, <1>5, <1>6, ReturningFaithful

-----------------------------------------------------------------------------
\* The inductive invariant for what is read.
TreesFaithful == TreesSane /\ (Ordinary => Faithful(stack, heap, ret, doing, result))

\* Nothing of moov has been read.
LEMMA InitFaithful == TreeInit => TreesFaithful
<1> SUFFICES ASSUME TreeInit PROVE Faithful(stack, heap, ret, doing, result)
  BY InitSane DEF TreesFaithful
<1>1. /\ stack = <<[atom |-> 1, next |-> 2]>> /\ heap = [k \in {1} |-> Fresh("moov")]
      /\ doing = "loop" /\ atoms \in Files
  BY DEF TreeInit
<1>2. /\ Len(stack) = 1 /\ stack[1].atom = 1 /\ stack[1].next = 1 + 1
      /\ DOMAIN heap = {1} /\ heap[1] = Fresh("moov")
  BY <1>1
<1>3. 1 \in DOMAIN atoms /\ atoms[1].type = "moov"
  BY <1>1, AtomsNested
<1>4. ReadSoFar(1, heap[1], 1 + 1)
  BY <1>1, <1>2, <1>3, FreshSoFar
<1>5. Progress(stack, heap, doing)
  BY <1>2, <1>4 DEF Progress
<1>6. \A f \in DOMAIN heap[1].slots : heap[1].slots[f] = 0
  BY <1>2, FreshHoldsNothing DEF HeldBy, Slotted
<1>7. Chained(heap)
  BY <1>2, <1>6 DEF Chained
<1> QED BY <1>1, <1>5, <1>7 DEF Faithful

\* What holds of the next values holds in the next state: the atoms stay.
LEMMA FaithfulNext ==
  ASSUME atoms' = atoms, Faithful(stack', heap', ret', doing', result')
  PROVE  Faithful(stack, heap, ret, doing, result)'
<1>1. \A k : Kids(k)' = Kids(k) /\ LastIn(k)' = LastIn(k) /\ (IsContainer(k)' <=> IsContainer(k))
  BY DEF Kids, LastIn, IsContainer
<1>2. \A k, t : Knows(k, t)' <=> Knows(k, t)
  BY DEF Knows
<1>3. \A k, f, t : ChildOf(k, f, t)' = ChildOf(k, f, t)
  BY <1>1 DEF ChildOf
<1>4. \A k, f : KindOf(k, f)' = KindOf(k, f)
  BY <1>3 DEF KindOf
<1>5. \A k, f : TrackKids(k, f)' = TrackKids(k, f)
  BY <1>1, <1>2 DEF TrackKids
<1>6. \A k, f : Playable(k, f)' = Playable(k, f)
  BY <1>4, <1>5 DEF Playable
<1>7. Fine' = Fine
  BY DEF Fine, FineContainer, Playable, TrackKids, KindOf, ChildOf, Kids, Knows, LastIn, IsContainer
<1>8. \A k, p, c : Counting(k, p, c)' = Counting(k, p, c)
  BY <1>1, <1>2, <1>7 DEF Counting
<1>9. \A k, o, p : Filled(k, o, p)' <=> Filled(k, o, p)
  BY <1>8 DEF Filled
<1>10. \A k, o, p : TracksListed(k, o, p)' <=> TracksListed(k, o, p)
  BY <1>6, <1>7 DEF TracksListed
<1>11. \A k, p : PassedBy(k, p)' <=> PassedBy(k, p)
  BY <1>1, <1>2, <1>5, <1>6, <1>7 DEF PassedBy
<1>12. \A k, f : AllRead(k, f)' <=> AllRead(k, f)
  BY <1>1, <1>2, <1>5, <1>6 DEF AllRead
<1> QED BY <1>1, <1>7, <1>9, <1>10, <1>11, <1>12
        DEF Faithful, Chained, Progress, Ended, AnsweredWell, ReadSoFar, WholeRead

\* The invariant is kept by every step.
LEMMA NextFaithful == TreesFaithful /\ [TreeNext]_treeVars => TreesFaithful'
<1> SUFFICES ASSUME TreesFaithful, [TreeNext]_treeVars PROVE TreesFaithful'
  OBVIOUS
<1>1. TreesSane /\ TreesSane' /\ atoms \in Files
  BY NextSane DEF TreesFaithful, TreesSane
<1>2. atoms' = atoms
  BY DEF TreeNext, treeVars, BadHeader, Unknown, UnknownInDinf, Leaf, Enter, AtEnd, ChildFailed,
         Store, TableFull, IgnoreTrak, AddTrack, Accept, Reject
<1>3. SUFFICES ASSUME Ordinary PROVE Faithful(stack', heap', ret', doing', result')
  <2>1. Ordinary' <=> Ordinary
    BY <1>2 DEF Ordinary, LastIn
  <2>2. Faithful(stack', heap', ret', doing', result') => Faithful(stack, heap, ret, doing, result)'
    BY <1>2, FaithfulNext
  <2> QED BY <1>1, <1>3, <2>1, <2>2 DEF TreesFaithful
<1>4. Sane(stack, heap, ret, doing, sound) /\ Faithful(stack, heap, ret, doing, result)
  BY <1>1, <1>3 DEF TreesSane, TreesFaithful
<1>5. CASE UNCHANGED treeVars
  BY <1>4, <1>5 DEF treeVars
<1>6. CASE TreeNext
  <2>1. CASE UnknownInDinf
    BY <1>1, <1>3, <1>4, <2>1, NoUnknownInDinf
  <2>2. CASE BadHeader \/ AtEnd \/ Unknown \/ Leaf \/ Enter
    BY <1>1, <1>4, <2>2, BadHeaderFaithful, AtEndFaithful, UnknownFaithful, LeafFaithful,
       EnterFaithful
  <2>3. CASE ChildFailed \/ Store \/ AddTrack
    BY <1>1, <1>4, <2>3, ChildFailedFaithful, StoreFaithful, AddTrackFaithful
  <2>4. CASE TableFull \/ IgnoreTrak
    BY <1>1, <1>4, <2>4, TableFullFaithful, IgnoreTrakFaithful
  <2>5. CASE Accept \/ Reject
    BY <1>1, <1>4, <2>5, AcceptFaithful, RejectFaithful
  <2> QED BY <1>6, <2>1, <2>2, <2>3, <2>4, <2>5 DEF TreeNext
<1> QED BY <1>5, <1>6

\* What moov_read returns in the end is what it should.
LEMMA FaithfulAccepts == TreesFaithful => AcceptsExactly
<1> SUFFICES ASSUME TreesFaithful, doing = "done", Ordinary
             PROVE  /\ ret.null <=> ~ Fine[1]
                    /\ ~ ret.null => /\ Range(heap[1].tracks) = Playable(1, Fine)
                                     /\ \A m, n \in DOMAIN heap[1].tracks :
                                          m < n => heap[1].tracks[m] < heap[1].tracks[n]
  BY DEF AcceptsExactly
<1>1. /\ atoms \in Files /\ Sane(stack, heap, ret, doing, sound)
      /\ Faithful(stack, heap, ret, doing, result)
  BY DEF TreesFaithful, TreesSane
<1>2. ret.atom = 1 /\ AnsweredWell(ret, heap)
  BY <1>1 DEF Sane, Calls, Faithful
<1>3. 1 \in DOMAIN atoms /\ IsContainer(1)
  BY <1>1, AtomsNested DEF IsContainer, Containers
<1>4. ASSUME ~ ret.null
      PROVE  /\ Range(heap[1].tracks) = Playable(1, Fine)
             /\ \A m, n \in DOMAIN heap[1].tracks :
                  m < n => heap[1].tracks[m] < heap[1].tracks[n]
  <2>1. TracksListed(1, heap[1], LastIn(1) + 1)
    BY <1>2, <1>3, <1>4 DEF AnsweredWell, WholeRead
  <2>2. \A j \in Playable(1, Fine) : j < LastIn(1) + 1
    <3>1. Playable(1, Fine) \subseteq Kids(1)
      BY DEF Playable, TrackKids
    <3>2. LastIn(1) \in Nat /\ \A j \in Kids(1) : j \in Nat /\ j <= LastIn(1)
      BY <1>1, <1>3, KidsWithin, AtomsNested
    <3> QED BY <3>1, <3>2
  <2> QED BY <2>1, <2>2 DEF TracksListed
<1> QED BY <1>2, <1>4 DEF AnsweredWell

\* A file is refused exactly when an atom in it cannot be read, a mandatory one is missing
\* or there are too many tracks (moov_read and the readers it calls); an accepted one
\* has all its pictures and sounds, in order.
THEOREM TreesAcceptExactly == TreeSpec => []AcceptsExactly
<1>1. TreeInit => TreesFaithful
  BY InitFaithful
<1>2. TreesFaithful /\ [TreeNext]_treeVars => TreesFaithful'
  BY NextFaithful
<1>3. TreesFaithful => AcceptsExactly
  BY FaithfulAccepts
<1> QED BY <1>1, <1>2, <1>3, PTL DEF TreeSpec
=============================================================================
