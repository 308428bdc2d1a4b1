----------------------------- MODULE FastStart ------------------------------
(***************************************************************************)
(* ngx_http_enable_fast_start (src/ngx_http_mp4_faststart.h): when fix_mp4 *)
(* is on, every request first looks whether the moov atom of the file is   *)
(* its last atom, and if so moves it behind the ftyp atom, in place, with  *)
(* two buffers as large as the moov atom that take turns.                  *)
(*                                                                         *)
(* The file is a sequence of cells.  A cell knows the atom it belongs to,  *)
(* its place in it (0: the header), and whether it has been patched: the   *)
(* chunk offsets of the moved moov are raised by its size.  Sizes are in   *)
(* cells.  pos is the offset of the descriptor nginx keeps in its open     *)
(* file cache: it outlives the request.  wpos is the offset of outfile_fd. *)
(***************************************************************************)
EXTENDS Integers, Sequences

CONSTANTS
  Layouts,      \* the files: sequences of atoms, records with type and size
  Truncations,  \* how many cells a file may lack at its end
  Modulus,      \* last_offset is unsigned: it wraps here (2^64 in the code)
  DiskCells,    \* a write beyond this size fails
  IoFails,      \* whether calls may fail for other reasons
  HeaderReadsFail, \* which reads of an atom header may, unnoticed; one a request
  MaxRequests,  \* bounds the requests of a behaviour ...
  MaxCrashes    \* ... and the crashes of the worker process

\* The atoms that are known; cmov is a moov atom with compressed contents.
QtAtoms == {"free", "mdat", "moov", "cmov", "ftyp"}

LayoutOK(l) == l \in Seq([type : QtAtoms \cup {"other"}, size : Nat \ {0}])

ASSUME FastStartAssumption ==
  /\ \A l \in Layouts : LayoutOK(l)
  /\ Truncations \subseteq Nat
  /\ Modulus \in Nat \ {0} /\ DiskCells \in Nat
  /\ IoFails \in BOOLEAN /\ HeaderReadsFail \subseteq {"first", "later"}
  /\ MaxRequests \in Nat /\ MaxCrashes \in Nat

VARIABLES
  disk, pos, requests, crashes,
  pc,
  atom_type, atom_size,       \* the last header read
  unread,                     \* the read of a header has failed
  ftyp_atom, ftyp_atom_size,  \* the ftyp atom seen
  moov_atom, temp_buf,        \* the two buffers
  moov_atom_size,             \* how much of them is used
  last_offset,                \* how much of the file is still to be read
  wpos,
  source, moovSize            \* the file and the moov when the rewriting began

file    == <<disk, pos>>
bounds  == <<requests, crashes>>
scanned == <<atom_type, atom_size, ftyp_atom, ftyp_atom_size>>
copying == <<moov_atom, temp_buf, moov_atom_size, last_offset, wpos>>
history == <<source, moovSize>>
vars    == <<file, bounds, pc, unread, scanned, copying, history>>

Cell(j, l, k) == [type |-> l[j].type, size |-> l[j].size, atom |-> j, at |-> k,
                  patched |-> FALSE]
Cells(l) ==
  LET from[j \in 0 .. Len(l)] ==
        IF j = 0 THEN <<>>
        ELSE from[j - 1] \o [k \in 1 .. l[j].size |-> Cell(j, l, k - 1)]
  IN  from[Len(l)]

\* No file, and nothing the disk can hold, is as large as Modulus.
ASSUME SizesAssumption ==
  DiskCells < Modulus /\ \A l \in Layouts : Len(Cells(l)) < Modulus

Truncated(cells, n) == SubSeq(cells, 1, Len(cells) - n)

Init ==
  /\ \E l \in Layouts, n \in Truncations : disk = Truncated(Cells(l), n)
  /\ pos = 0 /\ requests = 0 /\ crashes = 0
  /\ pc = "idle" /\ unread = FALSE
  /\ atom_type = "none" /\ atom_size = 0
  /\ ftyp_atom = <<>> /\ ftyp_atom_size = 0
  /\ moov_atom = <<>> /\ temp_buf = <<>> /\ moov_atom_size = 0
  /\ last_offset = 0 /\ wpos = 0
  /\ source = <<>> /\ moovSize = 0

\* read(2): up to n cells from offset p; nothing at the end of the file.
ReadAt(p, n) == SubSeq(disk, p + 1, IF p + n <= Len(disk) THEN p + n ELSE Len(disk))

\* write(2), at wpos.
Overwrite(cells) ==
  [k \in 1 .. (IF wpos + Len(cells) > Len(disk) THEN wpos + Len(cells) ELSE Len(disk)) |->
     IF k \in wpos + 1 .. wpos + Len(cells) THEN cells[k - wpos] ELSE disk[k]]

\* A buffer read short keeps what it held behind the part that was read.
Refill(buffer, cells) ==
  cells \o SubSeq(buffer, Len(cells) + 1, Len(buffer))

Begin ==
  /\ pc = "idle" /\ requests < MaxRequests
  /\ requests' = requests + 1
  /\ pc' = "scan" /\ unread' = FALSE
  /\ atom_type' = "none" /\ atom_size' = 0
  /\ ftyp_atom' = <<>> /\ ftyp_atom_size' = 0
  /\ UNCHANGED <<file, crashes, copying, history>>

Header == disk[pos + 1]
AtHeader == pc = "scan" /\ pos < Len(disk) /\ Header.at = 0

\* ftyp is kept, whole.
ScanFtyp ==
  /\ AtHeader /\ Header.type = "ftyp"
  /\ atom_type' = "ftyp" /\ atom_size' = Header.size
  /\ ftyp_atom' = ReadAt(pos, Header.size) /\ ftyp_atom_size' = Header.size
  /\ pos' = pos + Len(ftyp_atom')
  /\ UNCHANGED <<disk, bounds, unread, pc, copying, history>>

\* Mutant of ScanAtom: the seek behind the atom is forgotten.
ScanAtomNoSeek ==
  /\ AtHeader /\ Header.type \in QtAtoms \ {"ftyp"}
  /\ atom_type' = Header.type /\ atom_size' = Header.size
  /\ UNCHANGED <<file, bounds, unread, pc, ftyp_atom, ftyp_atom_size, copying, history>>

ScanAtom ==
  /\ AtHeader /\ Header.type \in QtAtoms \ {"ftyp"}
  /\ atom_type' = Header.type /\ atom_size' = Header.size
  /\ pos' = pos + Header.size
  /\ UNCHANGED <<disk, bounds, unread, pc, ftyp_atom, ftyp_atom_size, copying, history>>

\* An unknown atom ends the scan, behind that atom.
ScanOther ==
  /\ AtHeader /\ Header.type = "other"
  /\ atom_type' = "other" /\ atom_size' = Header.size
  /\ pos' = pos + Header.size
  /\ pc' = "scanned"
  /\ UNCHANGED <<disk, bounds, unread, ftyp_atom, ftyp_atom_size, copying, history>>

\* After a rewriting that was cut short the scan may come upon the middle of
\* an atom: what it takes for a header there is no known atom, and its size
\* sends the offset anywhere.
ScanGarbage ==
  /\ pc = "scan" /\ pos < Len(disk) /\ Header.at # 0
  /\ atom_type' = "other"
  /\ pos' \in 0 .. Len(disk)
  /\ pc' = "scanned"
  /\ UNCHANGED <<disk, bounds, unread, atom_size, ftyp_atom, ftyp_atom_size, copying, history>>

\* lseek: a seek that fails leaves the offset where it is.
Seek(p) == IF p >= 0 THEN p ELSE pos

\* An atom that is taken to begin a cell before the offset.
ScanAs(type, size) ==
  /\ atom_type' = type /\ atom_size' = size
  /\ \/ /\ type = "ftyp"
        /\ ftyp_atom' = ReadAt(Seek(pos - 1), size) /\ ftyp_atom_size' = size
        /\ pos' = Seek(pos - 1) + Len(ftyp_atom')
     \/ /\ type # "ftyp"
        /\ pos' = Seek(pos + size - 1)
        /\ UNCHANGED <<ftyp_atom, ftyp_atom_size>>
  /\ pc' = IF type \in QtAtoms THEN "scan" ELSE "scanned"

\* Only a read at the end of the file ends the scan.  When the read of a header
\* fails, the header before it is taken once more, or what the stack holds if
\* there was none, and the offset has not moved.
ScanUnread ==
  /\ pc = "scan" /\ pos < Len(disk) /\ ~ unread
  /\ unread' = TRUE
  /\ \/ /\ "later" \in HeaderReadsFail /\ atom_type # "none"
        /\ ScanAs(atom_type, atom_size)
     \/ /\ "first" \in HeaderReadsFail /\ atom_type = "none"
        /\ \E type \in QtAtoms \cup {"other"}, size \in 1 .. Len(disk) : ScanAs(type, size)
  /\ UNCHANGED <<disk, bounds, copying, history>>

\* Mutant of ScanEnd: it does not matter what the last atom is.
ScanEndAny ==
  /\ pc = "scan" /\ pos >= Len(disk)
  /\ pc' = "scanned"
  /\ atom_type' = IF atom_type = "none" THEN "none" ELSE "moov"
  /\ UNCHANGED <<file, bounds, unread, atom_size, ftyp_atom, ftyp_atom_size, copying, history>>

ScanEnd ==
  /\ pc = "scan" /\ pos >= Len(disk)
  /\ pc' = "scanned"
  /\ UNCHANGED <<file, bounds, unread, scanned, copying, history>>

\* The last atom is not moov: NGX_OK.  The offset stays where the scan ended.
NotLast ==
  /\ pc = "scanned" /\ atom_type \notin {"moov", "cmov"}
  /\ pc' = "idle"
  /\ UNCHANGED <<file, bounds, unread, scanned, copying, history>>

\* A buffer of n cells as it is allocated: what it holds is no known atom.
Fresh(n) ==
  [k \in 1 .. n |-> [type |-> "other", size |-> 2, atom |-> 0, at |-> 1,
                     patched |-> FALSE]]

Patched(cells) == [k \in DOMAIN cells |-> [cells[k] EXCEPT !.patched = TRUE]]

\* lseek(-atom_size, SEEK_END): the new offset, or -1.
FromEnd == IF atom_size <= Len(disk) THEN Len(disk) - atom_size ELSE -1
MoovAt == Seek(FromEnd)
Loaded == Refill(Fresh(atom_size), ReadAt(MoovAt, atom_size))
IsCompressed == Loaded[1].type = "cmov" /\ Loaded[1].at = 0

\* The last atom is moov, and it is in the buffer.
MoovInBuffer == pc = "scanned" /\ atom_type \in {"moov", "cmov"}

\* A compressed moov is read, and left alone: NGX_OK.
Compressed ==
  /\ MoovInBuffer /\ IsCompressed
  /\ pc' = "idle"
  /\ pos' = MoovAt + Len(ReadAt(MoovAt, atom_size))
  /\ UNCHANGED <<disk, bounds, unread, scanned, copying, history>>

\* An allocation or a read fails, or a table in moov is larger than moov.
LoadFails ==
  /\ IoFails /\ MoovInBuffer
  /\ \/ pos' = MoovAt
     \/ /\ ~ IsCompressed
        /\ pos' \in {MoovAt + Len(ReadAt(MoovAt, atom_size)), ftyp_atom_size,
                     ftyp_atom_size + Len(ReadAt(ftyp_atom_size, atom_size))}
  /\ pc' = "idle"
  /\ UNCHANGED <<disk, bounds, unread, scanned, copying, history>>

\* Mutant of Load: nothing is read ahead of the first write.
LoadOneBuffer ==
  /\ MoovInBuffer /\ ~ IsCompressed
  /\ moov_atom' = Patched(Loaded)
  /\ moov_atom_size' = atom_size /\ moovSize' = atom_size
  /\ temp_buf' = Fresh(atom_size)
  /\ pos' = ftyp_atom_size
  /\ last_offset' = (FromEnd - ftyp_atom_size) % Modulus
  /\ wpos' = 0
  /\ source' = disk
  /\ pc' = "open"
  /\ UNCHANGED <<disk, bounds, unread, scanned>>

\* Load the moov atom from the end of the file; then, from behind ftyp, what
\* it will overwrite; patch the offsets in moov; seek behind what was read.
Load ==
  /\ MoovInBuffer /\ ~ IsCompressed
  /\ moov_atom' = Patched(Loaded)
  /\ moov_atom_size' = atom_size /\ moovSize' = atom_size
  /\ temp_buf' = Refill(Fresh(atom_size), ReadAt(ftyp_atom_size, atom_size))
  /\ pos' = ftyp_atom_size + atom_size
  /\ last_offset' = (FromEnd - (ftyp_atom_size + atom_size)) % Modulus
  /\ wpos' = 0
  /\ source' = disk
  /\ pc' = "open"
  /\ UNCHANGED <<disk, bounds, unread, scanned>>

\* Room for n more cells on the disk.
Room(n) == wpos + n <= DiskCells \/ wpos + n <= Len(disk)

WriteFtyp ==
  /\ pc = "open" /\ Room(Len(ftyp_atom))
  /\ disk' = Overwrite(ftyp_atom) /\ wpos' = wpos + Len(ftyp_atom)
  /\ pc' = "loop"
  /\ UNCHANGED <<pos, bounds, unread, scanned, moov_atom, temp_buf, moov_atom_size,
                 last_offset, history>>

\* while (last_offset): write the block that was read first ...
WriteMoov ==
  /\ pc = "loop" /\ last_offset # 0 /\ Room(moov_atom_size)
  /\ LET block == SubSeq(moov_atom, 1, moov_atom_size)
     IN  disk' = Overwrite(block) /\ wpos' = wpos + Len(block)
  /\ pc' = "read moov"
  /\ UNCHANGED <<pos, bounds, unread, scanned, moov_atom, temp_buf, moov_atom_size,
                 last_offset, history>>

\* Mutant of Take: a whole block is read whatever is left.
TakeBlock == moov_atom_size

\* How much the next read takes: never more than is left.
Take == IF last_offset < moov_atom_size THEN last_offset ELSE moov_atom_size

\* ... and read the next into its place;
ReadMoov ==
  /\ pc = "read moov"
  /\ moov_atom_size' = Take
  /\ LET block == ReadAt(pos, Take)
     IN  moov_atom' = Refill(moov_atom, block) /\ pos' = pos + Len(block)
  /\ last_offset' = last_offset - Take
  /\ pc' = "write temp"
  /\ UNCHANGED <<disk, bounds, unread, scanned, temp_buf, wpos, history>>

\* Mutant of WriteTemp: the buffers are swapped.
WriteTempSwapped ==
  /\ pc = "write temp" /\ Room(moov_atom_size)
  /\ LET block == SubSeq(moov_atom, 1, moov_atom_size)
     IN  disk' = Overwrite(block) /\ wpos' = wpos + Len(block)
  /\ pc' = "read temp"
  /\ UNCHANGED <<pos, bounds, unread, scanned, moov_atom, temp_buf, moov_atom_size,
                 last_offset, history>>

\* the same with the other buffer.
WriteTemp ==
  /\ pc = "write temp" /\ Room(moov_atom_size)
  /\ LET block == SubSeq(temp_buf, 1, moov_atom_size)
     IN  disk' = Overwrite(block) /\ wpos' = wpos + Len(block)
  /\ pc' = "read temp"
  /\ UNCHANGED <<pos, bounds, unread, scanned, moov_atom, temp_buf, moov_atom_size,
                 last_offset, history>>

ReadTemp ==
  /\ pc = "read temp"
  /\ moov_atom_size' = Take
  /\ LET block == ReadAt(pos, Take)
     IN  temp_buf' = Refill(temp_buf, block) /\ pos' = pos + Len(block)
  /\ last_offset' = last_offset - Take
  /\ pc' = "loop"
  /\ UNCHANGED <<disk, bounds, unread, scanned, moov_atom, wpos, history>>

\* The loop ends, and NGX_OK is returned.
Fixed ==
  /\ pc = "loop" /\ last_offset = 0
  /\ pc' = "fixed"
  /\ pos' = 0
  /\ UNCHANGED <<disk, bounds, unread, scanned, copying, history>>

Return ==
  /\ pc = "fixed"
  /\ pc' = "idle"
  /\ UNCHANGED <<file, bounds, unread, scanned, copying, history>>

\* A read, an open or a write fails: NGX_ERROR.  The offset of the descriptor
\* is left where it is.
Fail ==
  /\ \/ IoFails /\ pc \in {"open", "loop", "read moov", "write temp", "read temp"}
     \/ IoFails /\ AtHeader /\ Header.type = "ftyp"
     \/ pc = "open" /\ ~ Room(Len(ftyp_atom))
     \/ pc \in {"loop", "write temp"} /\ ~ Room(moov_atom_size)
  /\ ~ (pc = "loop" /\ last_offset = 0)
  /\ pc' = "idle"
  /\ UNCHANGED <<file, bounds, unread, scanned, copying, history>>

\* The worker process dies; the one that follows opens the file anew.
Crash ==
  /\ crashes < MaxCrashes
  /\ pc # "idle"
  /\ crashes' = crashes + 1
  /\ pc' = "idle" /\ pos' = 0
  /\ UNCHANGED <<disk, requests, unread, scanned, copying, history>>

Scan    == ScanFtyp \/ ScanAtom \/ ScanOther \/ ScanGarbage \/ ScanUnread \/ ScanEnd
Rewrite == WriteFtyp \/ WriteMoov \/ ReadMoov \/ WriteTemp \/ ReadTemp \/ Fixed
Handle  == Scan \/ NotLast \/ Compressed \/ LoadFails \/ Load \/ Rewrite \/ Return \/ Fail

Next == Begin \/ Handle \/ Crash

Spec == Init /\ [][Next]_vars /\ WF_vars(Handle)

-----------------------------------------------------------------------------
Rewriting == pc \in {"open", "loop", "read moov", "write temp", "read temp", "fixed"}

\* What the rewriting is for: ftyp, the patched moov, everything else.
Desired ==
  LET body == SubSeq(source, ftyp_atom_size + 1, Len(source) - moovSize)
      moov == SubSeq(source, Len(source) - moovSize + 1, Len(source))
  IN  SubSeq(source, 1, ftyp_atom_size)
        \o Patched(moov)
        \o body

CellType ==
  {c \in [type : QtAtoms \cup {"other"}, size : Nat, atom : Nat, at : Nat,
          patched : BOOLEAN] : c.at < c.size}
CellSeq == Seq(CellType)

\* Each variable has its type.
TypeOK ==
  /\ pos \in Nat /\ wpos \in Nat
  /\ requests \in 0 .. MaxRequests /\ crashes \in 0 .. MaxCrashes
  /\ pc \in {"idle", "scan", "scanned", "open", "loop", "read moov", "write temp",
             "read temp", "fixed"}
  /\ atom_type \in QtAtoms \cup {"other", "none"} /\ unread \in BOOLEAN
  /\ atom_size \in Nat /\ ftyp_atom_size \in Nat /\ moovSize \in Nat
  /\ moov_atom_size \in Nat /\ last_offset \in Nat
  /\ disk \in CellSeq /\ source \in CellSeq
  /\ ftyp_atom \in CellSeq
  /\ moov_atom \in CellSeq /\ temp_buf \in CellSeq

\* The part of the file between ftyp and moov is no smaller than moov.
BodyHoldsMoov == ftyp_atom_size + 2 * moovSize <= Len(source)

FtypFirst == ftyp_atom = SubSeq(source, 1, ftyp_atom_size)

\* The function reads and writes the same file at the same time, through two
\* descriptors, and must read before it overwrites: the reader is never behind
\* the writer, and what is left to read ends where moov begins.
ReadsAhead ==
  Rewriting /\ pc # "fixed" /\ BodyHoldsMoov =>
    /\ wpos <= pos
    /\ pos + last_offset = Len(source) - moovSize

\* At every moment of the rewriting, a crash or a failed write included, what
\* has been written is the beginning of the file that is wanted, and what has
\* not been overwritten is as it was.
WrittenIsRight ==
  Rewriting /\ BodyHoldsMoov /\ FtypFirst =>
    /\ SubSeq(disk, 1, wpos) = SubSeq(Desired, 1, wpos)
    /\ SubSeq(disk, wpos + 1, Len(disk)) = SubSeq(source, wpos + 1, Len(source))

\* The function writes only to a file whose last atom was moov, also when it
\* starts to scan in the middle of the file, where the request before it left
\* the offset of the cached descriptor; unless it could not read a header.
MoovWasLast ==
  /\ source[Len(source) - moovSize + 1].type = "moov"
  /\ source[Len(source) - moovSize + 1].at = 0

WritesOnlyWhenMoovLast == [][disk' # disk /\ ~ unread => MoovWasLast]_vars

\* A request that finds such a file is done with it some time.
RequestEnds == pc # "idle" ~> pc = "idle"

-----------------------------------------------------------------------------
(* What the documentation says, and the code does not do.                  *)

\* README.rst: with fix_mp4 the "mp4 file will be fix automatically".
FixedIsComplete == pc = "fixed" /\ FtypFirst => disk = Desired
=============================================================================
