-------------------------- MODULE FastStart_proof ---------------------------
(***************************************************************************)
(* Theorems about FastStart, for files of any layout and size, any number  *)
(* of requests and crashes, and failures at any point.                     *)
(***************************************************************************)
EXTENDS FastStart, SequenceTheorems, WellFoundedInduction, TLAPS

-----------------------------------------------------------------------------
(* The operators on cells.                                                 *)

USE DEF CellSeq

LEMMA ReadAtFacts ==
  ASSUME disk \in CellSeq, NEW p \in Nat, NEW n \in Nat
  PROVE  /\ ReadAt(p, n) \in CellSeq
         /\ Len(ReadAt(p, n)) <= n
         /\ p + n <= Len(disk) => Len(ReadAt(p, n)) = n
         /\ \A k \in 1 .. Len(ReadAt(p, n)) :
              p + k <= Len(disk) /\ ReadAt(p, n)[k] = disk[p + k]
<1> DEFINE e == IF p + n <= Len(disk) THEN p + n ELSE Len(disk)
<1>1. e \in Nat /\ e <= p + n /\ e <= Len(disk)
  OBVIOUS
<1>2. \A k \in p + 1 .. e : disk[k] \in CellType
  BY <1>1
<1>3. /\ SubSeq(disk, p + 1, e) \in CellSeq
      /\ Len(SubSeq(disk, p + 1, e)) = IF p + 1 <= e THEN e - (p + 1) + 1 ELSE 0
      /\ \A k \in 1 .. e - (p + 1) + 1 : SubSeq(disk, p + 1, e)[k] = disk[p + 1 + k - 1]
  <2> HIDE DEF e
  <2> QED BY <1>1, <1>2, SubSeqProperties
<1>4. ReadAt(p, n) = SubSeq(disk, p + 1, e)
  BY DEF ReadAt
<1>5. Len(disk) \in Nat /\ (p + n <= Len(disk) => e = p + n)
  OBVIOUS
<1> HIDE DEF e
<1>6. Len(ReadAt(p, n)) <= n /\ (p + n <= Len(disk) => Len(ReadAt(p, n)) = n)
  BY <1>1, <1>3, <1>4, <1>5
<1>7. ASSUME NEW k \in 1 .. Len(ReadAt(p, n))
      PROVE  p + k <= Len(disk) /\ ReadAt(p, n)[k] = disk[p + k]
  BY <1>1, <1>3, <1>4, <1>5
<1> QED BY <1>3, <1>4, <1>6, <1>7

\* Writing within the file, or at its end.
LEMMA OverwriteFacts ==
  ASSUME disk \in CellSeq, wpos \in 0 .. Len(disk),
         NEW cells \in CellSeq
  PROVE  /\ Overwrite(cells) \in CellSeq
         /\ Len(Overwrite(cells)) = IF wpos + Len(cells) > Len(disk)
                                    THEN wpos + Len(cells) ELSE Len(disk)
         /\ \A k \in 1 .. Len(Overwrite(cells)) :
              Overwrite(cells)[k] = IF k \in wpos + 1 .. wpos + Len(cells)
                                    THEN cells[k - wpos] ELSE disk[k]
<1> DEFINE n == IF wpos + Len(cells) > Len(disk) THEN wpos + Len(cells) ELSE Len(disk)
           f(k) == IF k \in wpos + 1 .. wpos + Len(cells) THEN cells[k - wpos] ELSE disk[k]
<1>1. n \in Nat
  OBVIOUS
<1>2. \A k \in 1 .. n : f(k) \in CellType
  OBVIOUS
<1>3. Overwrite(cells) = [k \in 1 .. n |-> f(k)]
  BY DEF Overwrite
<1> HIDE DEF n, f
<1>4. Overwrite(cells) \in CellSeq /\ Len(Overwrite(cells)) = n
  BY <1>1, <1>2, <1>3
<1>5. \A k \in 1 .. n : Overwrite(cells)[k] = f(k)
  BY <1>3
<1> QED BY <1>4, <1>5 DEF n, f

LEMMA RefillFacts ==
  ASSUME NEW buffer \in CellSeq, NEW cells \in CellSeq,
         Len(cells) <= Len(buffer)
  PROVE  /\ Refill(buffer, cells) \in CellSeq
         /\ Len(Refill(buffer, cells)) = Len(buffer)
         /\ \A k \in 1 .. Len(cells) : Refill(buffer, cells)[k] = cells[k]
<1> DEFINE rest == SubSeq(buffer, Len(cells) + 1, Len(buffer))
<1>1. \A k \in Len(cells) + 1 .. Len(buffer) : buffer[k] \in CellType
  OBVIOUS
<1>2. rest \in CellSeq
      /\ Len(rest) = IF Len(cells) + 1 <= Len(buffer)
                     THEN Len(buffer) - (Len(cells) + 1) + 1 ELSE 0
  BY <1>1, SubSeqProperties
<1>3. Refill(buffer, cells) = cells \o rest
  BY DEF Refill
<1> HIDE DEF rest
<1> QED BY <1>2, <1>3

\* The first n cells of a buffer.
LEMMA BlockFacts ==
  ASSUME NEW buffer \in CellSeq, NEW n \in Nat, n <= Len(buffer)
  PROVE  /\ SubSeq(buffer, 1, n) \in CellSeq
         /\ Len(SubSeq(buffer, 1, n)) = n
         /\ \A k \in 1 .. n : SubSeq(buffer, 1, n)[k] = buffer[k]
<1>1. \A k \in 1 .. n : buffer[k] \in CellType
  OBVIOUS
<1>2. /\ SubSeq(buffer, 1, n) \in CellSeq
      /\ Len(SubSeq(buffer, 1, n)) = IF 1 <= n THEN n - 1 + 1 ELSE 0
      /\ \A k \in 1 .. n - 1 + 1 : SubSeq(buffer, 1, n)[k] = buffer[1 + k - 1]
  BY <1>1, SubSeqProperties
<1> QED BY <1>1, <1>2

LEMMA ConcatFacts ==
  ASSUME NEW s \in CellSeq, NEW t \in CellSeq
  PROVE  /\ s \o t \in CellSeq /\ Len(s \o t) = Len(s) + Len(t)
         /\ \A k \in 1 .. Len(s) : (s \o t)[k] = s[k]
         /\ \A k \in 1 .. Len(t) : (s \o t)[Len(s) + k] = t[k]
OBVIOUS

LEMMA FreshFacts ==
  ASSUME NEW n \in Nat
  PROVE  Fresh(n) \in CellSeq /\ Len(Fresh(n)) = n
<1> DEFINE c == [type |-> "other", size |-> 2, atom |-> 0, at |-> 1, patched |-> FALSE]
<1>1. c \in CellType
  BY DEF CellType
<1>2. Fresh(n) = [k \in 1 .. n |-> c]
  BY DEF Fresh
<1> HIDE DEF c
<1> QED BY <1>1, <1>2

\* A cell of the moved moov.
PatchedCell(c) == [c EXCEPT !.patched = TRUE]

LEMMA PatchedFacts ==
  ASSUME NEW cells \in CellSeq
  PROVE  /\ Patched(cells) \in CellSeq
         /\ Len(Patched(cells)) = Len(cells)
         /\ \A k \in 1 .. Len(cells) :
              Patched(cells)[k] = PatchedCell(cells[k])
<1> DEFINE f(k) == [cells[k] EXCEPT !.patched = TRUE]
<1>1. ASSUME NEW k \in 1 .. Len(cells) PROVE f(k) \in CellType
  <2> DEFINE c == cells[k]
             d == [c EXCEPT !.patched = TRUE]
  <2>1. c \in CellType
    OBVIOUS
  <2> HIDE DEF c
  <2>2. c \in [type : QtAtoms \cup {"other"}, size : Nat, atom : Nat, at : Nat,
               patched : BOOLEAN] /\ c.at < c.size
    BY <2>1 DEF CellType
  <2>3. d \in [type : QtAtoms \cup {"other"}, size : Nat, atom : Nat, at : Nat,
               patched : BOOLEAN] /\ d.at = c.at /\ d.size = c.size
    BY <2>2
  <2>4. d \in CellType
    <3> HIDE DEF d
    <3> QED BY <2>2, <2>3 DEF CellType
  <2> QED BY <2>4 DEF c
<1>2. Patched(cells) = [k \in 1 .. Len(cells) |-> f(k)]
  BY DEF Patched
<1> HIDE DEF f
<1>3. /\ Patched(cells) \in CellSeq
      /\ Len(Patched(cells)) = Len(cells)
      /\ \A k \in 1 .. Len(cells) : Patched(cells)[k] = f(k)
  BY <1>1, <1>2
<1> QED BY <1>3 DEF f, PatchedCell

\* A file that is laid out from a sequence of atoms is a sequence of cells.
\* Cells is defined by recursion on the number of atoms; that the recursion
\* has a value, and what its type is, follow by taking the first atom at which
\* they fail.
LEMMA SmallestNat ==
  ASSUME NEW S, S \subseteq Nat, S # {}
  PROVE  \E m \in S : \A n \in S : m <= n
<1>1. PICK m \in S : \A n \in S : ~ (<<n, m>> \in OpToRel(<, Nat))
  BY WFMin, NatLessThanWellFounded
<1>2. \A n \in S : ~ (n < m)
  BY <1>1 DEF OpToRel
<1> QED BY <1>2

\* A property of the numbers up to n, given as the set of those that have it,
\* holds of all of them if it holds of 0 and passes from each to the next.
LEMMA UpTo ==
  ASSUME NEW n \in Nat, NEW S, 0 \in S,
         \A j \in 1 .. n : j - 1 \in S => j \in S
  PROVE  \A j \in 0 .. n : j \in S
<1> DEFINE Bad == {j \in 0 .. n : j \notin S}
<1> SUFFICES ASSUME Bad # {} PROVE FALSE
  OBVIOUS
<1>1. Bad \subseteq Nat
  OBVIOUS
<1>2. PICK m \in Bad : \A j \in Bad : m <= j
  <2> HIDE DEF Bad
  <2> QED BY <1>1, SmallestNat
<1>3. m # 0 /\ m - 1 \notin Bad
  BY <1>2
<1> QED BY <1>2, <1>3

LEMMA CellsType ==
  ASSUME NEW l, LayoutOK(l)
  PROVE  Cells(l) \in CellSeq
<1> DEFINE atom(j) == [k \in 1 .. l[j].size |-> Cell(j, l, k - 1)]
           step(g, j) == IF j = 0 THEN <<>> ELSE g[j - 1] \o atom(j)
           Defined == {n \in Nat : \E g : g = [j \in 0 .. n |-> step(g, j)]}
           from == CHOOSE g : g = [j \in 0 .. Len(l) |-> step(g, j)]
           Typed == {n \in Nat : from[n] \in CellSeq}
<1>1. Len(l) \in Nat
  BY DEF LayoutOK
<1>2. ASSUME NEW j \in 1 .. Len(l) PROVE atom(j) \in CellSeq
  <2>1. l[j] \in [type : QtAtoms \cup {"other"}, size : Nat \ {0}]
    <3> DEFINE T == [type : QtAtoms \cup {"other"}, size : Nat \ {0}]
    <3>1. l \in Seq(T)
      BY DEF LayoutOK
    <3> HIDE DEF T
    <3>2. l[j] \in T
      BY <3>1
    <3> QED BY <3>2 DEF T
  <2>2. \A k \in 1 .. l[j].size : Cell(j, l, k - 1) \in CellType
    BY <2>1 DEF Cell, CellType
  <2> QED BY <2>1, <2>2
<1>3. Len(l) \in Defined
  <2>1. 0 \in Defined
    <3>1. [j \in 0 .. 0 |-> <<>>] = [j \in 0 .. 0 |-> step([i \in 0 .. 0 |-> <<>>], j)]
      OBVIOUS
    <3> QED BY <3>1
  <2>2. ASSUME NEW n \in 1 .. Len(l), n - 1 \in Defined PROVE n \in Defined
    <3>1. PICK g : g = [j \in 0 .. n - 1 |-> step(g, j)]
      BY <2>2
    <3> DEFINE h == [j \in 0 .. n |-> IF j = n THEN g[n - 1] \o atom(n) ELSE g[j]]
    <3>2. ASSUME NEW j \in 0 .. n PROVE h[j] = step(h, j)
      <4> HIDE DEF atom
      <4>1. CASE j = n
        <5>1. h[n] = g[n - 1] \o atom(n) /\ h[n - 1] = g[n - 1] /\ n # 0
          OBVIOUS
        <5> HIDE DEF h
        <5> QED BY <4>1, <5>1
      <4>2. CASE j # n
        <5>1. j \in 0 .. n - 1
          BY <4>2
        <5>2. g[j] = step(g, j)
          <6> HIDE DEF step
          <6> QED BY <3>1, <5>1
        <5>3. h[j] = g[j] /\ (j # 0 => h[j - 1] = g[j - 1])
          BY <5>1
        <5> HIDE DEF h
        <5> QED BY <5>2, <5>3
      <4> QED BY <4>1, <4>2
    <3>3. DOMAIN h = 0 .. n
      OBVIOUS
    <3>4. h = [j \in 0 .. n |-> h[j]]
      OBVIOUS
    <3> HIDE DEF h, step
    <3>5. h = [j \in 0 .. n |-> step(h, j)]
      BY <3>2, <3>4
    <3> QED BY <3>5
  <2> HIDE DEF Defined
  <2>3. \A j \in 0 .. Len(l) : j \in Defined
    BY <1>1, <2>1, <2>2, UpTo
  <2> QED BY <1>1, <2>3
<1>4. from = [j \in 0 .. Len(l) |-> step(from, j)]
  <2> HIDE DEF step
  <2> QED BY <1>3
<1>5. Cells(l) = from[Len(l)]
  BY DEF Cells
<1> HIDE DEF from, atom
<1>6. Len(l) \in Typed
  <2>1. 0 \in Typed
    BY <1>1, <1>4
  <2>2. ASSUME NEW n \in 1 .. Len(l), n - 1 \in Typed PROVE n \in Typed
    <3>1. from[n] = step(from, n)
      <4> HIDE DEF step
      <4> QED BY <1>1, <1>4
    <3>2. from[n] = from[n - 1] \o atom(n) /\ n \in Nat
      BY <1>1, <3>1
    <3>3. from[n - 1] \in CellSeq /\ atom(n) \in CellSeq
      BY <1>2, <2>2
    <3>4. from[n] \in CellSeq
      <4> DEFINE x == from[n - 1]
                 y == atom(n)
      <4>1. x \in CellSeq /\ y \in CellSeq /\ from[n] = x \o y
        BY <3>2, <3>3
      <4> HIDE DEF x, y
      <4> QED BY <4>1
    <3> QED BY <3>2, <3>4
  <2> HIDE DEF Typed
  <2>3. \A j \in 0 .. Len(l) : j \in Typed
    BY <1>1, <2>1, <2>2, UpTo
  <2> QED BY <1>1, <2>3
<1> QED BY <1>5, <1>6

LEMMA CellSeqLen == \A s \in CellSeq : Len(s) \in Nat
OBVIOUS

HIDE DEF CellSeq

-----------------------------------------------------------------------------
(* Types.                                                                  *)

Bounded ==
  /\ requests \in 0 .. MaxRequests /\ crashes \in 0 .. MaxCrashes
  /\ pc \in {"idle", "scan", "scanned", "open", "loop", "read moov", "write temp",
             "read temp", "fixed"}
  /\ atom_type \in QtAtoms \cup {"other", "none"} /\ unread \in BOOLEAN

Numbers ==
  /\ pos \in Nat /\ wpos \in Nat
  /\ atom_size \in Nat /\ ftyp_atom_size \in Nat /\ moovSize \in Nat
  /\ moov_atom_size \in Nat /\ last_offset \in Nat

Contents ==
  /\ disk \in CellSeq /\ source \in CellSeq /\ ftyp_atom \in CellSeq
  /\ moov_atom \in CellSeq /\ temp_buf \in CellSeq

\* The buffers are as large as the moov atom, no more of them is used than
\* they hold, and the writer leaves no hole in the file.
Buffers ==
  /\ Len(moov_atom) = moovSize /\ Len(temp_buf) = moovSize
  /\ moov_atom_size <= moovSize
  /\ wpos <= Len(disk)

TypeInv == Bounded /\ Numbers /\ Contents /\ Buffers

LEMMA TypeInvOK == TypeInv => TypeOK
BY DEF TypeInv, Bounded, Numbers, Contents, TypeOK

LEMMA TypeInvInit == Init => TypeInv
<1> SUFFICES ASSUME Init PROVE TypeInv
  OBVIOUS
<1>1. PICK l \in Layouts, n \in Truncations : disk = Truncated(Cells(l), n)
  BY DEF Init
<1>2. Cells(l) \in CellSeq
  BY FastStartAssumption, CellsType
<1>3. disk \in CellSeq
  <2> DEFINE c == Cells(l)
  <2> USE DEF CellSeq
  <2>1. c \in CellSeq /\ n \in Nat /\ disk = SubSeq(c, 1, Len(c) - n)
    BY <1>1, <1>2, FastStartAssumption DEF Truncated
  <2> HIDE DEF c
  <2>2. \A k \in 1 .. Len(c) - n : c[k] \in CellType
    BY <2>1
  <2> QED BY <2>1, <2>2, SubSeqProperties
<1>4. <<>> \in CellSeq /\ Len(<<>>) = 0
  BY DEF CellSeq
<1>5. Bounded
  <2>1. requests \in 0 .. MaxRequests /\ crashes \in 0 .. MaxCrashes
    BY FastStartAssumption DEF Init
  <2>2. unread \in BOOLEAN
    BY DEF Init
  <2> QED BY <2>1, <2>2 DEF Init, Bounded
<1>6. Numbers
  BY DEF Init, Numbers
<1>7. Contents
  BY <1>3, <1>4 DEF Init, Contents
<1>8. Buffers
  <2>1. Len(disk) \in Nat
    BY <1>3, CellSeqLen
  <2> QED BY <1>4, <2>1 DEF Init, Buffers
<1> QED BY <1>5, <1>6, <1>7, <1>8 DEF TypeInv

LEMMA HeaderType ==
  ASSUME Numbers, Contents, AtHeader
  PROVE  Header.type \in QtAtoms \cup {"other"} /\ Header.size \in Nat
<1>1. Header \in CellType
  <2>1. disk \in CellSeq /\ pos \in Nat /\ pos < Len(disk)
    BY DEF Numbers, Contents, AtHeader
  <2>2. pos + 1 \in 1 .. Len(disk)
    BY <2>1, CellSeqLen
  <2>3. \A k \in 1 .. Len(disk) : disk[k] \in CellType
    BY <2>1 DEF CellSeq
  <2> QED BY <2>2, <2>3 DEF Header
<1> QED BY <1>1 DEF CellType

LEMMA TakeType ==
  ASSUME Numbers
  PROVE  /\ Take \in Nat /\ Take <= moov_atom_size /\ Take <= last_offset
         /\ last_offset - Take \in Nat
BY DEF Numbers, Take

\* Writing a block, from either buffer or ftyp.
LEMMA WriteType ==
  ASSUME Numbers, Contents, Buffers, NEW block \in CellSeq
  PROVE  /\ Overwrite(block) \in CellSeq
         /\ wpos + Len(block) \in 0 .. Len(Overwrite(block))
         /\ Len(disk) <= Len(Overwrite(block))
<1>1. disk \in CellSeq /\ wpos \in 0 .. Len(disk) /\ Len(block) \in Nat
  BY CellSeqLen DEF Numbers, Contents, Buffers
<1> QED BY <1>1, OverwriteFacts, CellSeqLen

\* What is read into a buffer.
LEMMA ReadType ==
  ASSUME Contents, NEW p \in Nat, NEW n \in Nat
  PROVE  /\ ReadAt(p, n) \in CellSeq /\ p + Len(ReadAt(p, n)) \in Nat
         /\ Len(ReadAt(p, n)) <= n
<1>1. disk \in CellSeq
  BY DEF Contents
<1>2. ReadAt(p, n) \in CellSeq /\ Len(ReadAt(p, n)) <= n
  BY <1>1, ReadAtFacts
<1>3. Len(ReadAt(p, n)) \in Nat
  BY <1>2, CellSeqLen
<1> QED BY <1>2, <1>3

LEMMA LoadType ==
  ASSUME Numbers, Contents
  PROVE  /\ MoovAt \in Nat /\ FromEnd \in Int
         /\ Patched(Loaded) \in CellSeq /\ Len(Patched(Loaded)) = atom_size
         /\ Refill(Fresh(atom_size), ReadAt(ftyp_atom_size, atom_size)) \in CellSeq
         /\ Len(Refill(Fresh(atom_size), ReadAt(ftyp_atom_size, atom_size))) = atom_size
<1>1. /\ disk \in CellSeq /\ Len(disk) \in Nat /\ pos \in Nat
      /\ atom_size \in Nat /\ ftyp_atom_size \in Nat
  BY CellSeqLen DEF Numbers, Contents
<1>2. MoovAt \in Nat /\ FromEnd \in Int
  BY <1>1 DEF MoovAt, FromEnd, Seek
<1>3. Fresh(atom_size) \in CellSeq /\ Len(Fresh(atom_size)) = atom_size
  BY <1>1, FreshFacts
<1>4. \A p \in Nat :
        /\ Refill(Fresh(atom_size), ReadAt(p, atom_size)) \in CellSeq
        /\ Len(Refill(Fresh(atom_size), ReadAt(p, atom_size))) = atom_size
  BY <1>1, <1>3, ReadAtFacts, RefillFacts
<1>5. Loaded \in CellSeq /\ Len(Loaded) = atom_size
  BY <1>2, <1>4 DEF Loaded
<1> QED BY <1>1, <1>2, <1>4, <1>5, PatchedFacts

LEMMA RefillType ==
  ASSUME Numbers, Contents, Buffers,
         NEW buffer \in CellSeq, Len(buffer) = moovSize
  PROVE  /\ Refill(buffer, ReadAt(pos, Take)) \in CellSeq
         /\ Len(Refill(buffer, ReadAt(pos, Take))) = moovSize
         /\ pos + Len(ReadAt(pos, Take)) \in Nat
<1> DEFINE block == ReadAt(pos, Take)
<1>1. /\ pos \in Nat /\ Take \in Nat /\ Take <= moovSize /\ moovSize \in Nat
  <2>1. /\ Take \in Nat /\ Take <= moov_atom_size /\ moov_atom_size <= moovSize
        /\ moov_atom_size \in Nat /\ moovSize \in Nat
    BY TakeType DEF Numbers, Buffers
  <2> QED BY <2>1 DEF Numbers
<1>2. block \in CellSeq /\ Len(block) <= Take /\ pos + Len(block) \in Nat
  BY <1>1, ReadType
<1>3. Len(block) \in Nat
  BY <1>2, CellSeqLen
<1> HIDE DEF block
<1>4. Len(block) <= Len(buffer)
  BY <1>1, <1>2, <1>3
<1>5. Refill(buffer, block) \in CellSeq /\ Len(Refill(buffer, block)) = Len(buffer)
  BY <1>2, <1>4, RefillFacts
<1> QED BY <1>2, <1>5 DEF block

\* A header that could not be read.
LEMMA ScanAsType ==
  ASSUME Numbers, Contents, NEW type, NEW size \in Nat, ScanAs(type, size)
  PROVE  /\ pos' \in Nat /\ atom_size' \in Nat /\ ftyp_atom_size' \in Nat
         /\ ftyp_atom' \in CellSeq
         /\ Len(ftyp_atom) <= ftyp_atom_size => Len(ftyp_atom') <= ftyp_atom_size'
<1>1. /\ pos \in Nat /\ ftyp_atom_size \in Nat /\ ftyp_atom \in CellSeq
  BY DEF Numbers, Contents
<1>2. Seek(pos - 1) \in Nat /\ Seek(pos + size - 1) \in Nat
  BY <1>1 DEF Seek
<1>3. CASE type = "ftyp"
  <2>1. /\ ReadAt(Seek(pos - 1), size) \in CellSeq
        /\ Seek(pos - 1) + Len(ReadAt(Seek(pos - 1), size)) \in Nat
        /\ Len(ReadAt(Seek(pos - 1), size)) <= size
    BY <1>2, ReadType
  <2> QED BY <1>3, <2>1 DEF ScanAs
<1>4. CASE type # "ftyp"
  BY <1>1, <1>2, <1>4 DEF ScanAs
<1> QED BY <1>3, <1>4

\* The actions that scan the file.
LEMMA ScanType ==
  ASSUME Numbers, Contents, Buffers,
         Scan \/ Begin \/ NotLast \/ Compressed \/ LoadFails
  PROVE  Numbers' /\ Contents' /\ Buffers'
<1>1. /\ disk' = disk /\ UNCHANGED <<copying, history>>
  BY DEF Scan, ScanFtyp, ScanAtom, ScanOther, ScanGarbage, ScanUnread, ScanEnd, Begin,
         NotLast, Compressed, LoadFails, file, copying, history
<1>2. Buffers'
  BY <1>1 DEF Buffers, copying, history
<1>3. pos' \in Nat /\ atom_size' \in Nat /\ ftyp_atom_size' \in Nat /\ ftyp_atom' \in CellSeq
  <2>0. /\ pos \in Nat /\ atom_size \in Nat /\ ftyp_atom_size \in Nat
        /\ ftyp_atom \in CellSeq
    BY DEF Numbers, Contents
  <2>1. CASE ScanFtyp
    <3>1. Header.size \in Nat
      BY <2>1, HeaderType DEF ScanFtyp
    <3>2. ReadAt(pos, Header.size) \in CellSeq /\ pos + Len(ReadAt(pos, Header.size)) \in Nat
      BY <2>0, <3>1, ReadType
    <3> QED BY <2>1, <3>1, <3>2 DEF ScanFtyp
  <2>2. CASE ScanAtom \/ ScanOther
    <3>1. AtHeader
      BY <2>2 DEF ScanAtom, ScanOther
    <3>2. Header.size \in Nat
      BY <3>1, HeaderType
    <3> QED BY <2>0, <2>2, <3>2 DEF ScanAtom, ScanOther
  <2>3. CASE ScanGarbage
    <3>1. pos' \in 0 .. Len(disk)
      BY <2>3 DEF ScanGarbage
    <3>2. pos' \in Nat
      BY <3>1
    <3> QED BY <2>0, <2>3, <3>2 DEF ScanGarbage
  <2>4. CASE ScanEnd \/ NotLast
    BY <2>0, <2>4 DEF ScanEnd, NotLast, file, scanned
  <2>5. CASE Begin
    <3>1. <<>> \in CellSeq
      BY DEF CellSeq
    <3> QED BY <2>0, <2>5, <3>1 DEF Begin, file
  <2>6. CASE Compressed
    <3>1. MoovAt + Len(ReadAt(MoovAt, atom_size)) \in Nat
      BY <2>0, LoadType, ReadType
    <3> QED BY <2>0, <2>6, <3>1 DEF Compressed, scanned
  <2>7. CASE LoadFails
    <3>1. /\ MoovAt \in Nat /\ MoovAt + Len(ReadAt(MoovAt, atom_size)) \in Nat
          /\ ftyp_atom_size + Len(ReadAt(ftyp_atom_size, atom_size)) \in Nat
      BY <2>0, LoadType, ReadType
    <3> QED BY <2>0, <2>7, <3>1 DEF LoadFails, scanned
  <2>8. CASE ScanUnread
    <3>1. ASSUME NEW type, NEW size \in Nat, ScanAs(type, size)
          PROVE  pos' \in Nat /\ atom_size' \in Nat /\ ftyp_atom_size' \in Nat
                 /\ ftyp_atom' \in CellSeq
      BY <2>0, <3>1, ScanAsType
    <3>2. \A size \in 1 .. Len(disk) : size \in Nat
      OBVIOUS
    <3> QED BY <2>0, <2>8, <3>1, <3>2 DEF ScanUnread
  <2> QED BY <2>1, <2>2, <2>3, <2>4, <2>5, <2>6, <2>7, <2>8 DEF Scan
<1>4. Numbers' /\ Contents'
  BY <1>1, <1>3 DEF Numbers, Contents, copying, history
<1> QED BY <1>2, <1>4

LEMMA LoadedType ==
  ASSUME Numbers, Contents, Load
  PROVE  Numbers' /\ Contents' /\ Buffers'
<1>1. (FromEnd - (ftyp_atom_size + atom_size)) % Modulus \in Nat
  <2> DEFINE x == FromEnd - (ftyp_atom_size + atom_size)
  <2>1. x \in Int
    BY LoadType DEF Numbers
  <2> HIDE DEF x
  <2>2. x % Modulus \in Nat
    BY <2>1, FastStartAssumption
  <2> QED BY <2>2 DEF x
<1>2. Len(disk) \in Nat /\ ftyp_atom_size + atom_size \in Nat
      /\ atom_size \in Nat /\ ftyp_atom_size \in Nat
  BY CellSeqLen DEF Numbers, Contents
<1>3. Numbers'
  BY <1>1, <1>2 DEF Load, Numbers, scanned
<1>4. Contents'
  BY LoadType DEF Load, Contents, scanned
<1>5. Buffers'
  BY <1>2, LoadType DEF Load, Buffers
<1> QED BY <1>3, <1>4, <1>5

LEMMA CopyType ==
  ASSUME Numbers, Contents, Buffers, Rewrite
  PROVE  Numbers' /\ Contents' /\ Buffers'
<1>0. UNCHANGED <<scanned, history>>
  BY DEF Rewrite, WriteFtyp, WriteMoov, ReadMoov, WriteTemp, ReadTemp, Fixed
<1>1. ASSUME NEW block \in CellSeq, disk' = Overwrite(block), wpos' = wpos + Len(block),
             UNCHANGED <<pos, moov_atom, temp_buf, moov_atom_size, last_offset>>
      PROVE  Numbers' /\ Contents' /\ Buffers'
  <2>1. /\ disk' \in CellSeq /\ wpos' \in 0 .. Len(disk')
    BY <1>1, WriteType
  <2>2. Len(disk') \in Nat /\ wpos' \in Nat /\ wpos' <= Len(disk')
    BY <2>1, CellSeqLen
  <2> QED BY <1>0, <1>1, <2>1, <2>2 DEF Numbers, Contents, Buffers, scanned, history
<1>2. CASE WriteFtyp
  <2>1. ftyp_atom \in CellSeq
    BY DEF Contents
  <2> QED BY <1>1, <1>2, <2>1 DEF WriteFtyp
<1>3. ASSUME NEW buffer \in CellSeq, Len(buffer) = moovSize
      PROVE  SubSeq(buffer, 1, moov_atom_size) \in CellSeq
  BY <1>3, BlockFacts DEF Numbers, Buffers
<1>4. CASE WriteMoov
  <2>1. SubSeq(moov_atom, 1, moov_atom_size) \in CellSeq
    BY <1>3 DEF Contents, Buffers
  <2> QED BY <1>1, <1>4, <2>1 DEF WriteMoov
<1>5. CASE WriteTemp
  <2>1. SubSeq(temp_buf, 1, moov_atom_size) \in CellSeq
    BY <1>3 DEF Contents, Buffers
  <2> QED BY <1>1, <1>5, <2>1 DEF WriteTemp
<1>6. ASSUME moov_atom_size' = Take, last_offset' = last_offset - Take
      PROVE  /\ moov_atom_size' \in Nat /\ moov_atom_size' <= moovSize
             /\ last_offset' \in Nat
  <2>1. /\ Take \in Nat /\ Take <= moov_atom_size /\ moov_atom_size <= moovSize
        /\ moov_atom_size \in Nat /\ moovSize \in Nat /\ last_offset - Take \in Nat
    BY TakeType DEF Numbers, Buffers
  <2> QED BY <1>6, <2>1
<1>7. CASE ReadMoov
  <2>1. moov_atom' \in CellSeq /\ Len(moov_atom') = moovSize /\ pos' \in Nat
    BY <1>7, RefillType DEF ReadMoov, Contents, Buffers
  <2>2. /\ moov_atom_size' \in Nat /\ moov_atom_size' <= moovSize
        /\ last_offset' \in Nat
    BY <1>6, <1>7 DEF ReadMoov
  <2>3. UNCHANGED <<disk, wpos, temp_buf>>
    BY <1>7 DEF ReadMoov
  <2> QED BY <1>0, <2>1, <2>2, <2>3 DEF Numbers, Contents, Buffers, scanned, history
<1>8. CASE ReadTemp
  <2>1. temp_buf' \in CellSeq /\ Len(temp_buf') = moovSize /\ pos' \in Nat
    BY <1>8, RefillType DEF ReadTemp, Contents, Buffers
  <2>2. /\ moov_atom_size' \in Nat /\ moov_atom_size' <= moovSize
        /\ last_offset' \in Nat
    BY <1>6, <1>8 DEF ReadTemp
  <2>3. UNCHANGED <<disk, wpos, moov_atom>>
    BY <1>8 DEF ReadTemp
  <2> QED BY <1>0, <2>1, <2>2, <2>3 DEF Numbers, Contents, Buffers, scanned, history
<1>9. CASE Fixed
  BY <1>0, <1>9 DEF Fixed, Numbers, Contents, Buffers, copying, scanned, history
<1> QED BY <1>2, <1>4, <1>5, <1>7, <1>8, <1>9 DEF Rewrite

LEMMA TypeInvNext == TypeInv /\ [Next]_vars => TypeInv'
<1> SUFFICES ASSUME TypeInv, [Next]_vars PROVE TypeInv'
  OBVIOUS
<1>0. Bounded /\ Numbers /\ Contents /\ Buffers
  BY DEF TypeInv
<1>1. Bounded'
  <2>0. Handle => UNCHANGED bounds
    BY DEF Handle, Scan, ScanFtyp, ScanAtom, ScanOther, ScanGarbage, ScanUnread, ScanEnd,
           NotLast, Compressed, LoadFails, Load, Rewrite, WriteFtyp, WriteMoov, ReadMoov, WriteTemp,
           ReadTemp, Fixed, Return, Fail
  <2>1. requests' \in 0 .. MaxRequests
    <3>1. requests' = requests \/ (requests < MaxRequests /\ requests' = requests + 1)
      <4>1. CASE Begin
        BY <4>1 DEF Begin
      <4>2. CASE Crash
        BY <4>2 DEF Crash, bounds
      <4>3. CASE Handle \/ UNCHANGED vars
        BY <2>0, <4>3 DEF vars, bounds
      <4> QED BY <4>1, <4>2, <4>3 DEF Next
    <3>2. requests \in 0 .. MaxRequests /\ MaxRequests \in Nat
      BY <1>0, FastStartAssumption DEF Bounded
    <3> QED BY <3>1, <3>2
  <2>2. crashes' \in 0 .. MaxCrashes
    <3>1. crashes' = crashes \/ (crashes < MaxCrashes /\ crashes' = crashes + 1)
      <4>1. CASE Crash
        BY <4>1 DEF Crash
      <4>2. CASE Begin
        BY <4>2 DEF Begin, bounds
      <4>3. CASE Handle \/ UNCHANGED vars
        BY <2>0, <4>3 DEF vars, bounds
      <4> QED BY <4>1, <4>2, <4>3 DEF Next
    <3>2. crashes \in 0 .. MaxCrashes /\ MaxCrashes \in Nat
      BY <1>0, FastStartAssumption DEF Bounded
    <3> QED BY <3>1, <3>2
  <2>3. pc' \in {"idle", "scan", "scanned", "open", "loop", "read moov", "write temp",
                 "read temp", "fixed"}
    BY <1>0 DEF Bounded, Next, Begin, Handle, Scan, ScanFtyp, ScanAtom,
           ScanOther, ScanGarbage, ScanUnread, ScanAs, ScanEnd, NotLast, Compressed,
           LoadFails, Load, Rewrite,
           WriteFtyp, WriteMoov, ReadMoov, WriteTemp, ReadTemp, Fixed, Return, Fail,
           Crash, vars
  <2>4. atom_type' \in QtAtoms \cup {"other", "none"}
    BY <1>0 DEF Bounded, Next, Begin, Handle, Scan, ScanFtyp, ScanAtom, QtAtoms,
           ScanOther, ScanGarbage, ScanUnread, ScanAs, ScanEnd, NotLast, Compressed,
           LoadFails, Load, Rewrite,
           WriteFtyp, WriteMoov, ReadMoov, WriteTemp, ReadTemp, Fixed, Return, Fail,
           Crash, vars, scanned
  <2>5. unread' \in BOOLEAN
    BY <1>0 DEF Bounded, Next, Begin, Handle, Scan, ScanFtyp, ScanAtom, QtAtoms,
           ScanOther, ScanGarbage, ScanUnread, ScanAs, ScanEnd, NotLast, Compressed,
           LoadFails, Load, Rewrite,
           WriteFtyp, WriteMoov, ReadMoov, WriteTemp, ReadTemp, Fixed, Return, Fail,
           Crash, vars, scanned
  <2> QED BY <2>1, <2>2, <2>3, <2>4, <2>5 DEF Bounded
<1>2. Numbers' /\ Contents' /\ Buffers'
  <2>1. CASE Scan \/ Begin \/ NotLast \/ Compressed \/ LoadFails
    BY <1>0, <2>1, ScanType
  <2>2. CASE Load
    BY <1>0, <2>2, LoadedType
  <2>3. CASE Rewrite
    BY <1>0, <2>3, CopyType
  <2>4. CASE Return \/ Fail \/ Crash \/ UNCHANGED vars
    <3>1. /\ pos' = pos \/ pos' = 0
          /\ UNCHANGED <<disk, scanned, copying, history>>
      BY <2>4 DEF Return, Fail, Crash, vars, file
    <3> QED BY <1>0, <3>1 DEF Numbers, Contents, Buffers, scanned, copying, history
  <2> QED BY <2>1, <2>2, <2>3, <2>4 DEF Next, Handle
<1> QED BY <1>1, <1>2 DEF TypeInv

\* Whatever the file, and wherever a request stops, the buffers of the next
\* one hold cells, the offsets are numbers, and no offset that wraps, no seek
\* that fails and no short read brings the rewriting out of its types.
THEOREM TypeCorrect == Spec => []TypeOK
BY TypeInvOK, TypeInvInit, TypeInvNext, PTL DEF Spec

-----------------------------------------------------------------------------
(* The reader stays ahead of the writer.                                   *)

\* What is kept of ftyp is no larger than its header says, and no file is as
\* large as the number at which last_offset wraps.
Sizes == Len(ftyp_atom) <= ftyp_atom_size /\ Len(disk) < Modulus

\* Before a block is written, what it will overwrite has been read.
Ahead ==
  Rewriting /\ pc # "fixed" /\ BodyHoldsMoov =>
    /\ Len(source) <= Len(disk)
    /\ pos + last_offset = Len(source) - moovSize
    /\ pc = "open" => /\ wpos = 0 /\ pos = ftyp_atom_size + moovSize
                      /\ moov_atom_size = moovSize
    /\ pc \in {"loop", "write temp"} => wpos + moov_atom_size <= pos
    /\ pc \in {"read moov", "read temp"} => wpos <= pos

AheadInv == TypeInv /\ Sizes /\ Ahead

LEMMA Lengths ==
  ASSUME Contents
  PROVE  Len(disk) \in Nat /\ Len(source) \in Nat /\ Len(ftyp_atom) \in Nat
BY CellSeqLen DEF Contents

LEMMA AheadInit == Init => AheadInv
<1> SUFFICES ASSUME Init PROVE AheadInv
  OBVIOUS
<1>1. TypeInv
  BY TypeInvInit
<1>2. Len(disk) < Modulus
  <2>1. PICK l \in Layouts, n \in Truncations : disk = Truncated(Cells(l), n)
    BY DEF Init
  <2> DEFINE c == Cells(l)
  <2>2. c \in CellSeq /\ n \in Nat /\ disk = SubSeq(c, 1, Len(c) - n)
    BY <2>1, FastStartAssumption, CellsType DEF Truncated
  <2>3. Len(c) < Modulus /\ Modulus \in Nat
    BY SizesAssumption, FastStartAssumption
  <2> HIDE DEF c
  <2>4. Len(c) \in Nat /\ \A k \in 1 .. Len(c) - n : c[k] \in CellType
    BY <2>2 DEF CellSeq
  <2>5. Len(disk) = IF 1 <= Len(c) - n THEN Len(c) - n - 1 + 1 ELSE 0
    BY <2>2, <2>4, SubSeqProperties
  <2> QED BY <2>2, <2>3, <2>4, <2>5, FastStartAssumption
<1>3. Len(ftyp_atom) <= ftyp_atom_size
  BY DEF Init
<1>4. Ahead
  BY DEF Init, Ahead, Rewriting
<1> QED BY <1>1, <1>2, <1>3, <1>4 DEF AheadInv, Sizes

\* Where there is room, a block is written whole, and the file stays as small
\* as the disk.
LEMMA WriteSize ==
  ASSUME TypeInv, Sizes, NEW block \in CellSeq, Room(Len(block))
  PROVE  Len(Overwrite(block)) < Modulus /\ Len(disk) <= Len(Overwrite(block))
<1>1. /\ disk \in CellSeq /\ wpos \in 0 .. Len(disk) /\ Len(block) \in Nat
      /\ Len(disk) \in Nat
  BY CellSeqLen DEF TypeInv, Numbers, Contents, Buffers
<1>2. Len(Overwrite(block)) = IF wpos + Len(block) > Len(disk)
                              THEN wpos + Len(block) ELSE Len(disk)
  BY <1>1, OverwriteFacts
<1>3. wpos + Len(block) <= DiskCells \/ wpos + Len(block) <= Len(disk)
  BY DEF Room
<1>4. Len(disk) < Modulus /\ DiskCells < Modulus /\ DiskCells \in Nat /\ Modulus \in Nat
  BY SizesAssumption, FastStartAssumption DEF Sizes
<1> QED BY <1>1, <1>2, <1>3, <1>4

\* The block a buffer holds.
LEMMA UsedBlock ==
  ASSUME TypeInv, NEW buffer \in CellSeq, Len(buffer) = moovSize
  PROVE  /\ SubSeq(buffer, 1, moov_atom_size) \in CellSeq
         /\ Len(SubSeq(buffer, 1, moov_atom_size)) = moov_atom_size
         /\ \A k \in 1 .. moov_atom_size :
              SubSeq(buffer, 1, moov_atom_size)[k] = buffer[k]
BY BlockFacts DEF TypeInv, Numbers, Buffers

LEMMA SizesNext == TypeInv /\ Sizes /\ [Next]_vars => Sizes'
<1> SUFFICES ASSUME TypeInv, Sizes, [Next]_vars PROVE Sizes'
  OBVIOUS
<1>0. Len(ftyp_atom) <= ftyp_atom_size /\ Len(disk) < Modulus
  BY DEF Sizes
<1>1. ASSUME NEW block \in CellSeq, Room(Len(block)), disk' = Overwrite(block),
             UNCHANGED scanned
      PROVE  Sizes'
  BY <1>0, <1>1, WriteSize DEF Sizes, scanned
<1>2. CASE WriteFtyp
  <2>1. ftyp_atom \in CellSeq
    BY DEF TypeInv, Contents
  <2> QED BY <1>1, <1>2, <2>1 DEF WriteFtyp
<1>3. CASE WriteMoov
  <2> DEFINE block == SubSeq(moov_atom, 1, moov_atom_size)
  <2>1. block \in CellSeq /\ Len(block) = moov_atom_size
    BY UsedBlock DEF TypeInv, Contents, Buffers
  <2> QED BY <1>1, <1>3, <2>1 DEF WriteMoov
<1>4. CASE WriteTemp
  <2> DEFINE block == SubSeq(temp_buf, 1, moov_atom_size)
  <2>1. block \in CellSeq /\ Len(block) = moov_atom_size
    BY UsedBlock DEF TypeInv, Contents, Buffers
  <2> QED BY <1>1, <1>4, <2>1 DEF WriteTemp
<1>5. CASE ScanFtyp
  <2>1. Header.size \in Nat /\ pos \in Nat
    BY <1>5, HeaderType DEF ScanFtyp, TypeInv, Numbers
  <2>2. Len(ReadAt(pos, Header.size)) <= Header.size
    BY <2>1, ReadType DEF TypeInv
  <2> QED BY <1>0, <1>5, <2>2 DEF ScanFtyp, Sizes
<1>6. CASE Begin
  <2>1. Len(<<>>) <= 0
    OBVIOUS
  <2> QED BY <1>0, <1>6, <2>1 DEF Begin, Sizes, file
<1>7. CASE \/ ScanAtom \/ ScanOther \/ ScanGarbage \/ ScanEnd \/ NotLast \/ Compressed
           \/ LoadFails \/ Load \/ ReadMoov \/ ReadTemp \/ Fixed \/ Return \/ Fail \/ Crash
           \/ UNCHANGED vars
  <2>1. UNCHANGED <<disk, ftyp_atom, ftyp_atom_size>>
    BY <1>7 DEF ScanAtom, ScanOther, ScanGarbage, ScanEnd, NotLast, Compressed, LoadFails, Load,
           ReadMoov, ReadTemp, Fixed, Return, Fail, Crash, vars, file, scanned
  <2> QED BY <1>0, <2>1 DEF Sizes
<1>8. CASE ScanUnread
  <2>1. disk' = disk
    BY <1>8 DEF ScanUnread
  <2>2. ASSUME NEW type, NEW size \in Nat, ScanAs(type, size)
        PROVE  Len(ftyp_atom') <= ftyp_atom_size'
    BY <1>0, <2>2, ScanAsType DEF TypeInv
  <2>3. atom_size \in Nat /\ \A size \in 1 .. Len(disk) : size \in Nat
    BY DEF TypeInv, Numbers
  <2>4. Len(ftyp_atom') <= ftyp_atom_size'
    BY <1>8, <2>2, <2>3 DEF ScanUnread
  <2> QED BY <1>0, <2>1, <2>4 DEF Sizes
<1> QED BY <1>2, <1>3, <1>4, <1>5, <1>6, <1>7, <1>8 DEF Next, Handle, Scan, Rewrite

\* Loading: what is left to be read is what lies between the two buffers and
\* moov; it is no negative number that wraps.
LEMMA AheadLoad == AheadInv /\ Load => Ahead'
<1> SUFFICES ASSUME AheadInv, Load, BodyHoldsMoov' PROVE Ahead'
  BY DEF Ahead
<1>1. /\ Len(disk) \in Nat /\ atom_size \in Nat /\ ftyp_atom_size \in Nat
      /\ Len(disk) < Modulus /\ Modulus \in Nat
  BY Lengths, FastStartAssumption DEF AheadInv, TypeInv, Numbers, Sizes
<1>2. ftyp_atom_size + 2 * atom_size <= Len(disk)
  BY DEF BodyHoldsMoov, Load, scanned
<1>3. FromEnd = Len(disk) - atom_size
  BY <1>1, <1>2 DEF FromEnd
<1> DEFINE x == FromEnd - (ftyp_atom_size + atom_size)
<1>4. x = Len(disk) - atom_size - (ftyp_atom_size + atom_size)
  BY <1>3
<1>5. x \in Nat /\ x < Modulus
  BY <1>1, <1>2, <1>4
<1>6. x % Modulus = x
  <2> HIDE DEF x
  <2> QED BY <1>1, <1>5
<1>7. /\ pos' = ftyp_atom_size + atom_size /\ last_offset' = x /\ wpos' = 0
      /\ source' = disk /\ disk' = disk /\ moovSize' = atom_size /\ pc' = "open"
      /\ moov_atom_size' = atom_size /\ ftyp_atom_size' = ftyp_atom_size
  BY <1>6 DEF Load, scanned
<1>8. pos' + last_offset' = Len(source') - moovSize'
  <2> HIDE DEF x
  <2> QED BY <1>1, <1>4, <1>7
<1>9. Len(source') <= Len(disk')
  BY <1>1, <1>7
<1> QED BY <1>7, <1>8, <1>9 DEF Ahead

\* Reading the next block: it is there, whole.
LEMMA ReadWhole ==
  ASSUME AheadInv, Rewriting, pc # "fixed", BodyHoldsMoov
  PROVE  /\ Len(ReadAt(pos, Take)) = Take
         /\ pos + Take <= Len(source) - moovSize
<1>1. /\ pos \in Nat /\ Take \in Nat /\ Take <= last_offset /\ last_offset \in Nat
      /\ moovSize \in Nat /\ Len(source) \in Nat /\ Len(disk) \in Nat /\ disk \in CellSeq
  BY TakeType, Lengths DEF AheadInv, TypeInv, Numbers, Contents
<1>2. pos + last_offset = Len(source) - moovSize /\ Len(source) <= Len(disk)
  BY DEF AheadInv, Ahead
<1>3. pos + Take <= Len(source) - moovSize /\ pos + Take <= Len(disk)
  BY <1>1, <1>2
<1> QED BY <1>1, <1>3, ReadAtFacts

LEMMA AheadNext == AheadInv /\ [Next]_vars => AheadInv'
<1> SUFFICES ASSUME AheadInv, [Next]_vars PROVE AheadInv'
  OBVIOUS
<1>1. TypeInv' /\ Sizes'
  BY TypeInvNext, SizesNext DEF AheadInv
<1>2. CASE Load
  BY <1>1, <1>2, AheadLoad DEF AheadInv
<1>3. CASE Rewrite
  <2> SUFFICES ASSUME Rewriting', pc' # "fixed", BodyHoldsMoov' PROVE Ahead'
    BY <1>1 DEF AheadInv, Ahead
  <2>1. UNCHANGED <<scanned, history>> /\ pc \in {"open", "loop", "read moov", "write temp",
                                                  "read temp"}
    BY <1>3 DEF Rewrite, WriteFtyp, WriteMoov, ReadMoov, WriteTemp, ReadTemp, Fixed
  <2>2. Rewriting /\ pc # "fixed" /\ BodyHoldsMoov
    BY <2>1 DEF Rewriting, BodyHoldsMoov, scanned, history
  <2>3. /\ pos \in Nat /\ wpos \in Nat /\ moov_atom_size \in Nat /\ last_offset \in Nat
        /\ moovSize \in Nat /\ ftyp_atom_size \in Nat
        /\ Len(source) \in Nat /\ Len(disk) \in Nat /\ Len(ftyp_atom) \in Nat
        /\ Len(ftyp_atom) <= ftyp_atom_size
    BY Lengths DEF AheadInv, TypeInv, Numbers, Sizes
  <2>4. pos + last_offset = Len(source) - moovSize /\ Len(source) <= Len(disk)
    BY <2>2 DEF AheadInv, Ahead
  <2>5. Len(source') = Len(source) /\ moovSize' = moovSize
        /\ ftyp_atom_size' = ftyp_atom_size
    BY <2>1 DEF scanned, history
  <2>6. ASSUME NEW block \in CellSeq, Room(Len(block)), disk' = Overwrite(block)
        PROVE  Len(source') <= Len(disk')
    <3>1. Len(disk) <= Len(disk')
      BY <2>6, WriteSize DEF AheadInv
    <3>2. Len(disk') \in Nat
      BY <1>1, CellSeqLen DEF TypeInv, Contents
    <3> QED BY <2>3, <2>4, <2>5, <3>1, <3>2
  <2>7. CASE WriteFtyp
    <3>1. /\ wpos = 0 /\ pos = ftyp_atom_size + moovSize /\ moov_atom_size = moovSize
      BY <2>2, <2>7 DEF WriteFtyp, AheadInv, Ahead
    <3>2. Len(source') <= Len(disk')
      BY <2>6, <2>7 DEF WriteFtyp, AheadInv, TypeInv, Contents
    <3>3. /\ pc' = "loop" /\ wpos' = wpos + Len(ftyp_atom)
          /\ UNCHANGED <<pos, moov_atom_size, last_offset>>
      BY <2>7 DEF WriteFtyp
    <3>4. wpos' + moov_atom_size' <= pos'
      BY <2>3, <3>1, <3>3
    <3> QED BY <2>4, <2>5, <3>2, <3>3, <3>4 DEF Ahead
  <2>8. ASSUME NEW buffer \in CellSeq, Len(buffer) = moovSize, Room(moov_atom_size),
               LET block == SubSeq(buffer, 1, moov_atom_size)
               IN  disk' = Overwrite(block) /\ wpos' = wpos + Len(block),
               pc \in {"loop", "write temp"}, pc' \in {"read moov", "read temp"},
               UNCHANGED <<pos, moov_atom_size, last_offset>>
        PROVE  Ahead'
    <3> DEFINE block == SubSeq(buffer, 1, moov_atom_size)
    <3>1. /\ block \in CellSeq /\ Len(block) = moov_atom_size
          /\ disk' = Overwrite(block) /\ wpos' = wpos + Len(block)
      BY <2>8, UsedBlock DEF AheadInv
    <3> HIDE DEF block
    <3>2. Len(source') <= Len(disk')
      BY <2>6, <2>8, <3>1
    <3>3. wpos + moov_atom_size <= pos
      BY <2>2, <2>8 DEF AheadInv, Ahead
    <3>4. wpos' <= pos'
      BY <2>8, <3>1, <3>3
    <3> QED BY <2>4, <2>5, <2>8, <3>2, <3>4 DEF Ahead
  <2>9. CASE WriteMoov
    BY <2>8, <2>9 DEF WriteMoov, AheadInv, TypeInv, Contents, Buffers
  <2>10. CASE WriteTemp
    BY <2>8, <2>10 DEF WriteTemp, AheadInv, TypeInv, Contents, Buffers
  <2>11. CASE ReadMoov \/ ReadTemp
    <3>1. /\ pos' = pos + Len(ReadAt(pos, Take)) /\ last_offset' = last_offset - Take
          /\ moov_atom_size' = Take /\ wpos' = wpos /\ disk' = disk
          /\ pc \in {"read moov", "read temp"} /\ pc' \in {"loop", "write temp"}
      BY <2>11 DEF ReadMoov, ReadTemp
    <3>2. Len(ReadAt(pos, Take)) = Take /\ Take \in Nat
      BY <2>2, ReadWhole, TakeType DEF AheadInv, TypeInv
    <3>3. wpos <= pos
      BY <2>2, <3>1 DEF AheadInv, Ahead
    <3>4. /\ Take \in Nat /\ pos' = pos + Take /\ last_offset' = last_offset - Take
          /\ moov_atom_size' = Take /\ wpos' = wpos
      BY <3>1, <3>2
    <3>5. wpos' + moov_atom_size' <= pos' /\ pos' + last_offset' = pos + last_offset
      BY <2>3, <3>3, <3>4
    <3>6. Len(source') <= Len(disk')
      BY <2>4, <2>5, <3>1
    <3> QED BY <2>4, <2>5, <3>1, <3>5, <3>6 DEF Ahead
  <2>12. CASE Fixed
    BY <2>12 DEF Fixed
  <2> QED BY <1>3, <2>7, <2>9, <2>10, <2>11, <2>12 DEF Rewrite
<1>4. CASE Begin \/ Scan \/ NotLast \/ Compressed \/ LoadFails \/ Return \/ Fail \/ Crash
  <2>1. ~ Rewriting'
    BY <1>4 DEF Begin, Scan, ScanFtyp, ScanAtom, ScanOther, ScanGarbage, ScanUnread, ScanAs,
           ScanEnd, AtHeader, NotLast, Compressed, LoadFails, Return, Fail, Crash, Rewriting
  <2> QED BY <1>1, <2>1 DEF AheadInv, Ahead
<1>5. CASE UNCHANGED vars
  <2>1. UNCHANGED <<disk, pos, pc, ftyp_atom_size, moov_atom_size, last_offset, wpos,
                    source, moovSize>>
    BY <1>5 DEF vars, file, scanned, copying, history
  <2>2. Ahead
    BY DEF AheadInv
  <2> QED BY <1>1, <2>1, <2>2 DEF AheadInv, Ahead, Rewriting, BodyHoldsMoov
<1> QED BY <1>2, <1>3, <1>4, <1>5 DEF Next, Handle

\* For every file in which moov is no larger than what lies between it and
\* ftyp: whatever fails and whenever the worker dies, no cell is overwritten
\* before it has been read, and the reading ends where moov begins.
THEOREM ReaderAhead == Spec => []ReadsAhead
<1>1. AheadInv => ReadsAhead
  <2> SUFFICES ASSUME AheadInv, Rewriting, pc # "fixed", BodyHoldsMoov
               PROVE  wpos <= pos /\ pos + last_offset = Len(source) - moovSize
    BY DEF ReadsAhead
  <2>1. /\ pos \in Nat /\ wpos \in Nat /\ moov_atom_size \in Nat
        /\ moovSize \in Nat /\ ftyp_atom_size \in Nat
    BY DEF AheadInv, TypeInv, Numbers
  <2>2. pc \in {"open", "loop", "read moov", "write temp", "read temp"}
    BY DEF Rewriting
  <2>3. /\ pos + last_offset = Len(source) - moovSize
        /\ pc = "open" => wpos = 0 /\ pos = ftyp_atom_size + moovSize
        /\ pc \in {"loop", "write temp"} => wpos + moov_atom_size <= pos
        /\ pc \in {"read moov", "read temp"} => wpos <= pos
    BY DEF AheadInv, Ahead
  <2>4. CASE pc = "open"
    <3>1. wpos = 0
      BY <2>3, <2>4
    <3>2. wpos <= pos
      BY <2>1, <3>1
    <3> QED BY <2>3, <3>2
  <2>5. CASE pc \in {"loop", "write temp"}
    <3>1. wpos + moov_atom_size <= pos
      BY <2>3, <2>5
    <3>2. wpos <= pos
      BY <2>1, <3>1
    <3> QED BY <2>3, <3>2
  <2>6. CASE pc \in {"read moov", "read temp"}
    BY <2>3, <2>6
  <2> QED BY <2>2, <2>4, <2>5, <2>6
<1> QED BY <1>1, AheadInit, AheadNext, PTL DEF Spec

-----------------------------------------------------------------------------
(* What has been written is right.                                         *)

\* The file that is wanted, cell by cell: s with its last M cells, patched,
\* behind the first F.
Rearranged(s, F, M) ==
  (SubSeq(s, 1, F) \o Patched(SubSeq(s, Len(s) - M + 1, Len(s))))
    \o SubSeq(s, F + 1, Len(s) - M)

LEMMA RearrangedFacts ==
  ASSUME NEW s \in CellSeq, NEW F \in Nat, NEW M \in Nat, F + M <= Len(s)
  PROVE  /\ Rearranged(s, F, M) \in CellSeq
         /\ Len(Rearranged(s, F, M)) = Len(s)
         /\ \A k \in 1 .. F : Rearranged(s, F, M)[k] = s[k]
         /\ \A k \in 1 .. M :
              Rearranged(s, F, M)[F + k] =
                PatchedCell(s[Len(s) - M + k])
         /\ \A k \in F + 1 .. Len(s) - M :
              Rearranged(s, F, M)[M + k] = s[k]
<1> DEFINE S == Len(s)
           first == SubSeq(s, 1, F)
           body  == SubSeq(s, F + 1, S - M)
           moov  == SubSeq(s, S - M + 1, S)
           wanted == Rearranged(s, F, M)
<1>1. S \in Nat /\ F + M <= S
  BY CellSeqLen
<1>2. s \in CellSeq
  OBVIOUS
<1>3. wanted = (first \o Patched(moov)) \o body
  BY DEF Rearranged
<1> HIDE DEF wanted
<1>4. \A k \in 1 .. S : s[k] \in CellType
  BY <1>2 DEF CellSeq
<1> HIDE DEF S
<1>5. /\ first \in CellSeq /\ Len(first) = F
      /\ \A k \in 1 .. F : first[k] = s[k]
  BY <1>1, <1>2, BlockFacts DEF S
<1>6. /\ body \in CellSeq /\ Len(body) = S - M - F
      /\ \A k \in 1 .. S - M - F : body[k] = s[F + k]
  <2>1. \A k \in F + 1 .. S - M : s[k] \in CellType
    BY <1>1, <1>4
  <2>2. /\ body \in Seq(CellType)
        /\ Len(body) = IF F + 1 <= S - M THEN S - M - (F + 1) + 1 ELSE 0
        /\ \A k \in 1 .. S - M - (F + 1) + 1 : body[k] = s[F + 1 + k - 1]
    BY <1>1, <2>1, SubSeqProperties
  <2> HIDE DEF body
  <2> QED BY <1>1, <2>2 DEF CellSeq
<1>7. /\ moov \in CellSeq /\ Len(moov) = M
      /\ \A k \in 1 .. M : moov[k] = s[S - M + k]
  <2>1. \A k \in S - M + 1 .. S : s[k] \in CellType
    BY <1>1, <1>4
  <2>2. /\ moov \in Seq(CellType)
        /\ Len(moov) = IF S - M + 1 <= S THEN S - (S - M + 1) + 1 ELSE 0
        /\ \A k \in 1 .. S - (S - M + 1) + 1 : moov[k] = s[S - M + 1 + k - 1]
    BY <1>1, <2>1, SubSeqProperties
  <2> HIDE DEF moov
  <2> QED BY <1>1, <2>2 DEF CellSeq
<1>8. /\ Patched(moov) \in CellSeq /\ Len(Patched(moov)) = M
      /\ \A k \in 1 .. M : Patched(moov)[k] = PatchedCell(s[S - M + k])
  <2> HIDE DEF moov
  <2>1. /\ Patched(moov) \in CellSeq /\ Len(Patched(moov)) = M
        /\ \A k \in 1 .. M : Patched(moov)[k] = PatchedCell(moov[k])
    BY <1>7, PatchedFacts
  <2> QED BY <1>7, <2>1
<1> DEFINE p == Patched(moov)
<1> HIDE DEF first, body, moov, p
<1>9. /\ wanted \in CellSeq /\ Len(wanted) = S
      /\ \A k \in 1 .. F : wanted[k] = first[k]
      /\ \A k \in 1 .. M : wanted[F + k] = p[k]
      /\ \A k \in 1 .. S - M - F : wanted[F + M + k] = body[k]
  <2>1. /\ first \in CellSeq /\ Len(first) = F /\ p \in CellSeq /\ Len(p) = M
        /\ body \in CellSeq /\ Len(body) = S - M - F
    BY <1>5, <1>6, <1>8 DEF p
  <2> DEFINE h == first \o p
  <2>2. /\ h \in CellSeq /\ Len(h) = F + M
        /\ \A k \in 1 .. F : h[k] = first[k]
        /\ \A k \in 1 .. M : h[F + k] = p[k]
    BY <2>1, ConcatFacts
  <2>3. wanted = h \o body
    BY <1>3 DEF p
  <2> HIDE DEF h
  <2>4. /\ wanted \in CellSeq /\ Len(wanted) = F + M + (S - M - F)
        /\ \A k \in 1 .. F + M : wanted[k] = h[k]
        /\ \A k \in 1 .. S - M - F : wanted[F + M + k] = body[k]
    <3>1. /\ h \o body \in CellSeq /\ Len(h \o body) = Len(h) + Len(body)
          /\ \A k \in 1 .. Len(h) : (h \o body)[k] = h[k]
          /\ \A k \in 1 .. Len(body) : (h \o body)[Len(h) + k] = body[k]
      BY <2>1, <2>2, ConcatFacts
    <3> QED BY <2>1, <2>2, <2>3, <3>1
  <2>5. Len(wanted) = S
    BY <1>1, <2>4
  <2>6. \A k \in 1 .. F : k \in 1 .. F + M
    BY <1>1
  <2>7. \A k \in 1 .. M : F + k \in 1 .. F + M
    BY <1>1
  <2> QED BY <2>2, <2>4, <2>5, <2>6, <2>7
<1>10. \A k \in 1 .. M : wanted[F + k] = PatchedCell(s[S - M + k])
  BY <1>8, <1>9 DEF p
<1>11. \A k \in F + 1 .. S - M : wanted[M + k] = s[k]
  <2> TAKE k \in F + 1 .. S - M
  <2>1. k - F \in 1 .. S - M - F /\ F + M + (k - F) = M + k /\ F + (k - F) = k
    BY <1>1
  <2>2. wanted[F + M + (k - F)] = body[k - F] /\ body[k - F] = s[F + (k - F)]
    BY <1>6, <1>9, <2>1
  <2> QED BY <2>1, <2>2
<1>12. \A k \in 1 .. F : wanted[k] = s[k]
  BY <1>5, <1>9
<1> QED BY <1>9, <1>10, <1>11, <1>12 DEF S, wanted

LEMMA DesiredFacts ==
  ASSUME TypeInv, ftyp_atom_size + moovSize <= Len(source)
  PROVE  /\ Desired \in CellSeq /\ Len(Desired) = Len(source)
         /\ \A k \in 1 .. ftyp_atom_size : Desired[k] = source[k]
         /\ \A k \in ftyp_atom_size + 1 .. Len(source) - moovSize :
              Desired[moovSize + k] = source[k]
<1>1. Desired = Rearranged(source, ftyp_atom_size, moovSize)
  BY DEF Desired, Rearranged
<1>2. source \in CellSeq /\ ftyp_atom_size \in Nat /\ moovSize \in Nat
  BY DEF TypeInv, Numbers, Contents
<1> QED BY <1>1, <1>2, RearrangedFacts

\* What is on the disk: the file that is wanted, up to wpos; behind it, the
\* file as it was.
OnDisk ==
  /\ Len(disk) = Len(source)
  /\ \A k \in 1 .. Len(source) : disk[k] = IF k <= wpos THEN Desired[k] ELSE source[k]

\* The first n cells of the buffer are those that are wanted behind a place.
Holds(buffer, n, at) == \A k \in 1 .. n : buffer[k] = Desired[at + k]

\* At each point of the loop: where reader and writer are, and what the two
\* buffers hold.  A short block is the last.
Written ==
  Rewriting /\ BodyHoldsMoov /\ FtypFirst =>
    /\ OnDisk
    /\ wpos <= Len(source)
    /\ pc = "open" =>
         /\ Holds(moov_atom, moovSize, ftyp_atom_size)
         /\ Holds(temp_buf, moovSize, ftyp_atom_size + moovSize)
    /\ pc = "loop" /\ last_offset # 0 =>
         /\ moov_atom_size = moovSize
         /\ pos = wpos + moovSize /\ ftyp_atom_size <= wpos
         /\ Holds(moov_atom, moovSize, wpos)
         /\ Holds(temp_buf, moovSize, wpos + moovSize)
    /\ pc = "read moov" =>
         /\ moov_atom_size = moovSize
         /\ pos = wpos /\ ftyp_atom_size <= wpos
         /\ Holds(temp_buf, moovSize, wpos)
    /\ pc = "write temp" =>
         /\ pos = wpos + moov_atom_size /\ ftyp_atom_size <= wpos
         /\ last_offset # 0 => moov_atom_size = moovSize
         /\ Holds(temp_buf, moov_atom_size, wpos)
         /\ Holds(moov_atom, moov_atom_size, wpos + moovSize)
    /\ pc = "read temp" =>
         /\ pos = wpos /\ ftyp_atom_size <= wpos
         /\ last_offset # 0 =>
              moov_atom_size = moovSize /\ Holds(moov_atom, moovSize, wpos)

\* A block that continues what has been written.
LEMMA WriteRight ==
  ASSUME TypeInv, OnDisk, UNCHANGED <<scanned, history>>,
         NEW block \in CellSeq, wpos + Len(block) <= Len(source),
         \A k \in 1 .. Len(block) : block[k] = Desired[wpos + k],
         disk' = Overwrite(block), wpos' = wpos + Len(block)
  PROVE  OnDisk' /\ wpos' <= Len(source')
<1>1. /\ disk \in CellSeq /\ Len(disk) = Len(source) /\ Len(source) \in Nat
      /\ wpos \in Nat /\ wpos \in 0 .. Len(disk) /\ Len(block) \in Nat
  BY Lengths, CellSeqLen DEF TypeInv, Numbers, Contents, Buffers, OnDisk
<1>2. /\ Len(disk') = IF wpos + Len(block) > Len(disk)
                      THEN wpos + Len(block) ELSE Len(disk)
      /\ \A k \in 1 .. Len(disk') :
           disk'[k] = IF k \in wpos + 1 .. wpos + Len(block)
                      THEN block[k - wpos] ELSE disk[k]
  BY <1>1, OverwriteFacts
<1>3. Len(disk') = Len(source)
  BY <1>1, <1>2
<1>4. source' = source /\ Desired' = Desired
  BY DEF Desired, scanned, history
<1>5. ASSUME NEW k \in 1 .. Len(source)
      PROVE  disk'[k] = IF k <= wpos' THEN Desired[k] ELSE source[k]
  <2>1. disk[k] = IF k <= wpos THEN Desired[k] ELSE source[k]
    BY DEF OnDisk
  <2>2. disk'[k] = IF k \in wpos + 1 .. wpos + Len(block)
                   THEN block[k - wpos] ELSE disk[k]
    BY <1>2, <1>3
  <2>3. CASE k \in wpos + 1 .. wpos + Len(block)
    <3>1. k - wpos \in 1 .. Len(block) /\ wpos + (k - wpos) = k /\ k <= wpos + Len(block)
      BY <1>1, <2>3
    <3>2. block[k - wpos] = Desired[wpos + (k - wpos)]
      BY <3>1
    <3> QED BY <2>2, <2>3, <3>1, <3>2
  <2>4. CASE k \notin wpos + 1 .. wpos + Len(block)
    <3>1. k <= wpos <=> k <= wpos + Len(block)
      BY <1>1, <2>4
    <3> QED BY <2>1, <2>2, <2>4, <3>1
  <2> QED BY <2>3, <2>4
<1>6. OnDisk'
  BY <1>3, <1>4, <1>5 DEF OnDisk
<1> QED BY <1>4, <1>6

\* What is read ahead of the writer is what is wanted, a moov atom further on.
LEMMA ReadRight ==
  ASSUME TypeInv, OnDisk, ftyp_atom_size + moovSize <= Len(source),
         NEW p \in Nat, NEW n \in Nat,
         ftyp_atom_size <= p, wpos <= p, p + n <= Len(source) - moovSize
  PROVE  /\ ReadAt(p, n) \in CellSeq /\ Len(ReadAt(p, n)) = n
         /\ \A k \in 1 .. n : ReadAt(p, n)[k] = Desired[p + moovSize + k]
<1>1. /\ disk \in CellSeq /\ Len(disk) = Len(source) /\ Len(source) \in Nat
      /\ wpos \in Nat /\ ftyp_atom_size \in Nat /\ moovSize \in Nat
  BY Lengths DEF TypeInv, Numbers, Contents, OnDisk
<1>2. p + n <= Len(disk)
  BY <1>1
<1>3. /\ ReadAt(p, n) \in CellSeq /\ Len(ReadAt(p, n)) = n
      /\ \A k \in 1 .. n : ReadAt(p, n)[k] = disk[p + k]
  BY <1>1, <1>2, ReadAtFacts
<1>4. ASSUME NEW k \in 1 .. n PROVE ReadAt(p, n)[k] = Desired[p + moovSize + k]
  <2>1. /\ p + k \in ftyp_atom_size + 1 .. Len(source) - moovSize
        /\ p + k \in 1 .. Len(source) /\ ~ (p + k <= wpos)
        /\ moovSize + (p + k) = p + moovSize + k
    BY <1>1
  <2>2. Desired[moovSize + (p + k)] = source[p + k]
    BY <2>1, DesiredFacts
  <2>3. disk[p + k] = source[p + k]
    BY <2>1 DEF OnDisk
  <2> QED BY <1>3, <2>1, <2>2, <2>3
<1> QED BY <1>3, <1>4

\* The block that comes next into a buffer.
LEMMA RefillRight ==
  ASSUME AheadInv, Rewriting, pc # "fixed", BodyHoldsMoov, OnDisk,
         pos = wpos, ftyp_atom_size <= wpos,
         NEW buffer \in CellSeq, Len(buffer) = moovSize
  PROVE  /\ Len(ReadAt(pos, Take)) = Take
         /\ Holds(Refill(buffer, ReadAt(pos, Take)), Take, wpos + moovSize)
<1>1. /\ pos \in Nat /\ Take \in Nat /\ moovSize \in Nat /\ moov_atom_size \in Nat
      /\ ftyp_atom_size \in Nat /\ Len(source) \in Nat
      /\ Take <= moov_atom_size /\ moov_atom_size <= moovSize
  BY TakeType, Lengths DEF AheadInv, TypeInv, Numbers, Buffers
<1>2. ftyp_atom_size + moovSize <= Len(source)
  BY <1>1 DEF BodyHoldsMoov
<1>3. pos + Take <= Len(source) - moovSize
  BY ReadWhole
<1> DEFINE block == ReadAt(pos, Take)
<1>4. wpos <= pos
  BY <1>1
<1>5. /\ block \in CellSeq /\ Len(block) = Take
      /\ \A k \in 1 .. Take : block[k] = Desired[pos + moovSize + k]
  BY <1>1, <1>2, <1>3, <1>4, ReadRight DEF AheadInv
<1> HIDE DEF block
<1>6. Len(block) <= Len(buffer)
  BY <1>1, <1>5
<1>7. \A k \in 1 .. Take : Refill(buffer, block)[k] = block[k]
  BY <1>5, <1>6, RefillFacts
<1>8. Holds(Refill(buffer, block), Take, wpos + moovSize)
  BY <1>5, <1>7 DEF Holds
<1> QED BY <1>5, <1>8 DEF block

LEMMA WrittenLoad == AheadInv /\ AheadInv' /\ Load => Written'
<1> SUFFICES ASSUME AheadInv, AheadInv', Load, BodyHoldsMoov' PROVE Written'
  BY DEF Written
<1>1. /\ disk' = disk /\ source' = disk /\ wpos' = 0 /\ pc' = "open"
      /\ ftyp_atom_size' = ftyp_atom_size /\ moovSize' = atom_size
      /\ moov_atom' = Patched(Loaded)
      /\ temp_buf' = Refill(Fresh(atom_size), ReadAt(ftyp_atom_size, atom_size))
  BY DEF Load, scanned
<1>2. /\ Len(disk) \in Nat /\ ftyp_atom_size \in Nat /\ atom_size \in Nat
      /\ disk \in CellSeq
  BY Lengths DEF AheadInv, TypeInv, Numbers, Contents
<1>3. ftyp_atom_size + 2 * atom_size <= Len(disk)
  BY <1>1 DEF BodyHoldsMoov
<1> DEFINE F == ftyp_atom_size
           M == atom_size
           S == Len(disk)
<1>4. /\ \A k \in 1 .. M :
           Desired'[F + k] = PatchedCell(disk[S - M + k])
      /\ \A k \in F + 1 .. S - M : Desired'[M + k] = disk[k]
  <2>1. Desired' = Rearranged(disk, F, M)
    BY <1>1 DEF Desired, Rearranged
  <2>2. F + M <= Len(disk)
    BY <1>2, <1>3
  <2> HIDE DEF F, M
  <2>3. F \in Nat /\ M \in Nat
    BY <1>2 DEF F, M
  <2>4. disk \in CellSeq
    BY <1>2
  <2>5. /\ \A k \in 1 .. M :
             Rearranged(disk, F, M)[F + k] =
               PatchedCell(disk[Len(disk) - M + k])
        /\ \A k \in F + 1 .. Len(disk) - M : Rearranged(disk, F, M)[M + k] = disk[k]
    BY <2>2, <2>3, <2>4, RearrangedFacts
  <2> QED BY <2>1, <2>5
<1>5. ASSUME NEW p \in Nat, p + M <= S
      PROVE  /\ Refill(Fresh(M), ReadAt(p, M)) \in CellSeq
             /\ Len(Refill(Fresh(M), ReadAt(p, M))) = M
             /\ \A k \in 1 .. M : Refill(Fresh(M), ReadAt(p, M))[k] = disk[p + k]
  <2>1. /\ ReadAt(p, M) \in CellSeq /\ Len(ReadAt(p, M)) = M
        /\ \A k \in 1 .. M : ReadAt(p, M)[k] = disk[p + k]
    BY <1>2, <1>5, ReadAtFacts
  <2>2. Fresh(M) \in CellSeq /\ Len(Fresh(M)) = M
    BY <1>2, FreshFacts
  <2>3. Len(ReadAt(p, M)) <= Len(Fresh(M))
    BY <1>2, <2>1, <2>2
  <2> QED BY <2>1, <2>2, <2>3, RefillFacts
<1>6. MoovAt = S - M /\ S - M \in Nat
  <2>1. FromEnd = S - M /\ FromEnd # -1 /\ S - M \in Nat
    BY <1>2, <1>3 DEF FromEnd
  <2> QED BY <2>1 DEF MoovAt, Seek
<1>7. \A k \in 1 .. M : moov_atom'[k] = Desired'[F + k]
  <2>1. S - M + M <= S
    BY <1>2
  <2>2. /\ Loaded \in CellSeq /\ Len(Loaded) = M
        /\ \A k \in 1 .. M : Loaded[k] = disk[S - M + k]
    BY <1>5, <1>6, <2>1 DEF Loaded
  <2>3. \A k \in 1 .. M : moov_atom'[k] = PatchedCell(Loaded[k])
    BY <1>1, <2>2, PatchedFacts
  <2>4. ASSUME NEW k \in 1 .. M PROVE moov_atom'[k] = Desired'[F + k]
    <3>1. Loaded[k] = disk[S - M + k]
      BY <2>2
    <3>2. moov_atom'[k] = PatchedCell(Loaded[k])
      BY <2>3
    <3>3. Desired'[F + k] = PatchedCell(disk[S - M + k])
      BY <1>4
    <3> QED BY <3>1, <3>2, <3>3
  <2> QED BY <2>4
<1>8. \A k \in 1 .. M : temp_buf'[k] = Desired'[F + M + k]
  <2>1. F + M <= S
    BY <1>2, <1>3
  <2>2. \A k \in 1 .. M : temp_buf'[k] = disk[F + k]
    BY <1>1, <1>2, <1>5, <2>1
  <2>3. ASSUME NEW k \in 1 .. M PROVE temp_buf'[k] = Desired'[F + M + k]
    <3>1. F + k \in F + 1 .. S - M /\ M + (F + k) = F + M + k
      BY <1>2, <1>3
    <3>2. Desired'[M + (F + k)] = disk[F + k]
      BY <1>4, <3>1
    <3> QED BY <2>2, <3>1, <3>2
  <2> QED BY <2>3
<1>9. OnDisk'
  <2>1. \A k \in 1 .. Len(disk) : ~ (k <= 0)
    BY <1>2
  <2> QED BY <1>1, <2>1 DEF OnDisk
<1>10. wpos' <= Len(source')
  BY <1>1, <1>2
<1> QED BY <1>1, <1>7, <1>8, <1>9, <1>10 DEF Written, Holds

LEMMA WrittenRewrite == AheadInv /\ Written /\ Rewrite => Written'
<1> SUFFICES ASSUME AheadInv, Written, Rewrite, Rewriting', BodyHoldsMoov', FtypFirst'
             PROVE  Written'
  BY DEF Written
<1> DEFINE F == ftyp_atom_size
           M == moovSize
<1>1. UNCHANGED <<scanned, history>> /\ pc \in {"open", "loop", "read moov", "write temp",
                                                "read temp"}
  BY DEF Rewrite, WriteFtyp, WriteMoov, ReadMoov, WriteTemp, ReadTemp, Fixed
<1>2. Rewriting /\ pc # "fixed" /\ BodyHoldsMoov /\ FtypFirst
  BY <1>1 DEF Rewriting, BodyHoldsMoov, FtypFirst, scanned, history
<1>3. /\ Desired' = Desired /\ source' = source /\ moovSize' = moovSize
      /\ ftyp_atom_size' = ftyp_atom_size
  BY <1>1 DEF Desired, scanned, history
<1>4. OnDisk /\ wpos <= Len(source)
  BY <1>2 DEF Written
<1>5. /\ pos \in Nat /\ wpos \in Nat /\ moov_atom_size \in Nat /\ last_offset \in Nat
      /\ M \in Nat /\ F \in Nat /\ Len(source) \in Nat
      /\ F + 2 * M <= Len(source) /\ moov_atom_size <= M
  BY <1>2, Lengths DEF AheadInv, TypeInv, Numbers, Buffers, BodyHoldsMoov
<1>6. pos + last_offset = Len(source) - M
  BY <1>2 DEF AheadInv, Ahead
<1>7. /\ moov_atom \in CellSeq /\ Len(moov_atom) = M
      /\ temp_buf \in CellSeq /\ Len(temp_buf) = M
      /\ ftyp_atom \in CellSeq /\ source \in CellSeq /\ TypeInv
  BY DEF AheadInv, TypeInv, Contents, Buffers
<1>8. CASE WriteFtyp
  <2>1. wpos = 0 /\ pos = F + M /\ moov_atom_size = M
    BY <1>2, <1>8 DEF WriteFtyp, AheadInv, Ahead
  <2>2. /\ \A k \in 1 .. M : moov_atom[k] = Desired[F + k]
        /\ \A k \in 1 .. M : temp_buf[k] = Desired[F + M + k]
    BY <1>2, <1>8 DEF WriteFtyp, Written, Holds
  <2>3. F <= Len(source) /\ F + M <= Len(source)
    BY <1>5
  <2>4. Len(ftyp_atom) = F /\ \A k \in 1 .. F : ftyp_atom[k] = source[k]
    BY <1>2, <1>5, <1>7, <2>3, BlockFacts DEF FtypFirst
  <2>5. \A k \in 1 .. F : ftyp_atom[k] = Desired[k]
    BY <1>7, <2>3, <2>4, DesiredFacts
  <2>6. /\ disk' = Overwrite(ftyp_atom) /\ wpos' = wpos + Len(ftyp_atom)
        /\ pc' = "loop"
        /\ UNCHANGED <<pos, moov_atom, temp_buf, moov_atom_size, last_offset>>
    BY <1>8 DEF WriteFtyp
  <2>7. /\ wpos + Len(ftyp_atom) = F /\ wpos + Len(ftyp_atom) <= Len(source)
        /\ \A k \in 1 .. Len(ftyp_atom) : ftyp_atom[k] = Desired[wpos + k]
    BY <1>5, <2>1, <2>3, <2>4, <2>5
  <2>8. OnDisk' /\ wpos' <= Len(source')
    BY <1>1, <1>4, <1>7, <2>6, <2>7, WriteRight
  <2>9. wpos' = F /\ pos' = wpos' + M /\ F <= wpos'
    BY <1>5, <2>1, <2>6, <2>7
  <2> QED BY <1>3, <2>1, <2>2, <2>6, <2>8, <2>9 DEF Written, Holds
<1>9. CASE WriteMoov
  <2>1. /\ pc = "loop" /\ last_offset # 0 /\ pc' = "read moov"
        /\ disk' = Overwrite(SubSeq(moov_atom, 1, moov_atom_size))
        /\ wpos' = wpos + Len(SubSeq(moov_atom, 1, moov_atom_size))
        /\ UNCHANGED <<pos, moov_atom, temp_buf, moov_atom_size, last_offset>>
    BY <1>9 DEF WriteMoov
  <2>2. /\ moov_atom_size = M /\ pos = wpos + M /\ F <= wpos
        /\ \A k \in 1 .. M : moov_atom[k] = Desired[wpos + k]
        /\ \A k \in 1 .. M : temp_buf[k] = Desired[wpos + M + k]
    BY <1>2, <2>1 DEF Written, Holds
  <2> DEFINE block == SubSeq(moov_atom, 1, moov_atom_size)
  <2>3. /\ block \in CellSeq /\ Len(block) = M
        /\ \A k \in 1 .. M : block[k] = moov_atom[k]
    BY <1>7, <2>2, UsedBlock
  <2>4. disk' = Overwrite(block) /\ wpos' = wpos + Len(block)
    BY <2>1
  <2> HIDE DEF block
  <2>5. wpos' = wpos + M /\ wpos' = pos /\ F <= wpos' /\ wpos + M <= Len(source)
    BY <1>5, <1>6, <2>2, <2>3, <2>4
  <2>6. OnDisk' /\ wpos' <= Len(source')
    BY <1>1, <1>4, <1>7, <2>2, <2>3, <2>4, <2>5, WriteRight
  <2>7. \A k \in 1 .. M : temp_buf'[k] = Desired[wpos' + k]
    BY <2>1, <2>2, <2>5
  <2> QED BY <1>3, <2>1, <2>2, <2>5, <2>6, <2>7 DEF Written, Holds
<1>10. CASE ReadMoov
  <2>1. /\ pc = "read moov" /\ pc' = "write temp"
        /\ moov_atom' = Refill(moov_atom, ReadAt(pos, Take))
        /\ pos' = pos + Len(ReadAt(pos, Take))
        /\ moov_atom_size' = Take /\ last_offset' = last_offset - Take
        /\ UNCHANGED <<disk, wpos, temp_buf>>
    BY <1>10 DEF ReadMoov
  <2>2. /\ moov_atom_size = M /\ pos = wpos /\ F <= wpos
        /\ \A k \in 1 .. M : temp_buf[k] = Desired[wpos + k]
    BY <1>2, <2>1 DEF Written, Holds
  <2>3. /\ Len(ReadAt(pos, Take)) = Take
        /\ \A k \in 1 .. Take : moov_atom'[k] = Desired[wpos + M + k]
    BY <1>2, <1>4, <1>7, <2>1, <2>2, RefillRight DEF Holds
  <2>4. Take \in Nat /\ Take <= M /\ (last_offset - Take # 0 => Take = M)
    BY <1>5, <2>2 DEF Take
  <2>5. pos' = wpos' + moov_atom_size' /\ F <= wpos'
    <3>1. pos' = pos + Take /\ wpos' = wpos /\ moov_atom_size' = Take
      BY <2>1, <2>3
    <3>2. pos = wpos /\ F <= wpos
      BY <2>2
    <3> QED BY <3>1, <3>2
  <2>6. ASSUME NEW k \in 1 .. Take PROVE temp_buf'[k] = Desired[wpos' + k]
    <3>1. k \in 1 .. M
      BY <1>5, <2>4
    <3> QED BY <2>1, <2>2, <3>1
  <2>7. OnDisk' /\ wpos' <= Len(source')
    BY <1>3, <1>4, <2>1 DEF OnDisk
  <2>8. last_offset' # 0 => moov_atom_size' = moovSize'
    BY <1>3, <2>1, <2>4
  <2> QED BY <1>3, <2>1, <2>3, <2>5, <2>6, <2>7, <2>8 DEF Written, Holds
<1>11. CASE WriteTemp
  <2>1. /\ pc = "write temp" /\ pc' = "read temp"
        /\ disk' = Overwrite(SubSeq(temp_buf, 1, moov_atom_size))
        /\ wpos' = wpos + Len(SubSeq(temp_buf, 1, moov_atom_size))
        /\ UNCHANGED <<pos, moov_atom, temp_buf, moov_atom_size, last_offset>>
    BY <1>11 DEF WriteTemp
  <2>2. /\ pos = wpos + moov_atom_size /\ F <= wpos
        /\ last_offset # 0 => moov_atom_size = M
        /\ \A k \in 1 .. moov_atom_size : temp_buf[k] = Desired[wpos + k]
        /\ \A k \in 1 .. moov_atom_size : moov_atom[k] = Desired[wpos + M + k]
    BY <1>2, <2>1 DEF Written, Holds
  <2> DEFINE block == SubSeq(temp_buf, 1, moov_atom_size)
  <2>3. /\ block \in CellSeq /\ Len(block) = moov_atom_size
        /\ \A k \in 1 .. moov_atom_size : block[k] = temp_buf[k]
    BY <1>7, UsedBlock
  <2>4. disk' = Overwrite(block) /\ wpos' = wpos + Len(block)
    BY <2>1
  <2> HIDE DEF block
  <2>5. /\ wpos' = wpos + moov_atom_size /\ wpos' = pos /\ F <= wpos'
        /\ wpos + moov_atom_size <= Len(source)
    BY <1>5, <1>6, <2>2, <2>3, <2>4
  <2>6. OnDisk' /\ wpos' <= Len(source')
    BY <1>1, <1>4, <1>7, <2>2, <2>3, <2>4, <2>5, WriteRight
  <2>7. last_offset' # 0 =>
          moov_atom_size' = M /\ \A k \in 1 .. M : moov_atom'[k] = Desired[wpos' + k]
    BY <2>1, <2>2, <2>5
  <2> QED BY <1>3, <2>1, <2>5, <2>6, <2>7 DEF Written, Holds
<1>12. CASE ReadTemp
  <2>1. /\ pc = "read temp" /\ pc' = "loop"
        /\ temp_buf' = Refill(temp_buf, ReadAt(pos, Take))
        /\ pos' = pos + Len(ReadAt(pos, Take))
        /\ moov_atom_size' = Take /\ last_offset' = last_offset - Take
        /\ UNCHANGED <<disk, wpos, moov_atom>>
    BY <1>12 DEF ReadTemp
  <2>2. /\ pos = wpos /\ F <= wpos
        /\ last_offset # 0 =>
             moov_atom_size = M /\ \A k \in 1 .. M : moov_atom[k] = Desired[wpos + k]
    BY <1>2, <2>1 DEF Written, Holds
  <2>3. /\ Len(ReadAt(pos, Take)) = Take
        /\ \A k \in 1 .. Take : temp_buf'[k] = Desired[wpos + M + k]
    BY <1>2, <1>4, <1>7, <2>1, <2>2, RefillRight DEF Holds
  <2>4. OnDisk' /\ wpos' <= Len(source')
    BY <1>3, <1>4, <2>1 DEF OnDisk
  <2>5. CASE last_offset' # 0
    <3>1. last_offset # 0 /\ Take = moov_atom_size
      <4>1. last_offset - Take # 0
        BY <2>1, <2>5
      <4> QED BY <1>5, <4>1 DEF Take
    <3>2. Take = M /\ \A k \in 1 .. M : moov_atom'[k] = Desired[wpos' + k]
      BY <2>1, <2>2, <3>1
    <3>3. pos' = wpos' + M /\ F <= wpos'
      BY <1>5, <2>1, <2>2, <2>3, <3>2
    <3>4. \A k \in 1 .. M : temp_buf'[k] = Desired[wpos' + M + k]
      BY <2>1, <2>3, <3>2
    <3> QED BY <1>3, <2>1, <2>4, <3>2, <3>3, <3>4 DEF Written, Holds
  <2>6. CASE last_offset' = 0
    BY <2>1, <2>4, <2>6 DEF Written
  <2> QED BY <2>5, <2>6
<1>13. CASE Fixed
  <2>1. pc' = "fixed" /\ disk' = disk /\ wpos' = wpos
    BY <1>13 DEF Fixed, copying
  <2>2. OnDisk' /\ wpos' <= Len(source')
    BY <1>3, <1>4, <2>1 DEF OnDisk
  <2> QED BY <2>1, <2>2 DEF Written
<1> QED BY <1>8, <1>9, <1>10, <1>11, <1>12, <1>13 DEF Rewrite

LEMMA WrittenNext == AheadInv /\ Written /\ [Next]_vars => Written'
<1> SUFFICES ASSUME AheadInv, Written, [Next]_vars PROVE Written'
  OBVIOUS
<1>1. AheadInv'
  BY AheadNext
<1>2. CASE Load
  BY <1>1, <1>2, WrittenLoad
<1>3. CASE Rewrite
  BY <1>3, WrittenRewrite
<1>4. CASE Begin \/ Scan \/ NotLast \/ Compressed \/ LoadFails \/ Return \/ Fail \/ Crash
  <2>1. ~ Rewriting'
    BY <1>4 DEF Begin, Scan, ScanFtyp, ScanAtom, ScanOther, ScanGarbage, ScanUnread, ScanAs,
           ScanEnd, AtHeader, NotLast, Compressed, LoadFails, Return, Fail, Crash, Rewriting
  <2> QED BY <2>1 DEF Written
<1>5. CASE UNCHANGED vars
  <2>1. UNCHANGED <<disk, pos, pc, ftyp_atom, ftyp_atom_size, moov_atom, temp_buf,
                    moov_atom_size, last_offset, wpos, source, moovSize>>
    BY <1>5 DEF vars, file, scanned, copying, history
  <2>2. Desired' = Desired
    BY <2>1 DEF Desired
  <2> QED BY <2>1, <2>2 DEF Written, Rewriting, BodyHoldsMoov, FtypFirst, OnDisk, Holds
<1> QED BY <1>2, <1>3, <1>4, <1>5 DEF Next, Handle

\* Two sequences of cells that agree on a stretch have the same subsequence.
LEMMA SameStretch ==
  ASSUME NEW s \in CellSeq, NEW t \in CellSeq, NEW m \in Nat \ {0}, NEW n \in Nat,
         n <= Len(s), n <= Len(t), \A k \in m .. n : s[k] = t[k]
  PROVE  SubSeq(s, m, n) = SubSeq(t, m, n)
<1>1. SubSeq(s, m, n) = [k \in 1 .. (n + 1) - m |-> s[m + k - 1]]
  BY DEF CellSeq
<1>2. SubSeq(t, m, n) = [k \in 1 .. (n + 1) - m |-> t[m + k - 1]]
  BY DEF CellSeq
<1>3. \A k \in 1 .. (n + 1) - m : m + k - 1 \in m .. n
  OBVIOUS
<1> QED BY <1>1, <1>2, <1>3

\* For every file that begins with ftyp and in which moov is no larger than
\* what lies between: at every moment, and so after a crash, a failed read or
\* a full disk at any moment, the file up to wpos is the beginning of the file
\* that is wanted, and from there on it is the file as it was.
THEOREM WriterRight == Spec => []WrittenIsRight
<1>1. Init => AheadInv /\ Written
  BY AheadInit DEF Init, Written, Rewriting
<1>2. AheadInv /\ Written /\ [Next]_vars => AheadInv' /\ Written'
  BY AheadNext, WrittenNext
<1>3. AheadInv /\ Written => WrittenIsRight
  <2> SUFFICES ASSUME AheadInv, Written, Rewriting, BodyHoldsMoov, FtypFirst
               PROVE  /\ SubSeq(disk, 1, wpos) = SubSeq(Desired, 1, wpos)
                      /\ SubSeq(disk, wpos + 1, Len(disk))
                           = SubSeq(source, wpos + 1, Len(source))
    BY DEF WrittenIsRight
  <2>1. /\ Len(disk) = Len(source) /\ wpos <= Len(source)
        /\ \A k \in 1 .. Len(source) :
             disk[k] = IF k <= wpos THEN Desired[k] ELSE source[k]
    BY DEF Written, OnDisk
  <2>2. /\ wpos \in Nat /\ Len(source) \in Nat /\ disk \in CellSeq /\ source \in CellSeq
        /\ ftyp_atom_size \in Nat /\ moovSize \in Nat /\ TypeInv
    BY Lengths DEF AheadInv, TypeInv, Numbers, Contents
  <2>3. ftyp_atom_size + moovSize <= Len(source)
    BY <2>2 DEF BodyHoldsMoov
  <2>4. Desired \in CellSeq /\ Len(Desired) = Len(source)
    BY <2>2, <2>3, DesiredFacts
  <2>5. \A k \in 1 .. wpos : disk[k] = Desired[k]
    BY <2>1, <2>2
  <2>6. \A k \in wpos + 1 .. Len(source) : disk[k] = source[k]
    BY <2>1, <2>2
  <2>7. SubSeq(disk, 1, wpos) = SubSeq(Desired, 1, wpos)
    BY <2>1, <2>2, <2>4, <2>5, SameStretch
  <2>8. SubSeq(disk, wpos + 1, Len(source)) = SubSeq(source, wpos + 1, Len(source))
    <3>1. wpos + 1 \in Nat \ {0}
      BY <2>2
    <3> QED BY <2>1, <2>2, <2>6, <3>1, SameStretch
  <2> QED BY <2>1, <2>7, <2>8
<1> QED BY <1>1, <1>2, <1>3, PTL DEF Spec
=============================================================================
