------------------------------ MODULE AtomTree ------------------------------
(***************************************************************************)
(* The readers of the moov atom (mp4_reader.h) and the exit functions of   *)
(* what they build (mp4_io.h).  atom_reader goes through the children of   *)
(* an atom: it calls the reader of a known child and hands the result to   *)
(* the child's destination; unknown children are copied into a list.  A    *)
(* reader that fails returns NULL, and the atoms around it fail with it,   *)
(* each freeing what it has.                                               *)
(*                                                                         *)
(* The file is the sequence of its atoms, parents before their children,   *)
(* with their depths, and the last atom inside each.  What is built of     *)
(* atom k is object k of the heap: an object has slots for single children *)
(* (0 is NULL) and lists for its tracks and its unknown children.  Sizes   *)
(* are those of payloads; atoms lie within their parents, and have 32 bit  *)
(* sizes.                                                                  *)
(***************************************************************************)
EXTENDS Integers, Sequences, FiniteSets, SequencesExt

CONSTANTS
  Files,         \* the moov atoms that may be read
  MAX_TRACKS

\* Readers that do not measure what they read are given what they expect.
Measured(a) ==
  /\ a.type = "hdlr" => a.size < 8 \/ a.size >= 24
  /\ a.type = "mdhd" => a.size >= 24
  /\ a.type = "stsd" => a.size < 8 \/ a.size >= 8 + a.entries * 8
  /\ a.type = "elst" => a.size < 8 \/ a.size >= 8 + a.entries * 12
  /\ a.type = "dref" => a.size < 20 \/ a.size >= 8 + a.entries * 12

Nested(f) ==
  /\ Len(f) \in Nat \ {0} /\ DOMAIN f = 1 .. Len(f)
  /\ \A k \in DOMAIN f : f[k].depth \in Nat
  /\ f[1].type = "moov" /\ f[1].last = Len(f)
  /\ \A k \in DOMAIN f : f[k].last \in k .. Len(f) /\ (f[k].size = 0 => f[k].last = k)
  /\ \A k \in 2 .. Len(f) : f[k].depth <= f[k - 1].depth + 1
  /\ \A j, k \in DOMAIN f :
       j < k => IF k <= f[j].last THEN f[k].last <= f[j].last /\ f[k].depth > f[j].depth
                ELSE \E i \in j + 1 .. k : f[i].depth <= f[j].depth

ASSUME AtomTreeAssumption ==
  /\ \A f \in Files : Nested(f) /\ \A k \in DOMAIN f : Measured(f[k])
  /\ MAX_TRACKS \in Nat \ {0}

VARIABLES
  atoms,       \* the atoms of the file
  stack,       \* the calls of atom_reader: the atom, and its next child
  heap,        \* the objects allocated
  ret,         \* what the last reader returned: the atom, and whether NULL
  result,      \* result of the atom_reader that has just ended
  doing,
  sound        \* nothing was freed that was not allocated

treeVars == <<atoms, stack, heap, ret, result, doing, sound>>

-----------------------------------------------------------------------------
\* For each container the children it knows, and those it cannot do without.
stbl_read == [knows |-> {"stsd", "stts", "stss", "stsc", "stsz", "stco", "co64", "ctts"},
              needs |-> {"stsd", "stts"}]
dinf_read == [knows |-> {"dref"}, needs |-> {"dref"}]
minf_read == [knows |-> {"vmhd", "smhd", "dinf", "stbl"}, needs |-> {"stbl"}]
mdia_read == [knows |-> {"mdhd", "hdlr", "minf"}, needs |-> {"mdhd", "hdlr", "minf"}]
edts_read == [knows |-> {"elst"}, needs |-> {}]
trak_read == [knows |-> {"tkhd", "mdia", "edts"}, needs |-> {"tkhd", "mdia"}]
mvex_read == [knows |-> {"trex"}, needs |-> {"trex"}]
moov_read == [knows |-> {"mvhd", "trak", "mvex"}, needs |-> {"mvhd", "trak"}]

Containers ==
  [stbl |-> stbl_read, dinf |-> dinf_read, minf |-> minf_read, mdia |-> mdia_read,
   edts |-> edts_read, trak |-> trak_read, mvex |-> mvex_read, moov |-> moov_read]

IsContainer(k) == atoms[k].type \in DOMAIN Containers
Knows(k, type) == type \in Containers[atoms[k].type].knows

\* What a reader leaves: an object to return, or NULL; and then the object
\* may have been allocated, and is forgotten.
Read == "read"
Refused == "refused"
Leaked == "leaked"

\* A table: its header, and entries that must fit.
Table(a, header, entry) ==
  IF a.size < header THEN Refused
  ELSE IF a.size < header + a.entries * entry THEN Leaked ELSE Read

AtLeast(a, size) == IF a.size < size THEN Refused ELSE Read

ctts_read(a) == Table(a, 8, 8)
stco_read(a) == Table(a, 8, 4)
co64_read(a) == Table(a, 8, 8)
stsc_read(a) == Table(a, 8, 12)
stss_read(a) == Table(a, 8, 4)
stts_read(a) == Table(a, 8, 8)
\* Frees what does not fit; with a common sample size (fixed) there is no table.
stsz_read(a) ==
  IF a.size < 12 \/ (~ a.fixed /\ a.size < 12 + a.entries * 4) THEN Refused ELSE Read
\* Entries are not measured against the size.
stsd_read(a) == AtLeast(a, 8)
dref_read(a) == AtLeast(a, 20)
elst_read(a) == AtLeast(a, 8)
hdlr_read(a) == AtLeast(a, 8)
vmhd_read(a) == AtLeast(a, 12)
smhd_read(a) == AtLeast(a, 8)
mdhd_read(a) == Read
\* These allocate before they measure.
tkhd_read(a) == IF a.size < (IF a.version = 0 THEN 84 ELSE 96) THEN Leaked ELSE Read
mvhd_read(a) == IF a.size < (IF a.version = 0 THEN 100 ELSE 112) THEN Leaked ELSE Read
trex_read(a) == IF a.size < 24 THEN Leaked ELSE Read

Reader(a) ==
  CASE a.type = "ctts" -> ctts_read(a) [] a.type = "stco" -> stco_read(a)
    [] a.type = "co64" -> co64_read(a) [] a.type = "stsc" -> stsc_read(a)
    [] a.type = "stss" -> stss_read(a) [] a.type = "stts" -> stts_read(a)
    [] a.type = "stsz" -> stsz_read(a) [] a.type = "stsd" -> stsd_read(a)
    [] a.type = "dref" -> dref_read(a) [] a.type = "elst" -> elst_read(a)
    [] a.type = "hdlr" -> hdlr_read(a) [] a.type = "vmhd" -> vmhd_read(a)
    [] a.type = "smhd" -> smhd_read(a) [] a.type = "mdhd" -> mdhd_read(a)
    [] a.type = "tkhd" -> tkhd_read(a) [] a.type = "mvhd" -> mvhd_read(a)
    [] a.type = "trex" -> trex_read(a)

\* Both kinds of chunk offsets share a slot.
Slot(type) == IF type = "co64" THEN "stco" ELSE type

Slots(type) ==
  {Slot(c) : c \in IF type \in DOMAIN Containers
                   THEN Containers[type].knows \ {"trak", "trex"} ELSE {}}

\* The init functions: no child yet.
Fresh(type) == [slots |-> [c \in Slots(type) |-> 0], tracks |-> <<>>, unknown |-> <<>>]

-----------------------------------------------------------------------------
\* The last atom inside atom k: k itself if it has no children (end_).
LastIn(k) == atoms[k].last

\* The objects that object o refers to, and will free.
Slotted(o) == {o.slots[c] : c \in DOMAIN o.slots} \ {0}
HeldBy(o)  == Slotted(o) \cup Range(o.tracks) \cup Range(o.unknown)
Held(k)    == IF k \in DOMAIN heap THEN HeldBy(heap[k]) ELSE {}

\* It does not refer to any of them twice.
Apart(o) ==
  /\ \A c, d \in DOMAIN o.slots : o.slots[c] = o.slots[d] /\ o.slots[c] # 0 => c = d
  /\ IsInjective(o.tracks) /\ IsInjective(o.unknown)
  /\ Slotted(o) \cap Range(o.tracks) = {}
  /\ Slotted(o) \cap Range(o.unknown) = {}
  /\ Range(o.tracks) \cap Range(o.unknown) = {}

\* The exit functions: what is freed with object k.
Reached ==
  LET r[k \in DOMAIN atoms] == {k} \cup UNION {r[j] : j \in Held(k)} IN r

\* What is reached from object k is allocated, and is reached in one way only.
IsTree(k) ==
  /\ Reached[k] \subseteq DOMAIN heap
  /\ \A a \in Reached[k] : Apart(heap[a]) /\ k \notin Held(a)
  /\ \A a, b \in Reached[k] : a # b => Held(a) \cap Held(b) = {}

\* Call the exit function of object k.
Exit(k) ==
  /\ heap' = [j \in DOMAIN heap \ Reached[k] |-> heap[j]]
  /\ sound' = (sound /\ IsTree(k))

TreeInit ==
  /\ atoms \in Files
  /\ stack = <<[atom |-> 1, next |-> 2]>>
  /\ heap = [k \in {1} |-> Fresh("moov")]
  /\ ret = [atom |-> 0, null |-> TRUE]
  /\ result = TRUE
  /\ doing = "loop"
  /\ sound = TRUE

Frame == stack[Len(stack)]
Below == SubSeq(stack, 1, Len(stack) - 1)

\* buffer = leaf_atom.end_
PassOver(j) == stack' = [stack EXCEPT ![Len(stack)].next = LastIn(j) + 1]

Child == Frame.next
InLoop == doing = "loop" /\ Child <= LastIn(Frame.atom)

\* atom_reader: the size of an atom is less than its header.
BadHeader ==
  /\ InLoop /\ atoms[Child].type = "bad"
  /\ result' = FALSE /\ doing' = "check"
  /\ UNCHANGED <<atoms, stack, heap, ret, sound>>

IsUnknown(j) == atoms[j].type # "bad" /\ ~ Knows(Frame.atom, atoms[j].type)

\* An unknown atom is appended to the list; a big one makes it forgotten.
Unknown ==
  /\ InLoop /\ IsUnknown(Child) /\ atoms[Frame.atom].type # "dinf"
  /\ LET big == atoms[Child].size > 1024 * 1024 - 8
         old == heap[Frame.atom].unknown
     IN  heap' = IF big THEN [heap EXCEPT ![Frame.atom].unknown = <<>>]
                 ELSE [k \in DOMAIN heap \cup {Child} |->
                        IF k = Child THEN Fresh("unknown")
                        ELSE IF k = Frame.atom
                             THEN [heap[k] EXCEPT !.unknown = Append(old, Child)]
                             ELSE heap[k]]
  /\ PassOver(Child)
  /\ UNCHANGED <<atoms, ret, result, doing, sound>>

\* dinf_t begins with no list: its first field, dref_, is taken for one.  A
\* dref that is there already is read as if it were a list, which is undefined.
UnknownInDinf ==
  /\ InLoop /\ IsUnknown(Child) /\ atoms[Frame.atom].type = "dinf"
  /\ LET dref == heap[Frame.atom].slots["dref"]
     IN  /\ heap' = [k \in DOMAIN heap \cup {Child} |->
                      IF k = Child THEN Fresh("unknown")
                      ELSE IF k = Frame.atom /\ dref = 0
                           THEN [heap[k] EXCEPT !.slots["dref"] = Child]
                      ELSE IF k = dref THEN [heap[k] EXCEPT !.unknown = Append(@, Child)]
                      ELSE heap[k]]
         /\ sound' = (sound /\ (dref # 0 => atoms[dref].type # "dref"))
  /\ PassOver(Child)
  /\ UNCHANGED <<atoms, ret, result, doing>>

\* A known atom without children: its reader is called.
Leaf ==
  /\ InLoop /\ Knows(Frame.atom, atoms[Child].type) /\ ~ IsContainer(Child)
  /\ LET left == Reader(atoms[Child])
     IN  /\ heap' = IF left = Refused THEN heap
                    ELSE [k \in DOMAIN heap \cup {Child} |->
                           IF k = Child THEN Fresh(atoms[k].type) ELSE heap[k]]
         /\ ret' = [atom |-> Child, null |-> left # Read]
  /\ doing' = "deliver"
  /\ UNCHANGED <<atoms, stack, result, sound>>

\* A known container: its reader calls atom_reader in turn.
Enter ==
  /\ InLoop /\ Knows(Frame.atom, atoms[Child].type) /\ IsContainer(Child)
  /\ heap' = [k \in DOMAIN heap \cup {Child} |->
               IF k = Child THEN Fresh(atoms[k].type) ELSE heap[k]]
  /\ stack' = Append(stack, [atom |-> Child, next |-> Child + 1])
  /\ UNCHANGED <<atoms, ret, result, doing, sound>>

AtEnd ==
  /\ doing = "loop" /\ Child > LastIn(Frame.atom)
  /\ result' = TRUE /\ doing' = "check"
  /\ UNCHANGED <<atoms, stack, heap, ret, sound>>

\* Mutant of Break: where the loop is left does not matter.
BreakUnnoticed(j) == result' = TRUE /\ doing' = "check" /\ UNCHANGED stack

\* The loop is left at the payload of the child it has just read: that is
\* the end only if the child is the last one and empty.
Break(j) ==
  /\ result' = (atoms[j].size = 0 /\ LastIn(j) = LastIn(Frame.atom))
  /\ doing' = "check"
  /\ UNCHANGED stack

\* The reader of a child returned NULL.
ChildFailed ==
  /\ doing = "deliver" /\ ret.null
  /\ Break(ret.atom)
  /\ UNCHANGED <<atoms, heap, ret, sound>>

\* Most destinations store the child, over what they had.
Store ==
  /\ doing = "deliver" /\ ~ ret.null
  /\ atoms[ret.atom].type \notin {"trak", "trex"}
  /\ heap' = [heap EXCEPT ![Frame.atom].slots[Slot(atoms[ret.atom].type)] = ret.atom]
  /\ PassOver(ret.atom) /\ doing' = "loop"
  /\ UNCHANGED <<atoms, ret, result, sound>>

Handler(k) == atoms[heap[heap[k].slots["mdia"]].slots["hdlr"]].handler

TableFull ==
  /\ doing = "deliver" /\ ~ ret.null
  /\ atoms[ret.atom].type \in {"trak", "trex"}
  /\ Len(heap[Frame.atom].tracks) = MAX_TRACKS
  /\ Exit(ret.atom)
  /\ Break(ret.atom)
  /\ UNCHANGED <<atoms, ret>>

\* Mutant of IgnoreTrak: the track that is ignored is counted all the same.
IgnoreTrakCounted ==
  /\ doing = "deliver" /\ ~ ret.null /\ atoms[ret.atom].type = "trak"
  /\ Len(heap[Frame.atom].tracks) < MAX_TRACKS
  /\ Handler(ret.atom) \notin {"vide", "soun"}
  /\ sound' = (sound /\ IsTree(ret.atom))
  /\ heap' = [k \in DOMAIN heap \ Reached[ret.atom] |->
               IF k = Frame.atom
               THEN [heap[k] EXCEPT !.tracks = Append(@, ret.atom)] ELSE heap[k]]
  /\ PassOver(ret.atom) /\ doing' = "loop"
  /\ UNCHANGED <<atoms, ret, result>>

\* moov_add_trak: a track of another kind is freed and forgotten.
IgnoreTrak ==
  /\ doing = "deliver" /\ ~ ret.null /\ atoms[ret.atom].type = "trak"
  /\ Len(heap[Frame.atom].tracks) < MAX_TRACKS
  /\ Handler(ret.atom) \notin {"vide", "soun"}
  /\ Exit(ret.atom)
  /\ PassOver(ret.atom) /\ doing' = "loop"
  /\ UNCHANGED <<atoms, ret, result>>

AddTrack ==
  /\ doing = "deliver" /\ ~ ret.null
  /\ \/ atoms[ret.atom].type = "trex"
     \/ atoms[ret.atom].type = "trak" /\ Handler(ret.atom) \in {"vide", "soun"}
  /\ Len(heap[Frame.atom].tracks) < MAX_TRACKS
  /\ heap' = [heap EXCEPT ![Frame.atom].tracks = Append(@, ret.atom)]
  /\ PassOver(ret.atom) /\ doing' = "loop"
  /\ UNCHANGED <<atoms, ret, result, sound>>

\* The mandatory children, whatever atom_reader has returned.
Complete(k) ==
  \A c \in Containers[atoms[k].type].needs :
    IF c \in {"trak", "trex"} THEN heap[k].tracks # <<>> ELSE heap[k].slots[c] # 0

\* stsd_parse: sample entries are understood only if they are of a picture
\* or of sound.
StsdParsed(k) ==
  LET mdia == heap[k].slots["mdia"]
      stbl == heap[heap[mdia].slots["minf"]].slots["stbl"]
  IN  Handler(k) \in {"vide", "soun"} => atoms[heap[stbl].slots["stsd"]].parses

Good(k) ==
  /\ result
  /\ Complete(k)
  /\ atoms[k].type = "trak" => StsdParsed(k)

Accept ==
  /\ doing = "check" /\ Good(Frame.atom)
  /\ ret' = [atom |-> Frame.atom, null |-> FALSE]
  /\ stack' = Below /\ doing' = IF Below = <<>> THEN "done" ELSE "deliver"
  /\ UNCHANGED <<atoms, heap, result, sound>>

\* Mutant of Reject: the atom is not freed.
RejectLeaks ==
  /\ doing = "check" /\ ~ Good(Frame.atom)
  /\ ret' = [atom |-> Frame.atom, null |-> TRUE]
  /\ stack' = Below /\ doing' = IF Below = <<>> THEN "done" ELSE "deliver"
  /\ UNCHANGED <<atoms, heap, result, sound>>

Reject ==
  /\ doing = "check" /\ ~ Good(Frame.atom)
  /\ Exit(Frame.atom)
  /\ ret' = [atom |-> Frame.atom, null |-> TRUE]
  /\ stack' = Below /\ doing' = IF Below = <<>> THEN "done" ELSE "deliver"
  /\ UNCHANGED <<atoms, result>>

TreeNext ==
  \/ BadHeader \/ Unknown \/ UnknownInDinf \/ Leaf \/ Enter \/ AtEnd
  \/ ChildFailed \/ Store \/ TableFull \/ IgnoreTrak \/ AddTrack
  \/ Accept \/ Reject

TreeSpec == TreeInit /\ [][TreeNext]_treeVars

-----------------------------------------------------------------------------
\* Only for these the readers are right: dinf holds nothing but a dref.
Ordinary ==
  \A k \in DOMAIN atoms :
    atoms[k].type = "dinf" => \A j \in k + 1 .. LastIn(k) : atoms[j].type = "dref"

\* Objects the open calls and the last reader answer for.
Roots ==
  [n \in DOMAIN stack |-> stack[n].atom]
  \o IF ret.atom # 0 /\ ~ ret.null /\ doing \in {"deliver", "done"} THEN <<ret.atom>> ELSE <<>>

\* No object is freed twice, and none that has been freed can be reached: each
\* object that is reached is allocated, and in one way only.
OwnedOnce ==
  Ordinary =>
    /\ sound
    /\ \A n \in DOMAIN Roots : IsTree(Roots[n])
    /\ \A m, n \in DOMAIN Roots : m # n => Reached[Roots[m]] \cap Reached[Roots[n]] = {}

\* The children of atom k.
Kids(k) == {j \in k + 1 .. LastIn(k) : atoms[j].depth = atoms[k].depth + 1}

\* What the readers should do, from the atoms alone.  fine[k] says that atom k can
\* be read; the child of a kind that counts is the last one that can.
LastOf(S) == CHOOSE j \in S : \A i \in S : i <= j
ChildOf(k, fine, type) == LastOf({j \in Kids(k) : fine[j] /\ atoms[j].type = type})
KindOf(k, fine) == atoms[ChildOf(ChildOf(k, fine, "mdia"), fine, "hdlr")].handler

\* The tracks among the children of atom k, and those that are not ignored.
TrackKids(k, fine) ==
  {j \in Kids(k) : fine[j] /\ atoms[j].type \in {"trak", "trex"} /\ Knows(k, atoms[j].type)}
Playable(k, fine) ==
  {j \in TrackKids(k, fine) : atoms[j].type = "trex" \/ KindOf(j, fine) \in {"vide", "soun"}}

\* Every child can be read (an empty one at the end is let off), there is room for
\* all tracks, the mandatory ones are there, and the sample entries make sense.
FineContainer(k, fine) ==
  /\ \A j \in Kids(k) :
       /\ atoms[j].type # "bad"
       /\ Knows(k, atoms[j].type) /\ ~ fine[j] => atoms[j].size = 0 /\ LastIn(j) = LastIn(k)
  /\ \A j \in TrackKids(k, fine) : Cardinality({i \in Playable(k, fine) : i < j}) < MAX_TRACKS
  /\ \A c \in Containers[atoms[k].type].needs :
       IF c \in {"trak", "trex"} THEN Playable(k, fine) # {}
       ELSE \E j \in Kids(k) : fine[j] /\ atoms[j].type = c
  /\ atoms[k].type = "trak" /\ KindOf(k, fine) \in {"vide", "soun"} =>
       LET stbl == ChildOf(ChildOf(ChildOf(k, fine, "mdia"), fine, "minf"), fine, "stbl")
       IN  atoms[ChildOf(stbl, fine, "stsd")].parses

Fine ==
  LET fine[k \in DOMAIN atoms] ==
        IF IsContainer(k) THEN FineContainer(k, [j \in k + 1 .. LastIn(k) |-> fine[j]])
        ELSE /\ \E c \in DOMAIN Containers : atoms[k].type \in Containers[c].knows
             /\ Reader(atoms[k]) = Read
  IN  fine

\* A file is refused exactly when an atom in it cannot be read (an empty one
\* at the end is let off), a mandatory one is missing, or there are too many
\* tracks; an accepted one has all its pictures and sounds, in order.
AcceptsExactly ==
  doing = "done" /\ Ordinary =>
    /\ ret.null <=> ~ Fine[1]
    /\ ~ ret.null => /\ Range(heap[1].tracks) = Playable(1, Fine)
                     /\ \A m, n \in DOMAIN heap[1].tracks :
                          m < n => heap[1].tracks[m] < heap[1].tracks[n]

\* What may be forgotten: an object that is replaced by a later one of its
\* kind, a reader's own when it fails, an unknown atom before a big one.
Forgettable ==
  {j \in DOMAIN atoms :
     \E k \in DOMAIN atoms : j \in Kids(k) /\
       \/ ~ IsContainer(j) /\ Knows(k, atoms[j].type) /\ Reader(atoms[j]) = Leaked
       \/ \E i \in Kids(k) : i > j /\
            \/ /\ Knows(k, atoms[i].type) /\ Knows(k, atoms[j].type)
               /\ Slot(atoms[i].type) = Slot(atoms[j].type)
               /\ atoms[i].type \notin {"trak", "trex"}
            \/ ~ Knows(k, atoms[i].type) /\ atoms[i].size > 1024 * 1024 - 8}

\* Nothing else leaks: what is allocated is reached, or is an atom that may be
\* forgotten or inside of one.
NothingElseLeaks ==
  Ordinary => \A k \in DOMAIN heap :
    \/ \E n \in DOMAIN Roots : k \in Reached[Roots[n]]
    \/ \E j \in Forgettable : k \in j .. LastIn(j)
=============================================================================
