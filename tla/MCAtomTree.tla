----------------------------- MODULE MCAtomTree -----------------------------
(***************************************************************************)
(* Files for the readers: a full moov with one change anywhere in it, a    *)
(* small one with two changes, and sequences of small tracks of all kinds, *)
(* more than fit.  A change leaves an atom out, repeats it, makes it too   *)
(* small or its sample entries meaningless, or puts an unknown, a big or a *)
(* malformed atom behind it.                                               *)
(***************************************************************************)
EXTENDS AtomTree

Atom(type, depth) ==
  [type |-> type, depth |-> depth, last |-> 0, size |-> 120, entries |-> 2, version |-> 0,
   fixed |-> FALSE, handler |-> "vide", parses |-> TRUE]

Tree(types, depths) == [k \in DOMAIN types |-> Atom(types[k], depths[k])]

Full == Tree(
  <<"moov", "mvhd", "trak", "tkhd", "mdia", "mdhd", "hdlr", "minf", "vmhd", "dinf", "dref",
    "stbl", "stsd", "stts", "stss", "stsc", "stsz", "stco", "ctts", "edts", "elst",
    "mvex", "trex">>,
  <<0, 1, 1, 2, 2, 3, 3, 3, 4, 4, 5, 4, 5, 5, 5, 5, 5, 5, 5, 2, 3, 1, 2>>)

SmallTrack == Tree(
  <<"trak", "tkhd", "mdia", "mdhd", "hdlr", "minf", "stbl", "stsd", "stts">>,
  <<1, 2, 2, 3, 3, 3, 4, 5, 5>>)
Small == Tree(<<"moov", "mvhd">>, <<0, 1>>) \o SmallTrack

OfKind(track, kind) == [k \in DOMAIN track |-> [track[k] EXCEPT !.handler = kind]]
Tracks(kinds) == FlattenSeq([n \in DOMAIN kinds |-> OfKind(SmallTrack, kinds[n])])

End(f, k) ==
  LET after == {j \in k + 1 .. Len(f) : f[j].depth <= f[k].depth}
  IN  IF after = {} THEN Len(f) ELSE (CHOOSE j \in after : \A i \in after : j <= i) - 1

Before(f, k) == SubSeq(f, 1, k - 1)
Inside(f, k) == SubSeq(f, k, End(f, k))
Behind(f, k) == SubSeq(f, End(f, k) + 1, Len(f))

\* A container without children is empty.
Sized(f) ==
  [k \in DOMAIN f |->
     LET last == End(f, k)
     IN  [f[k] EXCEPT !.last = last,
                      !.size = IF f[k].type \in DOMAIN Containers /\ last = k THEN 0 ELSE @]]

Changes(f) ==
  UNION {
    {Before(f, k) \o Behind(f, k),
     Before(f, k) \o Inside(f, k) \o Inside(f, k) \o Behind(f, k)}
    \cup {[f EXCEPT ![k].size = size] : size \in {0, 8, 20, 110}}
    \cup {[f EXCEPT ![k].version = 1, ![k].size = 90],
          [f EXCEPT ![k].fixed = TRUE, ![k].size = 12], [f EXCEPT ![k].parses = FALSE]}
    \cup {Before(f, k) \o Inside(f, k) \o <<more>> \o Behind(f, k) :
            more \in {[Atom("free", f[k].depth) EXCEPT !.size = 20],
                      [Atom("free", f[k].depth) EXCEPT !.size = 2000000],
                      Atom("bad", f[k].depth)}} : k \in 2 .. Len(f)}

\* Every second atom that matters is left out, emptied or malformed in turn.
FewChanges(f) ==
  {f} \cup UNION {{Before(f, k) \o Behind(f, k), [f EXCEPT ![k].size = 0]} :
                   k \in {j \in 2 .. Len(f) : f[j].type \in {"trak", "hdlr", "stts", "free"}}}

Candidates ==
  {Sized(f) : f \in
     {Full} \cup Changes(Full) \cup UNION {FewChanges(f) : f \in Changes(Small)}
     \cup {Tree(<<"moov", "mvhd">>, <<0, 1>>) \o Tracks(kinds) :
             kinds \in [1 .. 3 -> {"vide", "soun", "hint"}]}
     \cup {Small \o Tree(<<"mvex", "trex", "trex", "trex">>, <<1, 2, 2, 2>>)}}

MCFiles == {f \in Candidates : Nested(f) /\ \A k \in DOMAIN f : Measured(f[k])}
=============================================================================
