----------------------------- MODULE MCMp4Crop ------------------------------
(***************************************************************************)
(* The tables of MCSampleIndex, and of tracks with up to six samples in up *)
(* to three chunks, one to three in each; cropped to ranges that begin and *)
(* end within samples, between them, and behind the last.  A tick is 2 ms. *)
(***************************************************************************)
EXTENDS MCSampleIndex, Mp4Crop

Samples(m, n) ==
  Sum([c \in 1 .. n |-> m[Max({e \in DOMAIN m : m[e].chunk < c})].samples], n)

Regular ==
  UNION {
    {x \in [stco : {SubSeq(<<10, 40, 70>>, 1, n)},
            stsc : {m \in UNION {[1 .. k -> [chunk : 0 .. n - 1, samples : 1 .. 3]] : k \in 1 .. 3} :
                      m[1].chunk = 0 /\ \A k \in 2 .. Len(m) : m[k - 1].chunk < m[k].chunk},
            stsz : {[sample_size |-> 0, sizes |-> SubSeq(<<1, 2, 3, 4, 5, 6>>, 1, k)] : k \in 1 .. 6},
            stts : {<<[count |-> 1, duration |-> 2], [count |-> k, duration |-> 3]>> : k \in 1 .. 5},
            ctts : {<<>>, <<[count |-> 2, offset |-> 1], [count |-> 4, offset |-> 7]>>},
            stss : {{}, {1, 3}}] :
       /\ Samples(x.stsc, n) = Len(x.stsz.sizes)
       /\ x.stts[2].count + 1 = Len(x.stsz.sizes)
       /\ \A k \in x.stss : k <= Len(x.stsz.sizes)} : n \in 1 .. 3}

MCCropTables == MCTables \cup Regular
MCOthers == {[start_offset |-> 110, end_offset |-> 0], [start_offset |-> 45, end_offset |-> 60]}
MCStartArgs == {-1, 0, 5, 10, 16, 22}
MCEndArgs   == {-1, 4, 12, 18, 30, 60}
=============================================================================
