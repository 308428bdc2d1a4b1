----------------------------- MODULE MCTranscode -----------------------------
(***************************************************************************)
(* Segments with video, with audio or with both, in either order of the    *)
(* streams, or with neither; up to four packets, at most one of them       *)
(* broken; a decoder that keeps back up to two frames, an encoder that     *)
(* keeps back up to one; sources narrower than, as wide as and wider than  *)
(* what is asked for; room for three packets in the output.                *)
(***************************************************************************)
EXTENDS Transcode

MCWidth == 640
MCCapacity == 3

Layouts == {<<>>, <<"vide">>, <<"soun">>, <<"vide", "soun">>, <<"soun", "vide">>,
            <<"vide", "unknown">>}
PacketSeqs(n) ==
  UNION {[1..k -> [stream : 1..n, bad : BOOLEAN]] : k \in 0..4}
AtMostOneBad(ps) == Cardinality({k \in DOMAIN ps : ps[k].bad}) <= 1
MCInputs ==
  {[streams |-> layout, packets |-> ps, width |-> w, delay |-> d, hold |-> h] :
     layout \in {<<>>}, ps \in {<<>>}, w \in {0}, d \in {0}, h \in {0}}
  \cup
  UNION {{[streams |-> layout, packets |-> ps, width |-> w, delay |-> d, hold |-> h] :
     ps \in {q \in PacketSeqs(Len(layout)) :
               /\ AtMostOneBad(q)
               /\ \A k \in DOMAIN q : q[k].bad => layout[q[k].stream] = "vide"},
     w \in {320, 640, 1280}, d \in 0..2, h \in 0..1} : layout \in Layouts \ {<<>>}}
=============================================================================
