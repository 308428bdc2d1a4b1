--------------------------- MODULE MCSampleIndex ----------------------------
(***************************************************************************)
(* Tracks of one to three chunks, one behind the other, with gaps, or in   *)
(* another order, with chunk maps of every shape, a common sample size or  *)
(* one of each, and tables that have fewer or more samples than there are. *)
(***************************************************************************)
EXTENDS SampleIndex

Places3 == {<<10, 30, 50>>, <<10, 18, 40>>, <<50, 10, 30>>}

Maps(n) ==
  {m \in UNION {[1 .. k -> [chunk : 0 .. n - 1, samples : 0 .. 2]] : k \in 1 .. 2} :
     m[1].chunk = 0 /\ \A k \in 2 .. Len(m) : m[k - 1].chunk < m[k].chunk}

MCTables ==
  {x \in UNION {[stco : {SubSeq(p, 1, n) : p \in Places3}, stsc : Maps(n),
                 stsz : {[sample_size |-> 4, sizes |-> <<>>]}
                        \cup {[sample_size |-> 0, sizes |-> sizes] :
                                sizes \in {<<4>>, <<3, 5>>, <<6, 0, 2>>, <<1, 2, 3, 4, 5>>}},
                 stts : {<<>>, <<[count |-> 1, duration |-> 2]>>,
                         <<[count |-> 1, duration |-> 2], [count |-> 2, duration |-> 3]>>},
                 ctts : {<<>>, <<[count |-> 2, offset |-> 1], [count |-> 4, offset |-> 7]>>},
                 stss : {{}, {1}, {1, 2}}] : n \in 1 .. 3} :
     LET mapped == FoldFunction(LAMBDA m, sum : m + sum, 0,
                     [c \in 1 .. Len(x.stco) |->
                        x.stsc[CHOOSE e \in DOMAIN x.stsc :
                                 /\ x.stsc[e].chunk < c
                                 /\ \A d \in DOMAIN x.stsc : x.stsc[d].chunk < c => d <= e].samples])
         count  == IF x.stsz.sample_size = 0 THEN Len(x.stsz.sizes) ELSE mapped
         timed  == FoldFunction(LAMBDA m, sum : m + sum, 0,
                                [e \in DOMAIN x.stts |-> x.stts[e].count])
     IN  timed <= count /\ \A n \in x.stss : n <= count}
=============================================================================
