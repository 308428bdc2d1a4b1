------------------------------- MODULE Merge --------------------------------
(***************************************************************************)
(* What the transport stream of a segment promises: the samples of its     *)
(* tracks, each track's in order, merged by decoding time.  A track is a   *)
(* record of its kind and its samples; a sample has a decoding time, a     *)
(* size and, for video, whether its NAL units add up (ok).                 *)
(***************************************************************************)
EXTENDS Integers, Sequences

VARIABLES
  frags,     \* the tracks of the segment
  first,     \* the next sample of each track
  played     \* the samples sent so far, <<track, number>>, in pairs: the
             \* first was sent before the second, or is the same

vars == <<frags, first, played>>

Left(i) == first[i] <= Len(frags[i].samples)

\* No picture fits into so few bytes, and broken NAL units cannot be converted.
Unplayable(f, s) == f.kind = "vide" /\ (s.size < 44 \/ ~ s.ok)

Init ==
  /\ first = [i \in DOMAIN frags |-> 1]
  /\ played = {}

Sent == {pair[2] : pair \in played}

\* The sample that is due goes out next: none of the others is due earlier.
Take(i) ==
  LET s   == frags[i].samples[first[i]]
      new == <<i, first[i]>>
  IN  /\ Left(i)
      /\ \A j \in DOMAIN frags : Left(j) => s.dts <= frags[j].samples[first[j]].dts
      /\ first' = [first EXCEPT ![i] = @ + 1]
      /\ played' = IF Unplayable(frags[i], s) THEN played
                   ELSE played \cup {<<x, new>> : x \in Sent \cup {new}}
      /\ UNCHANGED frags

Next == \E i \in DOMAIN frags : Take(i)

Spec == Init /\ [][Next]_vars
=============================================================================
