----------------------------- MODULE RunLength -----------------------------
(***************************************************************************)
(* Run length coded tables, as stts, ctts and stsc are, and what           *)
(* mp4_module.h does to crop them: a walk over the entries up to the one   *)
(* that has the wanted item, and a cut within that entry.                  *)
(***************************************************************************)
EXTENDS Integers, Sequences, SequencesExt

\* How long the samples of an entry of stts last together.
Span(run) == run.count * run.duration

\* The entries of a table together, up to the one numbered e.
Sum(weights, e) ==
  LET sum[d \in 0 .. e] == IF d = 0 THEN 0 ELSE sum[d - 1] + weights[d]
  IN  sum[e]

\* The first entry with which they come to more than at, or one more than there are.
FirstBeyond(weights, at) ==
  Min({Len(weights) + 1} \cup {e \in DOMAIN weights : at < Sum(weights, e)})

Counts(runs) == [e \in DOMAIN runs |-> runs[e].count]
Spans(runs)  == [e \in DOMAIN runs |-> Span(runs[e])]

\* A table from the item numbered rest of its entry e on, and one up to that item.
LeftCrop(runs, e, rest) ==
  <<[runs[e] EXCEPT !.count = @ - rest]>> \o SubSeq(runs, e + 1, Len(runs))
RightCrop(runs, e, rest) ==
  Append(SubSeq(runs, 1, e - 1), [runs[e] EXCEPT !.count = rest])

\* A table with one entry per item.
Expanded(runs) == FlattenSeq([e \in DOMAIN runs |-> [n \in 1 .. runs[e].count |-> runs[e]]])
=============================================================================
