--------------------------- MODULE Transcode_proof ---------------------------
(***************************************************************************)
(* Theorems about Transcode, for segments of any streams and packets,      *)
(* codecs that keep back any number of frames, and failures anywhere.      *)
(***************************************************************************)
EXTENDS Transcode, SequenceTheorems, TLAPS

\* A packet has been read that cannot be decoded.
Broken == \E k \in 1 .. pos : input.packets[k].bad

\* What may be allocated, and when.
Contexts == Opened \cup {"ofmt_ctx", "io_write_context", "exchange_area_write", "filter_ctx"}
Frame == IF Broken THEN {"frame"} ELSE {}
Allowed ==
  Contexts \cup (IF made = 0 THEN {"vdec_opt"} ELSE {})
           \cup (IF closed THEN {} ELSE {"filter_graph", "option"}) \cup Frame

TypeInv ==
  /\ input \in Inputs
  /\ pc \in {"open", "prepare", "filters", "read", "drain", "flush", "flush_decoder",
             "flush_encoder", "end", "returned", "undefined"}
  /\ pos \in Nat /\ skipped \in Nat /\ made \in Nat
  /\ held \in Seq(Nat) /\ kept \in Seq(Nat) /\ out \in Seq(Nat)
  /\ closed \in BOOLEAN

\* The loops: of reading, of fetching what the decoder holds, and of flushing.
Flushes == {"flush", "flush_decoder", "flush_encoder"}
Loops == {"read", "drain"} \cup Flushes

\* The stages are passed through in order: what has been made in each.
Stages ==
  /\ pc = "open" => owned = {"ifmt_ctx"}
  /\ pc = "prepare" => owned = Opened
  /\ pc \in {"open", "prepare"} => made = 0
  /\ pc \in {"open", "prepare", "filters"} => graphs = {}
  /\ pc \in {"filters"} \cup Loops =>
       /\ made = Len(input.streams) /\ made # 0
       /\ owned \subseteq Contexts \cup Frame
  /\ pc \in {"open", "prepare", "filters"} \cup Loops => ~ closed
  /\ pc = "end" => owned \subseteq Allowed
  /\ pc = "end" /\ made < Len(input.streams) => ret = "error"

\* While no packet is broken, each frame that is still to be fetched is held back,
\* and will be fetched with an empty packet.
Counted ==
  ~ Broken =>
    /\ pc \in {"open", "prepare", "filters", "read", "drain"} => skipped <= Len(held)
    /\ pc = "drain" => packet.number = 0

IInv == TypeInv /\ Stages /\ Counted /\ ReleasesAll

-----------------------------------------------------------------------------

\* Of what it holds the decoder gives one frame.
LEMMA OneLess ==
  ASSUME NEW s \in Seq(Nat), s # <<>>
  PROVE  /\ RemoveAt(s, Decoded(s)) \in Seq(Nat)
         /\ Len(RemoveAt(s, Decoded(s))) = Len(s) - 1
         /\ s[Decoded(s)] \in Nat
<1>1. Len(s) \in Nat \ {0} /\ \A k \in 1 .. Len(s) : s[k] \in Nat
  BY EmptySeq, ElementOfSeq
<1>2. SubSeq(s, 1, 0) \in Seq(Nat) /\ Len(SubSeq(s, 1, 0)) = 0
  BY SubSeqProperties
<1>3. SubSeq(s, 2, Len(s)) \in Seq(Nat) /\ Len(SubSeq(s, 2, Len(s))) = Len(s) - 1
  BY HeadTailProperties, TailIsSubSeq
<1>4. RemoveAt(s, 1) = SubSeq(s, 1, 0) \o SubSeq(s, 2, Len(s))
  BY DEF RemoveAt
<1>5. /\ RemoveAt(s, 1) \in Seq(Nat)
      /\ Len(RemoveAt(s, 1)) = Len(SubSeq(s, 1, 0)) + Len(SubSeq(s, 2, Len(s)))
  <2> HIDE <1>1
  <2> QED
    BY <1>2, <1>3, <1>4, ConcatProperties
<1>6. s[1] \in Nat
  BY <1>1
<1>7. Decoded(s) = 1
  BY DEF Decoded
<1> QED
  BY <1>1, <1>2, <1>3, <1>5, <1>6, <1>7

\* encode_write_frame keeps the types, and whatever it writes fits unless it
\* ends in what is undefined.
LEMMA EncodeFacts ==
  ASSUME TypeInv, NEW frame \in Nat, NEW next, Encode(frame, next)
  PROVE  /\ kept' \in Seq(Nat) /\ out' \in Seq(Nat)
         /\ pc' = next \/ (pc' = "undefined" /\ Len(out') > Capacity)
<1> DEFINE all == Append(kept, frame)
<1> DEFINE given == IF Len(all) > input.hold THEN <<Head(all)>> ELSE <<>>
<1>1. all \in Seq(Nat) /\ all # <<>>
  <2>1. kept \in Seq(Nat)
    BY DEF TypeInv
  <2>2. all \in Seq(Nat) /\ Len(all) = Len(kept) + 1
    BY <2>1, AppendProperties
  <2> QED
    BY <2>1, <2>2, LenProperties, EmptySeq
<1>2. given \in Seq(Nat)
  BY <1>1
<1>3. Tail(all) \in Seq(Nat)
  BY <1>1
<1>4. /\ out' = out \o given /\ kept' \in {all, Tail(all)}
      /\ pc' = IF Len(out) + Len(given) <= Capacity THEN next ELSE "undefined"
  BY DEF Encode, Written, Roomy
<1> HIDE DEF all, given
<1>5. out' \in Seq(Nat) /\ Len(out') = Len(out) + Len(given)
  BY <1>2, <1>4 DEF TypeInv
<1>6. Len(out) \in Nat /\ Len(given) \in Nat /\ Capacity \in Nat
  BY <1>2, TranscodeAssumption DEF TypeInv
<1>7. kept' \in Seq(Nat)
  BY <1>1, <1>3, <1>4
<1>8. pc' = next \/ (pc' = "undefined" /\ Len(out') > Capacity)
  <2>1. CASE Len(out) + Len(given) <= Capacity
    BY <2>1, <1>4
  <2>2. CASE ~ (Len(out) + Len(given) <= Capacity)
    BY <2>2, <1>4, <1>5, <1>6
  <2> QED
    BY <2>1, <2>2
<1> QED
  BY <1>5, <1>7, <1>8

\* The streams are numbered from 1.
LEMMA StreamsFinite == TypeInv => Len(input.streams) \in Nat /\ Streams = 1 .. Len(input.streams)
BY TranscodeAssumption DEF TypeInv, IsInput, Streams

\* What could not be decoded stays so.
LEMMA BrokenStays ==
  ASSUME TypeInv, input' = input, pos' \in {pos, pos + 1}, Broken
  PROVE  Broken'
BY DEF TypeInv, Broken

\* The invariant holds where the function has been called and nothing is done.
LEMMA InitIInv == Init => IInv
<1> SUFFICES ASSUME Init PROVE IInv
  OBVIOUS
<1>1. TypeInv
  <2>1. <<>> \in Seq(Nat)
    BY EmptySeq
  <2>2. /\ input \in Inputs /\ pc = "open" /\ pos = 0 /\ skipped = 0 /\ made = 0
        /\ held = <<>> /\ kept = <<>> /\ out = <<>> /\ closed = FALSE
    BY DEF Init
  <2> QED
    BY <2>1, <2>2 DEF TypeInv
<1>2. Stages
  BY DEF Init, Stages, Loops, Flushes
<1>3. Counted
  BY DEF Init, Counted
<1>4. ReleasesAll
  BY DEF Init, ReleasesAll
<1> QED
  BY <1>1, <1>2, <1>3, <1>4 DEF IInv

\* What the steps within the loops have in common.
LEMMA LoopStages ==
  ASSUME TypeInv, Stages, pc \in Loops, pc' \in Loops \cup {"end", "undefined"},
         UNCHANGED <<input, made>>, closed' = closed \/ pc' = "end", closed' \in BOOLEAN,
         pos' \in {pos, pos + 1}, owned' \subseteq owned \cup Frame'
  PROVE  Stages'
<1>1. owned \subseteq Contexts \cup Frame /\ made = Len(input.streams) /\ made # 0 /\ ~ closed
  BY DEF Stages, Loops, Flushes
<1>2. Frame \subseteq Frame'
  BY BrokenStays DEF Frame
<1>3. owned' \subseteq Contexts \cup Frame'
  BY <1>1, <1>2
<1>4. owned' \subseteq Allowed'
  BY <1>3 DEF Allowed, Contexts, Opened
<1>5. made' = Len(input.streams)' /\ made' # 0
  BY <1>1
<1>6. ~ (made' < Len(input.streams)')
  BY <1>1, StreamsFinite
<1>7. closed' => pc' = "end"
  BY <1>1
<1> QED
  BY <1>3, <1>4, <1>5, <1>6, <1>7 DEF Stages, Loops, Flushes

\* Every step of the function keeps the invariant.
LEMMA StepIInv == IInv /\ [Next]_vars => IInv'
<1> SUFFICES ASSUME IInv, [Next]_vars PROVE IInv'
  OBVIOUS
<1>0. /\ TypeInv /\ Stages /\ Counted /\ ReleasesAll
      /\ Len(input.streams) \in Nat /\ Streams = 1 .. Len(input.streams)
  BY StreamsFinite DEF IInv
<1>o. \A streams : WasSet("vdec_opt", streams) \subseteq {"vdec_opt"}
                  /\ WasSet("option", streams) \subseteq {"option"}
  BY DEF WasSet
<1>1. CASE OpenFails \/ OpenStops \/ Refuse \/ Open
  <2>1. /\ pc = "open" /\ made = 0 /\ graphs = {} /\ ~ closed
        /\ UNCHANGED <<input, made, stages>>
    BY <1>0, <1>1 DEF OpenFails, OpenStops, Refuse, Open, Stages, Loops, Flushes
  <2>2. TypeInv'
    BY <1>0, <1>1, <2>1 DEF OpenFails, OpenStops, Refuse, Open, TypeInv, stages
  <2>3. Stages'
    BY <1>0, <1>1, <1>o, <2>1
       DEF OpenFails, OpenStops, Refuse, Open, Stages, Loops, Flushes, Allowed, Contexts,
           Opened, stages
  <2>4. Counted'
    BY <1>0, <1>1, <2>1 DEF OpenFails, OpenStops, Refuse, Open, Counted, Broken, stages
  <2>5. ReleasesAll'
    BY <1>1 DEF OpenFails, OpenStops, Refuse, Open, ReleasesAll, Opened
  <2> QED
    BY <2>2, <2>3, <2>4, <2>5 DEF IInv
<1>2. CASE PrepareStops \/ HeaderFails \/ Prepare
  <2>1. /\ pc = "prepare" /\ owned = Opened /\ graphs = {} /\ ~ closed
        /\ UNCHANGED <<input, pos, packet, skipped, held, kept, out, graphs, i, closed>>
    BY <1>0, <1>2 DEF PrepareStops, HeaderFails, Prepare, Stages, stages
  <2>2. made' \in Nat /\ pc' \in {"end", "filters"}
    <3>1. CASE PrepareStops
      <4>1. pc' = "end" /\ \E s \in Streams : made' \in {s - 1, s}
        BY <3>1 DEF PrepareStops
      <4> QED
        BY <1>0, <4>1
    <3>2. CASE HeaderFails \/ Prepare
      BY <1>0, <3>2 DEF HeaderFails, Prepare
    <3> QED
      BY <1>2, <3>1, <3>2
  <2>3. TypeInv'
    BY <1>0, <2>1, <2>2 DEF TypeInv
  <2>4. Stages'
    <3>1. CASE PrepareStops \/ HeaderFails
      <4>1. pc' = "end" /\ ret' = "error" /\ owned' \subseteq Prepared \cup {"option"}
        BY <1>o, <3>1 DEF PrepareStops, HeaderFails
      <4> QED
        BY <2>1, <4>1 DEF Prepared, Stages, Loops, Flushes, Allowed, Contexts, Opened
    <3>2. CASE Prepare
      <4>1. /\ pc' = "filters" /\ owned' = Prepared /\ made' = Len(input.streams)
            /\ Streams # {}
        BY <3>2 DEF Prepare
      <4>2. made' # 0
        BY <1>0, <4>1
      <4> QED
        BY <2>1, <4>1, <4>2 DEF Prepared, Stages, Loops, Flushes, Contexts, Opened
    <3> QED
      BY <1>2, <3>1, <3>2
  <2>5. Counted'
    BY <1>0, <2>1, <2>2 DEF Counted, Broken
  <2>6. ReleasesAll'
    BY <2>2 DEF ReleasesAll
  <2> QED
    BY <2>3, <2>4, <2>5, <2>6 DEF IInv
<1>3. CASE FiltersFail
  <2>1. /\ pc = "filters" /\ graphs = {} /\ ~ closed /\ made = Len(input.streams)
        /\ owned \subseteq Contexts \cup Frame
        /\ UNCHANGED <<input, made, stages>> /\ ret' = "error"
        /\ owned' = owned \cup {"filter_ctx", "filter_graph"}
        /\ pc' \in {"end", "undefined"} /\ Videos # {}
    BY <1>0, <1>3 DEF FiltersFail, Stages, Loops, Flushes
  <2>2. TypeInv'
    BY <1>0, <2>1 DEF TypeInv, stages
  <2>3. Stages'
    BY <1>0, <2>1 DEF Stages, Loops, Flushes, Allowed, Contexts, Frame, Broken, stages
  <2>4. Counted'
    BY <2>1 DEF Counted
  <2>5. ReleasesAll'
    BY <2>1 DEF ReleasesAll, Videos, Streams, Kind, stages
  <2> QED
    BY <2>2, <2>3, <2>4, <2>5 DEF IInv
<1>4. CASE InitFilters
  <2>1. /\ pc = "filters" /\ pc' = "read"
        /\ UNCHANGED <<input, made, pos, packet, skipped, held, kept, out, i, closed>>
        /\ owned' = owned \cup {"filter_ctx"}
    BY <1>4 DEF InitFilters
  <2>2. TypeInv'
    BY <1>0, <2>1 DEF TypeInv
  <2>3. Stages'
    BY <1>0, <2>1 DEF Stages, Loops, Flushes, Contexts, Frame, Broken
  <2>4. Counted'
    BY <1>0, <2>1 DEF Counted, Broken
  <2>5. ReleasesAll'
    BY <2>1 DEF ReleasesAll
  <2> QED
    BY <2>2, <2>3, <2>4, <2>5 DEF IInv
<1> DEFINE Read == UNCHANGED <<input, made, encoder, graphs, owned, closed>> /\ pos' = pos + 1
<1>5. CASE Remux
  <2>1. /\ pc = "read" /\ Read /\ UNCHANGED <<skipped, held, kept>>
        /\ pc' \in {"read", "end", "undefined"}
    BY <1>5 DEF Remux, Reading, Fetch, loops
  <2>2. out' \in Seq(Nat) /\ (pc' = "undefined" => Len(out') > Capacity)
    <3>1. out \in Seq(Nat) /\ <<pos + 1>> \in Seq(Nat) /\ Len(<<pos + 1>>) = 1
          /\ Len(out) \in Nat /\ Capacity \in Nat
      BY <1>0, TranscodeAssumption DEF TypeInv
    <3>2. out \o <<pos + 1>> \in Seq(Nat) /\ Len(out \o <<pos + 1>>) = Len(out) + 1
      BY <3>1, ConcatProperties
    <3>3. CASE /\ out' = out \o <<pos + 1>>
               /\ pc' = IF Len(out) + Len(<<pos + 1>>) <= Capacity THEN "read" ELSE "undefined"
      BY <3>1, <3>2, <3>3
    <3>4. CASE pc' = "end" /\ out' = out
      BY <3>1, <3>4
    <3> QED
      BY <1>5, <3>3, <3>4 DEF Remux, Written, Roomy
  <2>3. TypeInv'
    BY <1>0, <2>1, <2>2 DEF TypeInv
  <2>4. Stages'
    BY <1>0, <2>1, LoopStages DEF TypeInv, Loops, Flushes
  <2>5. Counted'
    BY <1>0, <2>1, BrokenStays DEF Counted
  <2>6. ReleasesAll'
    BY <2>1, <2>2 DEF ReleasesAll
  <2> QED
    BY <2>3, <2>4, <2>5, <2>6 DEF IInv
<1>6. CASE DecodeFails
  <2>1. /\ pc = "read" /\ Read /\ UNCHANGED <<skipped, held, kept, out>> /\ pc' = "drain"
        /\ input.packets[pos + 1].bad
    BY <1>6 DEF DecodeFails, VideoFetched, Reading, Fetch, Next_, loops
  <2>2. TypeInv'
    BY <1>0, <2>1 DEF TypeInv
  <2>3. Stages'
    BY <1>0, <2>1, LoopStages DEF TypeInv, Loops, Flushes
  <2>4. Counted'
    <3>1. pos + 1 \in 1 .. pos'
      BY <1>0, <2>1 DEF TypeInv
    <3> QED
      BY <2>1, <3>1 DEF Counted, Broken
  <2>5. ReleasesAll'
    BY <2>1 DEF ReleasesAll
  <2> QED
    BY <2>2, <2>3, <2>4, <2>5 DEF IInv
<1>7. CASE NoFrame
  <2>1. /\ pc = "read" /\ Read /\ UNCHANGED <<kept, out>> /\ pc' = "read"
        /\ skipped' = skipped + 1 /\ held' = Append(held, pos + 1)
    BY <1>7 DEF NoFrame, VideoFetched, Reading, Fetch, loops
  <2>2. held' \in Seq(Nat) /\ Len(held') = Len(held) + 1 /\ Len(held) \in Nat
    BY <1>0, <2>1, AppendProperties DEF TypeInv
  <2>3. TypeInv'
    BY <1>0, <2>1, <2>2 DEF TypeInv
  <2>4. Stages'
    BY <1>0, <2>1, LoopStages DEF TypeInv, Loops, Flushes
  <2>5. Counted'
    BY <1>0, <2>1, <2>2, BrokenStays DEF Counted, TypeInv
  <2>6. ReleasesAll'
    BY <2>1 DEF ReleasesAll
  <2> QED
    BY <2>3, <2>4, <2>5, <2>6 DEF IInv
<1>8. CASE GotFrame
  <2> DEFINE all == Append(held, pos + 1)
  <2>1. /\ pc = "read" /\ Read /\ UNCHANGED skipped /\ held' = RemoveAt(all, Decoded(all))
        /\ Encode(all[Decoded(all)], "read") \/ EncodeFails \/ EncodeUnopened
    BY <1>8 DEF GotFrame, VideoFetched, Reading, Fetch, loops
  <2>2. all \in Seq(Nat) /\ Len(all) = Len(held) + 1 /\ all # <<>> /\ Len(held) \in Nat
    <3>1. held \in Seq(Nat) /\ Len(held) \in Nat /\ pos + 1 \in Nat
      BY <1>0 DEF TypeInv
    <3>2. all \in Seq(Nat) /\ Len(all) = Len(held) + 1
      BY <3>1, AppendProperties
    <3> QED
      BY <3>1, <3>2, EmptySeq
  <2> HIDE DEF all
  <2>3. held' \in Seq(Nat) /\ Len(held') = Len(held) /\ all[Decoded(all)] \in Nat
    BY <2>1, <2>2, OneLess
  <2>4. /\ kept' \in Seq(Nat) /\ out' \in Seq(Nat)
        /\ pc' \in {"read", "end", "undefined"}
        /\ pc' = "undefined" => Len(out') > Capacity \/ ~ encoder
    <3>1. CASE Encode(all[Decoded(all)], "read")
      BY <1>0, <2>3, <3>1, EncodeFacts
    <3>2. CASE EncodeFails \/ EncodeUnopened
      BY <1>0, <3>2 DEF EncodeFails, EncodeUnopened, TypeInv
    <3> QED
      BY <2>1, <3>1, <3>2
  <2>5. TypeInv'
    BY <1>0, <2>1, <2>3, <2>4 DEF TypeInv
  <2>6. Stages'
    BY <1>0, <2>1, <2>4, LoopStages DEF TypeInv, Loops, Flushes
  <2>7. Counted'
    BY <1>0, <2>1, <2>3, <2>4, BrokenStays DEF Counted
  <2>8. ReleasesAll'
    BY <1>0, <2>1, <2>4 DEF ReleasesAll, Stages, Loops, Flushes
  <2> QED
    BY <2>5, <2>6, <2>7, <2>8 DEF IInv
<1>9. CASE ReadEnds
  <2>1. /\ pc = "read" /\ pc' = "drain" /\ packet' = [stream |-> 1, number |-> 0]
        /\ UNCHANGED <<input, made, graphs, owned, closed, pos, skipped, held, kept, out>>
    BY <1>9 DEF ReadEnds, loops
  <2>2. TypeInv'
    BY <1>0, <2>1 DEF TypeInv
  <2>3. Stages'
    BY <1>0, <2>1, LoopStages DEF TypeInv, Loops, Flushes
  <2>4. Counted'
    BY <1>0, <2>1, BrokenStays DEF Counted
  <2>5. ReleasesAll'
    BY <2>1 DEF ReleasesAll
  <2> QED
    BY <2>2, <2>3, <2>4, <2>5 DEF IInv

<1> DEFINE Fetched == /\ pc = "drain" /\ skipped > 0 /\ skipped' = skipped - 1
                      /\ UNCHANGED <<input, made, graphs, closed, pos, packet>>
<1>10. CASE DrainOther
  <2>1. Fetched /\ UNCHANGED <<pc, held, kept, out, owned>>
    BY <1>10 DEF DrainOther, Draining, Drained
  <2>2. TypeInv'
    BY <1>0, <2>1 DEF TypeInv
  <2>3. Stages'
    BY <1>0, <2>1, LoopStages DEF TypeInv, Loops, Flushes
  <2>4. Counted'
    BY <1>0, <2>1, BrokenStays, LenProperties DEF Counted, TypeInv
  <2>5. ReleasesAll'
    BY <2>1 DEF ReleasesAll
  <2> QED
    BY <2>2, <2>3, <2>4, <2>5 DEF IInv
<1>11. CASE DrainNothing
  <2>1. /\ Fetched /\ UNCHANGED <<pc, held, kept, out>>
        /\ packet.number # 0 \/ held = <<>>
        /\ owned' \subseteq owned \cup {"frame"}
    BY <1>11 DEF DrainNothing, Draining, Drained
  <2>2. Broken
    BY <1>0, <2>1, EmptySeq DEF Counted, TypeInv
  <2>3. Broken'
    BY <1>0, <2>1, <2>2, BrokenStays
  <2>4. TypeInv'
    BY <1>0, <2>1 DEF TypeInv
  <2>5. Stages'
    <3>1. owned' \subseteq owned \cup Frame'
      BY <2>1, <2>3 DEF Frame
    <3> QED
      BY <1>0, <2>1, <3>1, LoopStages DEF TypeInv, Loops, Flushes
  <2>6. Counted'
    BY <2>3 DEF Counted
  <2>7. ReleasesAll'
    BY <2>1 DEF ReleasesAll
  <2> QED
    BY <2>4, <2>5, <2>6, <2>7 DEF IInv
<1>12. CASE DrainFrame
  <2>1. /\ Fetched /\ UNCHANGED <<owned, encoder>> /\ held # <<>>
        /\ held' = RemoveAt(held, Decoded(held))
        /\ Encode(held[Decoded(held)], "drain") \/ EncodeFails \/ EncodeUnopened
    BY <1>12 DEF DrainFrame, Draining, Drained
  <2>2. held' \in Seq(Nat) /\ Len(held') = Len(held) - 1 /\ held[Decoded(held)] \in Nat
        /\ Len(held) \in Nat
    BY <1>0, <2>1, OneLess, LenProperties DEF TypeInv
  <2>3. /\ kept' \in Seq(Nat) /\ out' \in Seq(Nat)
        /\ pc' \in {"drain", "end", "undefined"}
        /\ pc' = "undefined" => Len(out') > Capacity \/ ~ encoder
    <3>1. CASE Encode(held[Decoded(held)], "drain")
      BY <1>0, <2>2, <3>1, EncodeFacts
    <3>2. CASE EncodeFails \/ EncodeUnopened
      BY <1>0, <3>2 DEF EncodeFails, EncodeUnopened, TypeInv
    <3> QED
      BY <2>1, <3>1, <3>2
  <2>4. TypeInv'
    BY <1>0, <2>1, <2>2, <2>3 DEF TypeInv
  <2>5. Stages'
    BY <1>0, <2>1, <2>3, LoopStages DEF TypeInv, Loops, Flushes
  <2>6. Counted'
    BY <1>0, <2>1, <2>2, <2>3, BrokenStays DEF Counted, TypeInv
  <2>7. ReleasesAll'
    BY <1>0, <2>1, <2>3 DEF ReleasesAll, Stages, Loops, Flushes
  <2> QED
    BY <2>4, <2>5, <2>6, <2>7 DEF IInv
<1>13. CASE DrainEnds
  <2>1. /\ pc = "drain" /\ pc' = "flush"
        /\ UNCHANGED <<input, made, graphs, owned, closed, pos, skipped, held, kept, out>>
    BY <1>13 DEF DrainEnds, loops
  <2>2. TypeInv'
    BY <1>0, <2>1 DEF TypeInv
  <2>3. Stages'
    BY <1>0, <2>1, LoopStages DEF TypeInv, Loops, Flushes
  <2>4. Counted' /\ ReleasesAll'
    BY <2>1 DEF Counted, ReleasesAll
  <2> QED
    BY <2>2, <2>3, <2>4 DEF IInv
<1>14. CASE \/ FlushOther \/ FlushFilter \/ FlushDecoder \/ FlushDecoderEnds
             \/ FlushEncoder \/ FlushEncoderEnds \/ FlushUnopened \/ FlushFails
  <2>1. /\ pc \in Flushes /\ pc' \in Flushes \cup {"end", "undefined"}
        /\ UNCHANGED <<input, made, encoder, graphs, owned, closed, pos, skipped>>
    BY <1>14 DEF FlushOther, FlushFilter, FlushDecoder, FlushDecoderEnds, FlushEncoder,
         FlushEncoderEnds, FlushUnopened, FlushFails, Flushing, Unread, loops, Flushes
  <2>2. /\ held' \in Seq(Nat) /\ kept' \in Seq(Nat) /\ out' \in Seq(Nat)
        /\ pc' = "undefined" => Len(out') > Capacity \/ ~ encoder
    <3>1. /\ held \in Seq(Nat) /\ kept \in Seq(Nat) /\ out \in Seq(Nat)
          /\ Len(out) \in Nat /\ Capacity \in Nat
      BY <1>0, TranscodeAssumption DEF TypeInv
    <3>2. CASE \/ FlushOther \/ FlushFilter \/ FlushDecoderEnds \/ FlushEncoderEnds
               \/ FlushUnopened \/ FlushFails
      <4>1. UNCHANGED <<held, kept, out>> /\ (pc' = "undefined" => ~ encoder)
        BY <3>2, <2>1 DEF FlushOther, FlushFilter, FlushDecoderEnds, FlushEncoderEnds,
             FlushUnopened, FlushFails, Flushing
      <4> QED
        BY <3>1, <4>1
    <3>3. CASE FlushDecoder
      <4>1. /\ pc' = "flush_decoder" /\ UNCHANGED <<kept, out>>
            /\ held # <<>> /\ held' = RemoveAt(held, Decoded(held))
        BY <3>3 DEF FlushDecoder
      <4>2. held' \in Seq(Nat)
        BY <3>1, <4>1, OneLess
      <4> QED
        BY <3>1, <4>1, <4>2
    <3>4. CASE FlushEncoder
      <4>1. /\ kept # <<>> /\ held' = held /\ kept' = Tail(kept) /\ out' = out \o <<Head(kept)>>
            /\ pc' = IF Len(out) + Len(<<Head(kept)>>) <= Capacity
                     THEN "flush_encoder" ELSE "undefined"
        BY <3>4 DEF FlushEncoder, Written, Roomy
      <4>2. Head(kept) \in Nat /\ Tail(kept) \in Seq(Nat)
        BY <3>1, <4>1, HeadTailProperties
      <4>3. <<Head(kept)>> \in Seq(Nat) /\ Len(<<Head(kept)>>) = 1
        BY <4>2
      <4>4. out' \in Seq(Nat) /\ Len(out') = Len(out) + 1
        BY <3>1, <4>1, <4>3, ConcatProperties
      <4>5. pc' = "undefined" => ~ (Len(out) + 1 <= Capacity)
        BY <4>1, <4>3
      <4> QED
        BY <3>1, <4>1, <4>2, <4>4, <4>5
    <3> QED
      BY <1>14, <3>2, <3>3, <3>4
  <2>3. TypeInv'
    BY <1>0, <2>1, <2>2 DEF TypeInv, Flushes
  <2>4. Stages'
    BY <1>0, <2>1, LoopStages DEF TypeInv, Loops
  <2>5. Counted'
    BY <2>1 DEF Counted, Flushes
  <2>6. ReleasesAll'
    BY <1>0, <2>1, <2>2 DEF ReleasesAll, Stages, Loops, Flushes
  <2> QED
    BY <2>3, <2>4, <2>5, <2>6 DEF IInv
<1>15. CASE Trailer
  <2>1. /\ pc = "flush" /\ pc' = "end" /\ closed' = TRUE
        /\ UNCHANGED <<input, made, graphs, owned, pos, skipped, held, kept, out>>
    BY <1>15 DEF Trailer
  <2>2. TypeInv'
    BY <1>0, <2>1 DEF TypeInv
  <2>3. Stages'
    BY <1>0, <2>1, LoopStages DEF TypeInv, Loops, Flushes
  <2>4. Counted' /\ ReleasesAll'
    BY <2>1 DEF Counted, ReleasesAll
  <2> QED
    BY <2>2, <2>3, <2>4 DEF IInv
<1>16. CASE CloseUndefined
  <2>1. /\ pc = "end" /\ made < Len(input.streams) /\ pc' = "undefined"
        /\ UNCHANGED <<input, ret, made, owned, pos, skipped, held, kept, out, closed>>
    BY <1>16 DEF CloseUndefined, stages
  <2>2. TypeInv' /\ Stages' /\ Counted'
    BY <1>0, <2>1 DEF TypeInv, Stages, Loops, Flushes, Counted
  <2>3. ReleasesAll'
    BY <1>0, <2>1 DEF Stages, Loops, Flushes, ReleasesAll
  <2> QED
    BY <2>2, <2>3 DEF IInv
<1>17. CASE Close
  <2>1. /\ pc = "end" /\ pc' = "returned"
        /\ owned' = owned \ ({"ifmt_ctx", "filter_ctx", "io_read_context", "io_write_context"}
                                \cup IF made > 0 THEN {"ofmt_ctx"} ELSE {})
        /\ UNCHANGED <<input, ret, made, pos, skipped, held, kept, out, closed>>
    BY <1>17 DEF Close
  <2>2. TypeInv' /\ Stages' /\ Counted'
    BY <1>0, <2>1 DEF TypeInv, Stages, Loops, Flushes, Counted
  <2>3. ReleasesAll'
    <3>1. owned \subseteq Allowed /\ (made = 0 \/ made > 0)
      BY <1>0, <2>1 DEF Stages, Loops, Flushes, TypeInv
    <3> QED
      BY <2>1, <3>1 DEF ReleasesAll, Allowed, Contexts, Opened, Frame, Broken
  <2> QED
    BY <2>2, <2>3 DEF IInv
<1>18. CASE UNCHANGED vars
  BY <1>0, <1>18 DEF vars, IInv, TypeInv, Stages, Counted, ReleasesAll, Broken, Allowed, Frame,
                     Videos, Streams, Kind
<1> QED
  BY <1>1, <1>2, <1>3, <1>4, <1>5, <1>6, <1>7, <1>8, <1>9, <1>10, <1>11, <1>12, <1>13,
     <1>14, <1>15, <1>16, <1>17, <1>18 DEF Next, Terminated

\* For every segment, every delay of the codecs and every call that fails:
\* ngx_estreaming_adaptive_bitrate releases what it has allocated but for what
\* ReleasesAll names, and only the failures named there are undefined.
THEOREM ReleasesWhatItAllocates == Spec => []ReleasesAll
<1>1. IInv => ReleasesAll
  BY DEF IInv
<1> QED
  BY InitIInv, StepIInv, <1>1, PTL DEF Spec

-----------------------------------------------------------------------------
\* What stream a packet is of decides whether a frame is a picture.
VideoIn(in, k) == in.streams[in.packets[k].stream] = "vide"

\* Pictures come in their order: within a sequence, and between two.
Rising(in, s) ==
  \A j, k \in DOMAIN s : j < k /\ VideoIn(in, s[j]) /\ VideoIn(in, s[k]) => s[j] < s[k]
Below(in, A, B) == \A x \in A, y \in B : VideoIn(in, x) /\ VideoIn(in, y) => x < y

Taken == ToSet(out) \cup ToSet(kept) \cup ToSet(held)

\* Whatever has happened, what comes out is in order, and nothing comes twice.
InOrder ==
  /\ pos <= Len(input.packets)
  /\ Taken \subseteq 1 .. pos
  /\ \A x \in ToSet(kept) \cup ToSet(held) : VideoIn(input, x)
  /\ \A x \in Taken : VideoIn(input, x) => ~ input.packets[x].bad
  /\ Rising(input, out) /\ Rising(input, kept) /\ Rising(input, held)
  /\ Below(input, ToSet(out), ToSet(kept)) /\ Below(input, ToSet(out), ToSet(held))
  /\ Below(input, ToSet(kept), ToSet(held))
  /\ IsInjective(out)

BeforeFlush == {"open", "prepare", "filters", "read", "drain"}

\* As long as nothing has failed, nothing that was read is missing.
Complete ==
  /\ pc \in BeforeFlush =>
       \A n \in 1 .. pos : VideoIn(input, n) /\ ~ input.packets[n].bad => n \in Taken
  /\ pc \in BeforeFlush \cup Flushes =>
       \A n \in 1 .. pos : ~ VideoIn(input, n) => n \in ToSet(out)

Healthy ==
  /\ 1 \in Streams /\ Kind(1) = "vide"
  /\ \A k \in DOMAIN input.packets : ~ input.packets[k].bad

\* The frames that are held back are counted, fetched and flushed.
Ending ==
  /\ Healthy =>
       /\ pc \in BeforeFlush => skipped = Len(held) /\ i = 1
       /\ pc = "drain" => packet = [stream |-> 1, number |-> 0] /\ pos = Len(input.packets)
       /\ pc \in Loops => graphs = Videos
       /\ pc \in Flushes =>
            /\ pos = Len(input.packets) /\ i \in Nat \ {0} /\ (pc = "flush" /\ i > 1 => kept = <<>>)
            /\ DOMAIN input.packets \subseteq ToSet(out) \cup ToSet(kept)
       /\ closed => DOMAIN input.packets \subseteq ToSet(out)
  /\ pc \in {"end", "returned"} /\ ret = "ok" => closed
  /\ closed => 1 \in Streams

-----------------------------------------------------------------------------
\* What is in a sequence that another is appended to, is in one of the two.
LEMMA SetOfConcat ==
  ASSUME NEW s \in Seq(Nat), NEW t \in Seq(Nat)
  PROVE  ToSet(s \o t) = ToSet(s) \cup ToSet(t)
<1>1. /\ s \o t \in Seq(Nat) /\ Len(s \o t) = Len(s) + Len(t)
      /\ \A k \in 1 .. Len(s) + Len(t) :
           (s \o t)[k] = IF k <= Len(s) THEN s[k] ELSE t[k - Len(s)]
  BY ConcatProperties
<1>2. Len(s) \in Nat /\ Len(t) \in Nat
  OBVIOUS
<1>3. DOMAIN s = 1 .. Len(s) /\ DOMAIN t = 1 .. Len(t) /\ DOMAIN (s \o t) = 1 .. Len(s) + Len(t)
  BY <1>1
<1> DEFINE u == s \o t
<1>4. u = s \o t
  OBVIOUS
<1> HIDE DEF u
<1>5. ASSUME NEW x \in ToSet(u) PROVE x \in ToSet(s) \cup ToSet(t)
  <2>1. PICK k \in 1 .. Len(s) + Len(t) : x = u[k]
    BY <1>3, <1>4, <1>5 DEF ToSet
  <2>2. CASE k <= Len(s)
    BY <1>1, <1>2, <1>3, <1>4, <2>1, <2>2 DEF ToSet
  <2>3. CASE ~ (k <= Len(s))
    <3>1. k - Len(s) \in 1 .. Len(t) /\ x = t[k - Len(s)]
      BY <1>1, <1>2, <1>4, <2>1, <2>3
    <3> QED BY <1>3, <3>1 DEF ToSet
  <2> QED BY <2>2, <2>3
<1>6. ASSUME NEW x \in ToSet(s) PROVE x \in ToSet(u)
  <2>1. PICK k \in 1 .. Len(s) : x = s[k]
    BY <1>3, <1>6 DEF ToSet
  <2>2. k \in 1 .. Len(s) + Len(t) /\ x = u[k]
    BY <1>1, <1>2, <1>4, <2>1
  <2> QED BY <1>3, <1>4, <2>2 DEF ToSet
<1>7. ASSUME NEW x \in ToSet(t) PROVE x \in ToSet(u)
  <2>1. PICK k \in 1 .. Len(t) : x = t[k]
    BY <1>3, <1>7 DEF ToSet
  <2>2. k + Len(s) \in 1 .. Len(s) + Len(t) /\ x = u[k + Len(s)]
    BY <1>1, <1>2, <1>4, <2>1
  <2> QED BY <1>3, <1>4, <2>2 DEF ToSet
<1> QED BY <1>4, <1>5, <1>6, <1>7

\* One item, or none, is in order.
LEMMA SetOfSingle ==
  ASSUME NEW x \in Nat
  PROVE  /\ <<x>> \in Seq(Nat) /\ ToSet(<<x>>) = {x} /\ IsInjective(<<x>>)
         /\ <<>> \in Seq(Nat) /\ ToSet(<<>>) = {} /\ IsInjective(<<>>)
         /\ \A in : Rising(in, <<x>>) /\ Rising(in, <<>>)
<1>1. <<x>> \in Seq(Nat) /\ <<>> \in Seq(Nat) /\ Len(<<x>>) = 1 /\ <<x>>[1] = x
  OBVIOUS
<1>2. DOMAIN <<x>> = {1} /\ DOMAIN <<>> = {}
  BY <1>1
<1> QED BY <1>1, <1>2 DEF ToSet, IsInjective, Rising

\* The order of a whole is that of its parts, and that between them.
LEMMA RisingConcat ==
  ASSUME NEW s \in Seq(Nat), NEW t \in Seq(Nat), NEW in
  PROVE  Rising(in, s \o t)
           <=> Rising(in, s) /\ Rising(in, t) /\ Below(in, ToSet(s), ToSet(t))
<1>1. /\ s \o t \in Seq(Nat) /\ Len(s \o t) = Len(s) + Len(t)
      /\ \A k \in 1 .. Len(s) + Len(t) :
           (s \o t)[k] = IF k <= Len(s) THEN s[k] ELSE t[k - Len(s)]
  BY ConcatProperties
<1>2. Len(s) \in Nat /\ Len(t) \in Nat
  OBVIOUS
<1>3. DOMAIN s = 1 .. Len(s) /\ DOMAIN t = 1 .. Len(t) /\ DOMAIN (s \o t) = 1 .. Len(s) + Len(t)
  BY <1>1
<1> DEFINE u == s \o t
           m == Len(s)
           n == Len(t)
<1>4. u = s \o t /\ m \in Nat /\ n \in Nat
  BY <1>2
<1>5. \A k \in 1 .. m : u[k] = s[k] /\ k \in DOMAIN u /\ s[k] \in ToSet(s)
  BY <1>1, <1>2, <1>3 DEF ToSet
<1>6. \A k \in 1 .. n : u[m + k] = t[k] /\ m + k \in DOMAIN u /\ t[k] \in ToSet(t)
  BY <1>1, <1>2, <1>3 DEF ToSet
<1>7. DOMAIN s = 1 .. m /\ DOMAIN t = 1 .. n /\ DOMAIN u = 1 .. m + n
  BY <1>3
<1> HIDE DEF u, m, n
<1>8. ASSUME Rising(in, u) PROVE Rising(in, s) /\ Rising(in, t) /\ Below(in, ToSet(s), ToSet(t))
  <2>1. Rising(in, s)
    BY <1>5, <1>7, <1>8 DEF Rising
  <2>2. Rising(in, t)
    <3> SUFFICES ASSUME NEW j \in 1 .. n, NEW k \in 1 .. n, j < k,
                        VideoIn(in, t[j]), VideoIn(in, t[k])
                 PROVE  t[j] < t[k]
      BY <1>7 DEF Rising
    <3>1. m + j < m + k /\ u[m + j] = t[j] /\ u[m + k] = t[k]
          /\ m + j \in DOMAIN u /\ m + k \in DOMAIN u
      BY <1>4, <1>6
    <3> QED BY <1>8, <3>1 DEF Rising
  <2>3. Below(in, ToSet(s), ToSet(t))
    <3> SUFFICES ASSUME NEW x \in ToSet(s), NEW y \in ToSet(t), VideoIn(in, x), VideoIn(in, y)
                 PROVE  x < y
      BY DEF Below
    <3>1. PICK j \in 1 .. m : x = s[j]
      BY <1>7 DEF ToSet
    <3>2. PICK k \in 1 .. n : y = t[k]
      BY <1>7 DEF ToSet
    <3>3. j < m + k /\ u[j] = x /\ u[m + k] = y /\ j \in DOMAIN u /\ m + k \in DOMAIN u
      BY <1>4, <1>5, <1>6, <3>1, <3>2
    <3> QED BY <1>8, <3>3 DEF Rising
  <2> QED BY <2>1, <2>2, <2>3
<1>9. ASSUME Rising(in, s), Rising(in, t), Below(in, ToSet(s), ToSet(t)) PROVE Rising(in, u)
  <2> SUFFICES ASSUME NEW j \in 1 .. m + n, NEW k \in 1 .. m + n, j < k,
                      VideoIn(in, u[j]), VideoIn(in, u[k])
               PROVE  u[j] < u[k]
    BY <1>7 DEF Rising
  <2>1. CASE k <= m
    <3>1. j \in 1 .. m /\ k \in 1 .. m
      BY <1>4, <2>1
    <3> QED BY <1>5, <1>7, <1>9, <3>1 DEF Rising
  <2>2. CASE j > m
    <3> DEFINE a == j - m
               b == k - m
    <3>1. a \in 1 .. n /\ b \in 1 .. n /\ a < b /\ j = m + a /\ k = m + b
      BY <1>4, <2>2
    <3> HIDE DEF a, b
    <3>2. u[j] = t[a] /\ u[k] = t[b]
      BY <1>6, <3>1
    <3> QED BY <1>7, <1>9, <3>1, <3>2 DEF Rising
  <2>3. CASE j <= m /\ k > m
    <3> DEFINE b == k - m
    <3>1. j \in 1 .. m /\ b \in 1 .. n /\ k = m + b
      BY <1>4, <2>3
    <3> HIDE DEF b
    <3>2. u[j] = s[j] /\ s[j] \in ToSet(s) /\ u[k] = t[b] /\ t[b] \in ToSet(t)
      BY <1>5, <1>6, <3>1
    <3> QED BY <1>9, <3>2 DEF Below
  <2>4. k <= m \/ j > m \/ (j <= m /\ k > m)
    BY <1>4
  <2> QED BY <2>1, <2>2, <2>3, <2>4
<1> QED BY <1>4, <1>8, <1>9

\* Nothing comes twice in a whole when it does not in the parts, and they have
\* nothing in common.
LEMMA InjectiveConcat ==
  ASSUME NEW s \in Seq(Nat), NEW t \in Seq(Nat), IsInjective(s), IsInjective(t),
         ToSet(s) \cap ToSet(t) = {}
  PROVE  IsInjective(s \o t)
<1>1. /\ s \o t \in Seq(Nat) /\ Len(s \o t) = Len(s) + Len(t)
      /\ \A k \in 1 .. Len(s) + Len(t) :
           (s \o t)[k] = IF k <= Len(s) THEN s[k] ELSE t[k - Len(s)]
  BY ConcatProperties
<1> DEFINE u == s \o t
           m == Len(s)
           n == Len(t)
<1>2. u = s \o t /\ m \in Nat /\ n \in Nat
  OBVIOUS
<1>3. DOMAIN s = 1 .. m /\ DOMAIN t = 1 .. n /\ DOMAIN u = 1 .. m + n
  BY <1>1
<1>4. \A k \in 1 .. m : u[k] = s[k] /\ s[k] \in ToSet(s)
  BY <1>1, <1>2, <1>3 DEF ToSet
<1>5. \A k \in 1 .. n : u[m + k] = t[k] /\ t[k] \in ToSet(t)
  <2> SUFFICES ASSUME NEW k \in 1 .. n PROVE u[m + k] = t[k] /\ t[k] \in ToSet(t)
    OBVIOUS
  <2>1. m + k \in 1 .. Len(s) + Len(t) /\ ~ (m + k <= m) /\ m + k - m = k
    BY <1>2
  <2>2. u[m + k] = t[k]
    BY <1>1, <2>1
  <2>3. t[k] \in ToSet(t)
    BY <1>3 DEF ToSet
  <2> QED BY <2>2, <2>3
<1> HIDE DEF u, m, n
<1>6. \A k \in 1 .. m + n : k \in 1 .. m \/ \E b \in 1 .. n : k = m + b
  <2> SUFFICES ASSUME NEW k \in 1 .. m + n, k \notin 1 .. m PROVE \E b \in 1 .. n : k = m + b
    OBVIOUS
  <2>1. k - m \in 1 .. n /\ k = m + (k - m)
    BY <1>2
  <2> QED BY <2>1
<1>7. ASSUME NEW j \in 1 .. m + n, NEW k \in 1 .. m + n, u[j] = u[k] PROVE j = k
  <2>1. CASE j \in 1 .. m /\ k \in 1 .. m
    BY <1>3, <1>4, <1>7, <2>1 DEF IsInjective
  <2>2. CASE j \in 1 .. m /\ \E b \in 1 .. n : k = m + b
    BY <1>4, <1>5, <1>7, <2>2
  <2>3. CASE k \in 1 .. m /\ \E b \in 1 .. n : j = m + b
    BY <1>4, <1>5, <1>7, <2>3
  <2>4. CASE (\E b \in 1 .. n : j = m + b) /\ \E b \in 1 .. n : k = m + b
    <3>1. PICK a \in 1 .. n, b \in 1 .. n : j = m + a /\ k = m + b
      BY <2>4
    <3>2. t[a] = t[b]
      BY <1>5, <1>7, <3>1
    <3> QED BY <1>3, <3>1, <3>2 DEF IsInjective
  <2> QED BY <1>6, <2>1, <2>2, <2>3, <2>4
<1> QED BY <1>2, <1>3, <1>7 DEF IsInjective

\* Pictures in their order are not repeated.
LEMMA RisingInjective ==
  ASSUME NEW s \in Seq(Nat), NEW in, Rising(in, s), \A x \in ToSet(s) : VideoIn(in, x)
  PROVE  IsInjective(s)
<1>1. DOMAIN s \subseteq Nat /\ \A k \in DOMAIN s : s[k] \in Nat /\ VideoIn(in, s[k])
  BY DEF ToSet
<1>2. \A j, k \in DOMAIN s : j < k => s[j] < s[k]
  BY <1>1 DEF Rising
<1> QED BY <1>1, <1>2 DEF IsInjective

\* A sequence is its head and its tail.
LEMMA HeadAndTail ==
  ASSUME NEW s \in Seq(Nat), s # <<>>
  PROVE  /\ s = <<Head(s)>> \o Tail(s) /\ Head(s) \in Nat /\ Tail(s) \in Seq(Nat)
         /\ s[1] = Head(s) /\ RemoveAt(s, 1) = Tail(s) /\ Len(Tail(s)) = Len(s) - 1
<1>1. Len(s) \in Nat \ {0} /\ s[1] \in Nat
  BY EmptySeq, ElementOfSeq
<1>2. Head(s) = s[1] /\ Head(s) \in Nat /\ Tail(s) \in Seq(Nat) /\ Len(Tail(s)) = Len(s) - 1
      /\ \A k \in 1 .. Len(Tail(s)) : Tail(s)[k] = s[k + 1]
  BY <1>1, HeadTailProperties
<1>3. s = <<Head(s)>> \o Tail(s)
  <2>1. <<Head(s)>> \in Seq(Nat) /\ Len(<<Head(s)>>) = 1 /\ <<Head(s)>>[1] = Head(s)
    BY <1>2
  <2>2. /\ <<Head(s)>> \o Tail(s) \in Seq(Nat) /\ Len(<<Head(s)>> \o Tail(s)) = Len(s)
        /\ \A k \in 1 .. Len(s) :
             (<<Head(s)>> \o Tail(s))[k] = IF k <= 1 THEN <<Head(s)>>[k] ELSE Tail(s)[k - 1]
    BY <1>1, <1>2, <2>1, ConcatProperties
  <2>3. \A k \in 1 .. Len(s) : (<<Head(s)>> \o Tail(s))[k] = s[k]
    BY <1>1, <1>2, <2>1, <2>2
  <2> QED BY <2>2, <2>3, SeqEqual
<1>4. RemoveAt(s, 1) = Tail(s)
  <2>1. SubSeq(s, 1, 0) = <<>>
    BY SubSeqEmpty
  <2>2. Tail(s) = SubSeq(s, 2, Len(s))
    BY TailIsSubSeq
  <2>3. RemoveAt(s, 1) = SubSeq(s, 1, 0) \o SubSeq(s, 2, Len(s))
    BY DEF RemoveAt
  <2>4. <<>> \o Tail(s) = Tail(s)
    BY <1>2, ConcatEmptySeq
  <2> QED BY <2>1, <2>2, <2>3, <2>4
<1> QED BY <1>2, <1>3, <1>4

\* What comes out, what the encoder has, and one frame more, in order; and the
\* same when it has given of what it has.
SortedWith(in, o, k, frame) ==
  /\ VideoIn(in, frame) /\ \A x \in ToSet(k) : VideoIn(in, x)
  /\ Rising(in, o) /\ Rising(in, k) /\ Below(in, ToSet(o), ToSet(k)) /\ IsInjective(o)
  /\ Below(in, ToSet(o) \cup ToSet(k), {frame})
SortedAfter(in, o, k, frame, given, left) ==
  /\ o \o given \in Seq(Nat)
  /\ ToSet(o \o given) \cup ToSet(left) = ToSet(o) \cup ToSet(k) \cup {frame}
  /\ ToSet(o) \subseteq ToSet(o \o given)
  /\ ToSet(left) \subseteq ToSet(k) \cup {frame}
  /\ Rising(in, o \o given) /\ Rising(in, left)
  /\ Below(in, ToSet(o \o given), ToSet(left))
  /\ IsInjective(o \o given)

\* What the encoder gives is the oldest of what it kept and the frame: the
\* order and the items are kept.
LEMMA EncodedInOrder ==
  ASSUME NEW in, NEW o \in Seq(Nat), NEW k \in Seq(Nat), NEW frame \in Nat,
         SortedWith(in, o, k, frame),
         NEW given \in Seq(Nat), NEW left \in Seq(Nat), IsInjective(given),
         k \o <<frame>> = given \o left
  PROVE  SortedAfter(in, o, k, frame, given, left)
<1>0. /\ VideoIn(in, frame) /\ \A x \in ToSet(k) : VideoIn(in, x)
      /\ Rising(in, o) /\ Rising(in, k) /\ Below(in, ToSet(o), ToSet(k)) /\ IsInjective(o)
      /\ Below(in, ToSet(o) \cup ToSet(k), {frame})
  BY DEF SortedWith
<1>1. <<frame>> \in Seq(Nat) /\ ToSet(<<frame>>) = {frame} /\ Rising(in, <<frame>>)
  BY SetOfSingle
<1>2. ToSet(k \o <<frame>>) = ToSet(k) \cup {frame}
  <2>1. \A t \in Seq(Nat) : ToSet(k \o t) = ToSet(k) \cup ToSet(t)
    BY SetOfConcat
  <2> QED BY <1>1, <2>1, Zenon
<1>3. ToSet(given \o left) = ToSet(given) \cup ToSet(left)
  BY SetOfConcat
<1>4. ToSet(k \o <<frame>>) = ToSet(given \o left)
  BY Zenon
<1>5. ToSet(given) \cup ToSet(left) = ToSet(k) \cup {frame}
  BY <1>2, <1>3, <1>4, Zenon
<1>6. Rising(in, k \o <<frame>>)
  <2>1. Below(in, ToSet(k), ToSet(<<frame>>))
    BY <1>0, <1>1 DEF Below
  <2> QED BY <1>0, <1>1, <2>1, RisingConcat, Zenon
<1>7. Rising(in, given \o left)
  BY <1>6, Zenon
<1>8. Rising(in, given) /\ Rising(in, left) /\ Below(in, ToSet(given), ToSet(left))
  BY <1>7, RisingConcat, Zenon
<1>9. o \o given \in Seq(Nat) /\ ToSet(o \o given) = ToSet(o) \cup ToSet(given)
  BY SetOfConcat, ConcatProperties
<1>10. Below(in, ToSet(o), ToSet(given)) /\ Below(in, ToSet(o), ToSet(left))
  BY <1>0, <1>5 DEF Below
<1>11. Rising(in, o \o given)
  BY <1>0, <1>8, <1>10, RisingConcat
<1>12. Below(in, ToSet(o \o given), ToSet(left))
  BY <1>8, <1>9, <1>10 DEF Below
<1>13. \A x \in ToSet(given) : VideoIn(in, x) /\ x \in Nat
  <2>1. \A x \in ToSet(given) : VideoIn(in, x)
    BY <1>0, <1>5
  <2>2. \A x \in ToSet(given) : x \in Nat
    BY DEF ToSet
  <2> QED BY <2>1, <2>2
<1>14. ToSet(o) \cap ToSet(given) = {}
  BY <1>10, <1>13 DEF Below
<1>15. IsInjective(o \o given)
  BY <1>0, <1>14, InjectiveConcat
<1> QED BY <1>5, <1>8, <1>9, <1>11, <1>12, <1>15 DEF SortedAfter

\* encode_write_frame gives the oldest frame, or none.
LEMMA EncoderGives ==
  ASSUME TypeInv, NEW frame \in Nat, NEW next, Encode(frame, next)
  PROVE  \E given \in Seq(Nat) :
           /\ out' = out \o given /\ kept' \in Seq(Nat) /\ IsInjective(given)
           /\ kept \o <<frame>> = given \o kept' /\ pc' \in {next, "undefined"}
<1> DEFINE all == Append(kept, frame)
           given == IF Len(all) > input.hold THEN <<Head(all)>> ELSE <<>>
<1>1. /\ out' = out \o given /\ kept' = IF given = <<>> THEN all ELSE Tail(all)
      /\ pc' \in {next, "undefined"}
  BY DEF Encode, Written
<1>2. given = <<>> \/ given = <<Head(all)>>
  OBVIOUS
<1>3. all \in Seq(Nat) /\ all # <<>> /\ all = kept \o <<frame>>
  BY AppendProperties, AppendIsConcat DEF TypeInv
<1> HIDE DEF all, given
<1>4. CASE given = <<>>
  <2>1. kept' = all
    BY <1>1, <1>4
  <2>2. <<>> \o all = all
    BY <1>3, ConcatEmptySeq
  <2>3. given \in Seq(Nat) /\ IsInjective(given)
    BY <1>4, SetOfSingle
  <2> QED BY <1>1, <1>3, <1>4, <2>1, <2>2, <2>3, Zenon
<1>5. CASE given = <<Head(all)>>
  <2>1. /\ all = <<Head(all)>> \o Tail(all) /\ Head(all) \in Nat /\ Tail(all) \in Seq(Nat)
        /\ <<Head(all)>> # <<>>
    BY <1>3, HeadAndTail
  <2>2. kept' = Tail(all)
    BY <1>1, <1>5, <2>1, Zenon
  <2>3. given \in Seq(Nat) /\ IsInjective(given)
    BY <1>5, <2>1, SetOfSingle
  <2>4. kept \o <<frame>> = given \o kept'
    BY <1>3, <1>5, <2>1, <2>2, Zenon
  <2> QED BY <1>1, <2>1, <2>2, <2>3, <2>4, Zenon
<1> QED BY <1>2, <1>4, <1>5

-----------------------------------------------------------------------------
Flowing == InOrder /\ Complete /\ Ending

\* The packets and streams of a segment.
LEMMA InputFacts ==
  ASSUME TypeInv
  PROVE  /\ Len(input.packets) \in Nat /\ DOMAIN input.packets = 1 .. Len(input.packets)
         /\ Len(input.streams) \in Nat /\ Streams = 1 .. Len(input.streams)
         /\ \A k \in DOMAIN input.packets : input.packets[k].bad \in BOOLEAN
         /\ pos \in Nat
<1>1. /\ input.packets \in Seq([stream : DOMAIN input.streams, bad : BOOLEAN])
      /\ pos \in Nat
  BY TranscodeAssumption DEF TypeInv, IsInput
<1>2. \A S : \A p \in Seq(S) :
        Len(p) \in Nat /\ DOMAIN p = 1 .. Len(p) /\ \A k \in DOMAIN p : p[k] \in S
  OBVIOUS
<1> DEFINE S == [stream : DOMAIN input.streams, bad : BOOLEAN]
<1>3. \A e \in S : e.bad \in BOOLEAN
  OBVIOUS
<1>4. input.packets \in Seq(S)
  BY <1>1
<1> HIDE DEF S
<1> QED BY <1>1, <1>2, <1>3, <1>4, StreamsFinite

\* Where no packet is broken nothing read was.
LEMMA HealthyUnbroken ==
  ASSUME TypeInv, InOrder, Healthy
  PROVE  ~ Broken
BY InputFacts DEF InOrder, Healthy, Broken

\* Where nothing is moved, the order stays.
LEMMA OrderStays ==
  ASSUME InOrder, UNCHANGED <<input, pos, held, kept, out>>
  PROVE  InOrder'
BY DEF InOrder, Taken

\* ... and where the function goes on, or gives up, nothing is missing.
LEMMA CompleteStays ==
  ASSUME Complete, UNCHANGED <<input, pos, held, kept, out>>,
         pc' \in BeforeFlush => pc \in BeforeFlush,
         pc' \in Flushes => pc \in BeforeFlush \cup Flushes
  PROVE  Complete'
BY DEF Complete, Taken, BeforeFlush, Loops, Flushes

\* At first nothing has been read.
LEMMA FlowingInit == Init => Flowing
<1> SUFFICES ASSUME Init PROVE Flowing
  OBVIOUS
<1>1. /\ input \in Inputs /\ pc = "open" /\ pos = 0 /\ skipped = 0 /\ i = 1
      /\ held = <<>> /\ kept = <<>> /\ out = <<>> /\ closed = FALSE
  BY DEF Init
<1>2. TypeInv
  BY InitIInv DEF IInv
<1>3. Len(input.packets) \in Nat
  BY <1>2, InputFacts
<1>4. ToSet(<<>>) = {} /\ IsInjective(<<>>) /\ \A in : Rising(in, <<>>)
  BY SetOfSingle
<1>5. InOrder
  BY <1>1, <1>3, <1>4 DEF InOrder, Taken, Below
<1>6. Complete
  BY <1>1 DEF Complete
<1>7. Ending
  BY <1>1 DEF Ending, BeforeFlush, Loops, Flushes
<1> QED BY <1>5, <1>6, <1>7 DEF Flowing

\* The three parts that allocate move nothing.
LEMMA SetUpFlows ==
  IInv /\ Flowing /\ (OpenFails \/ OpenStops \/ Refuse \/ Open \/ PrepareStops \/ HeaderFails
                        \/ Prepare \/ FiltersFail \/ InitFilters) => Flowing'
<1> SUFFICES ASSUME IInv, Flowing,
                    OpenFails \/ OpenStops \/ Refuse \/ Open \/ PrepareStops \/ HeaderFails
                      \/ Prepare \/ FiltersFail \/ InitFilters
             PROVE  Flowing'
  OBVIOUS
<1>1. /\ UNCHANGED <<input, pos, held, kept, out, skipped, i, closed>>
      /\ pc \in {"open", "prepare", "filters"}
      /\ pc' \in {"prepare", "filters", "read", "end", "undefined"}
      /\ pc' = "end" => ret' = "error"
      /\ pc' = "read" => graphs' = Videos
  BY DEF OpenFails, OpenStops, Refuse, Open, PrepareStops, HeaderFails, Prepare, FiltersFail,
         InitFilters, stages
<1>2. ~ closed
  BY <1>1 DEF IInv, Stages, Loops, Flushes
<1>3. InOrder'
  BY <1>1, OrderStays DEF Flowing
<1>4. Complete'
  BY <1>1, CompleteStays DEF Flowing, BeforeFlush
<1>5. Healthy' = Healthy /\ Videos' = Videos
  BY <1>1 DEF Healthy, Videos, Streams, Kind
<1>6. Ending'
  BY <1>1, <1>2, <1>5 DEF Flowing, Ending, BeforeFlush, Loops, Flushes
<1> QED BY <1>3, <1>4, <1>6 DEF Flowing

\* A packet that is read is behind everything that has been.
LEMMA FetchFacts ==
  ASSUME TypeInv, InOrder, Reading, Fetch, input' = input
  PROVE  /\ pos' = pos + 1 /\ pos + 1 \in 1 .. Len(input.packets)
         /\ pos + 1 \notin Taken /\ Below(input, Taken, {pos + 1})
         /\ Taken \subseteq 1 .. pos'
         /\ \A n \in 1 .. pos' : n \in 1 .. pos \/ n = pos + 1
         /\ VideoIn(input, pos + 1) <=> Kind(Next_.stream) = "vide"
         /\ input.packets[pos + 1] = Next_
<1>1. pos' = pos + 1 /\ pos < Len(input.packets) /\ pos \in Nat /\ Len(input.packets) \in Nat
  BY InputFacts DEF Reading, Fetch
<1>2. Taken \subseteq 1 .. pos
  BY DEF InOrder
<1>3. pos + 1 \notin Taken /\ Below(input, Taken, {pos + 1}) /\ Taken \subseteq 1 .. pos + 1
  BY <1>1, <1>2 DEF Below
<1>4. VideoIn(input, pos + 1) <=> Kind(Next_.stream) = "vide"
  BY DEF VideoIn, Kind, Next_
<1> QED BY <1>1, <1>3, <1>4 DEF Next_

\* Sound is written at once.
LEMMA RemuxFlows == IInv /\ Flowing /\ Remux => Flowing'
<1> SUFFICES ASSUME IInv, Flowing, Remux PROVE Flowing'
  OBVIOUS
<1> DEFINE n == pos + 1
<1>0. TypeInv /\ Stages /\ InOrder /\ Complete /\ Ending
  BY DEF IInv, Flowing
<1>1. /\ Reading /\ Fetch /\ Kind(Next_.stream) # "vide" /\ pc = "read"
      /\ UNCHANGED <<input, graphs, closed, skipped, held, kept, i>>
      /\ \/ out' = out \o <<n>> /\ pc' \in {"read", "undefined"}
         \/ out' = out /\ pc' = "end" /\ ret' = "error"
  BY DEF Remux, Reading, Written, loops
<1>2. /\ pos' = n /\ n \in 1 .. Len(input.packets) /\ n \notin Taken
      /\ Taken \subseteq 1 .. n /\ ~ VideoIn(input, n) /\ n \in Nat
      /\ \A k \in 1 .. n : k \in 1 .. pos \/ k = n
  BY <1>0, <1>1, FetchFacts, InputFacts
<1>3. out \in Seq(Nat) /\ held \in Seq(Nat) /\ kept \in Seq(Nat) /\ ~ closed
  BY <1>0, <1>1 DEF TypeInv, Stages, Loops, Flushes
<1> HIDE DEF n
<1>4. /\ ToSet(out') = ToSet(out) \/ ToSet(out') = ToSet(out) \cup {n}
      /\ pc' = "read" => ToSet(out') = ToSet(out) \cup {n}
      /\ Rising(input, out') /\ IsInjective(out')
  <2>1. CASE out' = out \o <<n>>
    <3>1. /\ <<n>> \in Seq(Nat) /\ ToSet(<<n>>) = {n} /\ Rising(input, <<n>>)
          /\ IsInjective(<<n>>)
      BY <1>2, SetOfSingle
    <3>2. ToSet(out \o <<n>>) = ToSet(out) \cup {n}
      BY <1>3, <3>1, SetOfConcat
    <3>3. Below(input, ToSet(out), {n})
      BY <1>2 DEF Below
    <3>4. Rising(input, out \o <<n>>)
      BY <1>0, <1>3, <3>1, <3>3, RisingConcat DEF InOrder
    <3>5. ToSet(out) \cap ToSet(<<n>>) = {}
      BY <1>2, <3>1 DEF Taken
    <3>6. IsInjective(out \o <<n>>)
      BY <1>0, <1>3, <3>1, <3>5, InjectiveConcat DEF InOrder
    <3> QED BY <2>1, <3>2, <3>4, <3>6
  <2>2. CASE out' = out /\ pc' = "end"
    BY <1>0, <2>2 DEF InOrder
  <2> QED BY <1>1, <2>1, <2>2
<1>5. Taken' = ToSet(out') \cup ToSet(kept) \cup ToSet(held)
  BY <1>1 DEF Taken
<1>6. InOrder'
  <2>1. Taken' \subseteq Taken \cup {n}
    BY <1>4, <1>5 DEF Taken
  <2>2. Taken' \subseteq 1 .. pos' /\ pos' <= Len(input.packets)
    BY <1>2, <2>1
  <2>3. \A x \in Taken' : VideoIn(input, x) => ~ input.packets[x].bad
    BY <1>0, <1>2, <2>1 DEF InOrder
  <2>4. Below(input, ToSet(out'), ToSet(kept)) /\ Below(input, ToSet(out'), ToSet(held))
    BY <1>0, <1>2, <1>4 DEF InOrder, Below
  <2> QED BY <1>0, <1>1, <1>4, <2>2, <2>3, <2>4 DEF InOrder
<1>7. Complete'
  <2>1. pc' \in BeforeFlush \cup {"flush"} => pc' = "read"
    BY <1>1 DEF BeforeFlush
  <2>2. ASSUME pc' = "read"
        PROVE  /\ \A k \in 1 .. n : VideoIn(input, k) /\ ~ input.packets[k].bad => k \in Taken'
               /\ \A k \in 1 .. n : ~ VideoIn(input, k) => k \in ToSet(out')
    BY <1>0, <1>1, <1>2, <1>4, <1>5, <2>2 DEF Complete, BeforeFlush, Loops, Flushes, Taken
  <2> QED BY <1>1, <1>2, <2>1, <2>2 DEF Complete, Flushes
<1>8. Healthy' = Healthy /\ Videos' = Videos
  BY <1>1 DEF Healthy, Videos, Streams, Kind
<1>9. Ending'
  BY <1>0, <1>1, <1>3, <1>8 DEF Ending, BeforeFlush, Loops, Flushes
<1> QED BY <1>6, <1>7, <1>9 DEF Flowing

\* A packet that cannot be decoded leaves everything as it is.
LEMMA DecodeFailsFlows == IInv /\ Flowing /\ DecodeFails => Flowing'
<1> SUFFICES ASSUME IInv, Flowing, DecodeFails PROVE Flowing'
  OBVIOUS
<1>0. TypeInv /\ Stages /\ InOrder /\ Complete /\ Ending
  BY DEF IInv, Flowing
<1>1. /\ Reading /\ Fetch /\ Kind(Next_.stream) = "vide" /\ Next_.bad
      /\ pc = "read" /\ pc' = "drain"
      /\ UNCHANGED <<input, graphs, closed, skipped, held, kept, out, i>>
  BY DEF DecodeFails, VideoFetched, Reading, loops
<1>2. /\ pos' = pos + 1 /\ pos + 1 \in 1 .. Len(input.packets)
      /\ Taken \subseteq 1 .. pos' /\ VideoIn(input, pos + 1) /\ input.packets[pos + 1].bad
      /\ \A k \in 1 .. pos' : k \in 1 .. pos \/ k = pos + 1
  BY <1>0, <1>1, FetchFacts
<1>3. ~ Healthy /\ ~ closed
  <2>1. pos + 1 \in DOMAIN input.packets
    BY <1>0, <1>2, InputFacts
  <2> QED BY <1>0, <1>1, <1>2, <2>1 DEF Healthy, Stages, Loops, Flushes
<1>4. Taken' = Taken
  BY <1>1 DEF Taken
<1>5. InOrder'
  <2>1. pos' <= Len(input.packets)
    BY <1>2
  <2> QED BY <1>0, <1>1, <1>2, <1>4, <2>1 DEF InOrder
<1>6. Complete'
  BY <1>0, <1>1, <1>2, <1>4 DEF Complete, BeforeFlush, Loops, Flushes
<1>7. Healthy' = Healthy
  BY <1>1 DEF Healthy, Streams, Kind
<1>8. Ending'
  BY <1>1, <1>3, <1>7 DEF Ending
<1> QED BY <1>5, <1>6, <1>8 DEF Flowing

\* What the steps that decode a frame have in common: it comes last in all.
LEMMA DecodedFlows ==
  ASSUME TypeInv, Stages, InOrder, Complete, Ending, UNCHANGED <<input, graphs, closed, i>>,
         pc \in {"read", "drain"}, pc' \in {pc, "end", "undefined"},
         pos' \in Nat, pos' <= Len(input.packets),
         kept' \in Seq(Nat), out' \in Seq(Nat), held' \in Seq(Nat),
         Taken' \subseteq 1 .. pos',
         \A x \in ToSet(kept') \cup ToSet(held') : VideoIn(input, x),
         \A x \in Taken' : VideoIn(input, x) => ~ input.packets[x].bad,
         Rising(input, out'), Rising(input, kept'), Rising(input, held'), IsInjective(out'),
         Below(input, ToSet(out'), ToSet(kept')), Below(input, ToSet(out'), ToSet(held')),
         Below(input, ToSet(kept'), ToSet(held')),
         pc' = "end" => ret' = "error",
         pc' = pc => /\ \A n \in 1 .. pos' : n \in 1 .. pos \/ (VideoIn(input, n) /\ n \in Taken')
                     /\ Taken \subseteq Taken' /\ ToSet(out) \subseteq ToSet(out')
                     /\ Healthy => skipped' = Len(held')
                     /\ pc = "drain" => pos' = pos /\ packet' = packet
  PROVE  Flowing'
<1>1. ~ closed
  BY DEF Stages, Loops, Flushes
<1>2. InOrder'
  BY DEF InOrder, Taken
<1>3. Complete'
  <2>1. CASE pc' = pc
    BY <2>1 DEF Complete, BeforeFlush, Loops, Flushes
  <2>2. CASE pc' \in {"end", "undefined"}
    BY <2>2 DEF Complete, BeforeFlush, Loops, Flushes
  <2> QED BY <2>1, <2>2
<1>4. Healthy' = Healthy /\ Videos' = Videos
  BY DEF Healthy, Videos, Streams, Kind
<1>5. Ending'
  <2>1. CASE pc' = pc
    BY <1>1, <1>4, <2>1 DEF Ending, BeforeFlush, Loops, Flushes
  <2>2. CASE pc' \in {"end", "undefined"}
    BY <1>1, <1>4, <2>2 DEF Ending, BeforeFlush, Loops, Flushes
  <2> QED BY <2>1, <2>2
<1> QED BY <1>2, <1>3, <1>5 DEF Flowing

\* What is appended to the frames held back is the newest of all.
LEMMA HeldBack ==
  ASSUME TypeInv, InOrder, NEW n \in Nat, Below(input, Taken, {n}), VideoIn(input, n)
  PROVE  /\ Append(held, n) \in Seq(Nat) /\ Append(held, n) # <<>>
         /\ Len(Append(held, n)) = Len(held) + 1
         /\ ToSet(Append(held, n)) = ToSet(held) \cup {n}
         /\ Rising(input, Append(held, n))
         /\ Below(input, ToSet(out) \cup ToSet(kept), ToSet(Append(held, n)))
<1>1. held \in Seq(Nat)
  BY DEF TypeInv
<1>2. /\ Append(held, n) \in Seq(Nat) /\ Append(held, n) # <<>>
      /\ Len(Append(held, n)) = Len(held) + 1 /\ Append(held, n) = held \o <<n>>
  BY <1>1, AppendProperties, AppendIsConcat
<1>3. <<n>> \in Seq(Nat) /\ ToSet(<<n>>) = {n} /\ Rising(input, <<n>>)
  BY SetOfSingle
<1>4. ToSet(held \o <<n>>) = ToSet(held) \cup {n}
  BY <1>1, <1>3, SetOfConcat
<1>5. Below(input, ToSet(held), {n})
  BY DEF Below, Taken
<1>6. Rising(input, held \o <<n>>)
  BY <1>1, <1>3, <1>5, RisingConcat DEF InOrder
<1>7. Below(input, ToSet(out) \cup ToSet(kept), ToSet(held) \cup {n})
  BY DEF InOrder, Below, Taken
<1> DEFINE all == Append(held, n)
<1>8. all = held \o <<n>>
  BY <1>2
<1> HIDE DEF all
<1>9. ToSet(all) = ToSet(held) \cup {n} /\ Rising(input, all)
  BY <1>4, <1>6, <1>8
<1>10. Below(input, ToSet(out) \cup ToSet(kept), ToSet(all))
  BY <1>7, <1>9
<1> QED BY <1>2, <1>9, <1>10 DEF all

\* The decoder keeps a frame back.
LEMMA NoFrameFlows == IInv /\ Flowing /\ NoFrame => Flowing'
<1> SUFFICES ASSUME IInv, Flowing, NoFrame PROVE Flowing'
  OBVIOUS
<1> DEFINE n == pos + 1
<1>0. TypeInv /\ Stages /\ InOrder /\ Complete /\ Ending
  BY DEF IInv, Flowing
<1>1. /\ Reading /\ Fetch /\ Kind(Next_.stream) = "vide" /\ ~ Next_.bad
      /\ pc = "read" /\ pc' = pc
      /\ UNCHANGED <<input, graphs, closed, kept, out, i>>
      /\ held' = Append(held, n) /\ skipped' = skipped + 1
  BY DEF NoFrame, VideoFetched, Reading, loops
<1>2. /\ pos' = n /\ n \in 1 .. Len(input.packets) /\ VideoIn(input, n)
      /\ ~ input.packets[n].bad /\ Below(input, Taken, {n}) /\ Taken \subseteq 1 .. n
      /\ \A k \in 1 .. n : k \in 1 .. pos \/ k = n
      /\ n \in Nat /\ Len(input.packets) \in Nat /\ n <= Len(input.packets)
  BY <1>0, <1>1, FetchFacts, InputFacts
<1> HIDE DEF n
<1>3. /\ held' \in Seq(Nat) /\ Len(held') = Len(held) + 1 /\ ToSet(held') = ToSet(held) \cup {n}
      /\ Rising(input, held') /\ Below(input, ToSet(out) \cup ToSet(kept), ToSet(held'))
  BY <1>0, <1>1, <1>2, HeldBack
<1>4. Taken' = Taken \cup {n}
  BY <1>1, <1>3 DEF Taken
<1>5. Taken' \subseteq 1 .. pos' /\ pos' \in Nat /\ pos' <= Len(input.packets) /\ n \in Taken'
  BY <1>2, <1>4
<1>6. /\ \A x \in ToSet(kept') \cup ToSet(held') : VideoIn(input, x)
      /\ \A x \in Taken' : VideoIn(input, x) => ~ input.packets[x].bad
      /\ Rising(input, out') /\ Rising(input, kept') /\ IsInjective(out')
      /\ Below(input, ToSet(out'), ToSet(kept'))
  BY <1>0, <1>1, <1>2, <1>3, <1>4 DEF InOrder
<1>7. Below(input, ToSet(out'), ToSet(held')) /\ Below(input, ToSet(kept'), ToSet(held'))
  BY <1>1, <1>3 DEF Below
<1>8. Healthy => skipped' = Len(held')
  BY <1>0, <1>1, <1>3 DEF Ending, BeforeFlush, Loops, Flushes
<1>9. kept' \in Seq(Nat) /\ out' \in Seq(Nat)
  BY <1>0, <1>1 DEF TypeInv
<1>10. \A k \in 1 .. pos' : k \in 1 .. pos \/ (VideoIn(input, k) /\ k \in Taken')
  BY <1>2, <1>5
<1>11. pc' = pc => /\ \A k \in 1 .. pos' : k \in 1 .. pos \/ (VideoIn(input, k) /\ k \in Taken')
                   /\ Taken \subseteq Taken' /\ ToSet(out) \subseteq ToSet(out')
                   /\ Healthy => skipped' = Len(held')
                   /\ pc = "drain" => pos' = pos /\ packet' = packet
  BY <1>1, <1>4, <1>8, <1>10
<1>12. pc \in {"read", "drain"} /\ pc' \in {pc, "end", "undefined"} /\ (pc' = "end" => ret' = "error")
  BY <1>1
<1> QED BY <1>0, <1>1, <1>3, <1>5, <1>6, <1>7, <1>9, <1>11, <1>12, DecodedFlows

\* The oldest frame held back is given to the encoder.
LEMMA GivenOn ==
  ASSUME TypeInv, InOrder, input' = input,
         NEW all \in Seq(Nat), all # <<>>, Rising(input, all),
         Below(input, ToSet(out) \cup ToSet(kept), ToSet(all)),
         \A x \in ToSet(all) : VideoIn(input, x),
         held' = RemoveAt(all, Decoded(all)),
         NEW next, Encode(all[Decoded(all)], next) \/ EncodeFails \/ EncodeUnopened
  PROVE  /\ kept' \in Seq(Nat) /\ out' \in Seq(Nat) /\ held' \in Seq(Nat)
         /\ Len(held') = Len(all) - 1
         /\ Taken' \subseteq ToSet(out) \cup ToSet(kept) \cup ToSet(all)
         /\ ToSet(out) \subseteq ToSet(out')
         /\ \A x \in ToSet(kept') \cup ToSet(held') : VideoIn(input, x)
         /\ Rising(input, out') /\ Rising(input, kept') /\ Rising(input, held')
         /\ Below(input, ToSet(out'), ToSet(kept')) /\ Below(input, ToSet(out'), ToSet(held'))
         /\ Below(input, ToSet(kept'), ToSet(held')) /\ IsInjective(out')
         /\ pc' \in {next, "undefined", "end"}
         /\ \/ pc' = "end" /\ ret' = "error"
            \/ pc' = "undefined"
            \/ Taken' = ToSet(out) \cup ToSet(kept) \cup ToSet(all) /\ pc' \in {next, "undefined"}
<1> DEFINE frame == Head(all)
<1>1. /\ all = <<frame>> \o Tail(all) /\ frame \in Nat /\ Tail(all) \in Seq(Nat)
      /\ all[Decoded(all)] = frame /\ held' = Tail(all) /\ Len(held') = Len(all) - 1
  BY HeadAndTail DEF Decoded
<1> HIDE DEF frame
<1>2. /\ <<frame>> \in Seq(Nat) /\ ToSet(<<frame>>) = {frame}
  BY <1>1, SetOfSingle
<1>3. /\ ToSet(all) = {frame} \cup ToSet(held')
      /\ Rising(input, held') /\ Below(input, {frame}, ToSet(held'))
  <2>1. ToSet(<<frame>> \o held') = {frame} \cup ToSet(held')
    <3>1. \A t \in Seq(Nat) : ToSet(t \o held') = ToSet(t) \cup ToSet(held')
      BY <1>1, SetOfConcat
    <3> QED BY <1>2, <3>1, Zenon
  <2>2. Rising(input, <<frame>> \o held')
    BY <1>1, Zenon
  <2>3. held' \in Seq(Nat)
    BY <1>1
  <2>4. Rising(input, held') /\ Below(input, ToSet(<<frame>>), ToSet(held'))
    BY <1>2, <2>2, <2>3, RisingConcat, Zenon
  <2>5. all = <<frame>> \o held'
    BY <1>1, Zenon
  <2> QED BY <1>2, <2>1, <2>4, <2>5, Zenon
<1>4. VideoIn(input, frame) /\ Below(input, ToSet(out) \cup ToSet(kept), {frame})
      /\ Below(input, ToSet(out) \cup ToSet(kept), ToSet(held'))
      /\ \A x \in ToSet(held') : VideoIn(input, x)
  BY <1>3 DEF Below
<1>5. out \in Seq(Nat) /\ kept \in Seq(Nat)
  BY DEF TypeInv
<1>6. /\ \A x \in ToSet(kept) : VideoIn(input, x)
      /\ Rising(input, out) /\ Rising(input, kept) /\ Below(input, ToSet(out), ToSet(kept))
      /\ IsInjective(out)
  BY DEF InOrder
<1>7. Taken' = ToSet(out') \cup ToSet(kept') \cup ToSet(held')
  BY DEF Taken
<1>8. CASE Encode(all[Decoded(all)], next)
  <2>1. PICK given \in Seq(Nat) :
          /\ out' = out \o given /\ kept' \in Seq(Nat) /\ IsInjective(given)
          /\ kept \o <<frame>> = given \o kept' /\ pc' \in {next, "undefined"}
    BY <1>1, <1>8, EncoderGives, Zenon
  <2>2. kept' \in Seq(Nat) /\ kept \o <<frame>> = given \o kept' /\ IsInjective(given)
    BY <2>1
  <2>3. /\ out \o given \in Seq(Nat)
        /\ ToSet(out \o given) \cup ToSet(kept') = ToSet(out) \cup ToSet(kept) \cup {frame}
        /\ ToSet(out) \subseteq ToSet(out \o given)
        /\ ToSet(kept') \subseteq ToSet(kept) \cup {frame}
        /\ Rising(input, out \o given) /\ Rising(input, kept')
        /\ Below(input, ToSet(out \o given), ToSet(kept'))
        /\ IsInjective(out \o given)
    <3>1. frame \in Nat /\ SortedWith(input, out, kept, frame)
      BY <1>1, <1>4, <1>6 DEF SortedWith
    <3>2. SortedAfter(input, out, kept, frame, given, kept')
      BY <1>5, <2>2, <3>1, EncodedInOrder, Zenon
    <3> QED BY <3>2 DEF SortedAfter
  <2>4. /\ out' \in Seq(Nat) /\ kept' \in Seq(Nat)
        /\ ToSet(out') \cup ToSet(kept') = ToSet(out) \cup ToSet(kept) \cup {frame}
        /\ ToSet(out) \subseteq ToSet(out')
        /\ ToSet(kept') \subseteq ToSet(kept) \cup {frame}
        /\ Rising(input, out') /\ Rising(input, kept')
        /\ Below(input, ToSet(out'), ToSet(kept')) /\ IsInjective(out')
    BY <2>1, <2>3, Zenon
  <2>5. Taken' = ToSet(out) \cup ToSet(kept) \cup ToSet(all)
    BY <1>3, <1>7, <2>4
  <2>6. \A x \in ToSet(kept') \cup ToSet(held') : VideoIn(input, x)
    BY <1>4, <1>6, <2>4
  <2>7. Below(input, ToSet(out'), ToSet(held')) /\ Below(input, ToSet(kept'), ToSet(held'))
    <3>1. Below(input, ToSet(out) \cup ToSet(kept) \cup {frame}, ToSet(held'))
      BY <1>3, <1>4 DEF Below
    <3> QED BY <2>4, <3>1 DEF Below
  <2> QED BY <1>1, <1>3, <2>1, <2>4, <2>5, <2>6, <2>7
<1>9. CASE EncodeFails \/ EncodeUnopened
  <2>1. out' = out /\ kept' = kept /\ ((pc' = "end" /\ ret' = "error") \/ pc' = "undefined")
    BY <1>9 DEF EncodeFails, EncodeUnopened
  <2>2. Taken' \subseteq ToSet(out) \cup ToSet(kept) \cup ToSet(all)
    BY <1>3, <1>7, <2>1
  <2>3. Below(input, ToSet(out'), ToSet(held')) /\ Below(input, ToSet(kept'), ToSet(held'))
    BY <1>4, <2>1 DEF Below
  <2> QED BY <1>1, <1>3, <1>4, <1>5, <1>6, <2>1, <2>2, <2>3
<1> QED BY <1>8, <1>9

\* A frame comes in, and the oldest one goes out.
LEMMA GotFrameFlows == IInv /\ Flowing /\ GotFrame => Flowing'
<1> SUFFICES ASSUME IInv, Flowing, GotFrame PROVE Flowing'
  OBVIOUS
<1> DEFINE n == pos + 1
           all == Append(held, n)
<1>0. TypeInv /\ Stages /\ InOrder /\ Complete /\ Ending
  BY DEF IInv, Flowing
<1>1. /\ Reading /\ Fetch /\ Kind(Next_.stream) = "vide" /\ ~ Next_.bad
      /\ pc = "read"
      /\ UNCHANGED <<input, graphs, closed, i, skipped>>
      /\ held' = RemoveAt(all, Decoded(all))
      /\ Encode(all[Decoded(all)], "read") \/ EncodeFails \/ EncodeUnopened
  BY DEF GotFrame, VideoFetched, Reading, loops
<1>2. /\ pos' = n /\ n \in 1 .. Len(input.packets) /\ VideoIn(input, n)
      /\ ~ input.packets[n].bad /\ Below(input, Taken, {n}) /\ Taken \subseteq 1 .. n
      /\ \A k \in 1 .. n : k \in 1 .. pos \/ k = n
      /\ n \in Nat /\ Len(input.packets) \in Nat /\ n <= Len(input.packets)
  BY <1>0, <1>1, FetchFacts, InputFacts
<1> HIDE DEF n
<1>3. /\ all \in Seq(Nat) /\ all # <<>> /\ Len(all) = Len(held) + 1 /\ Len(held) \in Nat
      /\ ToSet(all) = ToSet(held) \cup {n}
      /\ Rising(input, all) /\ Below(input, ToSet(out) \cup ToSet(kept), ToSet(all))
  <2>1. held \in Seq(Nat)
    BY <1>0 DEF TypeInv
  <2>2. Len(held) \in Nat
    BY <2>1
  <2> QED BY <1>0, <1>2, <2>2, HeldBack
<1> HIDE DEF all
<1>4. \A x \in ToSet(all) : VideoIn(input, x)
  BY <1>0, <1>2, <1>3 DEF InOrder
<1>5. /\ kept' \in Seq(Nat) /\ out' \in Seq(Nat) /\ held' \in Seq(Nat)
      /\ Len(held') = Len(all) - 1
      /\ Taken' \subseteq ToSet(out) \cup ToSet(kept) \cup ToSet(all)
      /\ ToSet(out) \subseteq ToSet(out')
      /\ \A x \in ToSet(kept') \cup ToSet(held') : VideoIn(input, x)
      /\ Rising(input, out') /\ Rising(input, kept') /\ Rising(input, held')
      /\ Below(input, ToSet(out'), ToSet(kept')) /\ Below(input, ToSet(out'), ToSet(held'))
      /\ Below(input, ToSet(kept'), ToSet(held')) /\ IsInjective(out')
      /\ pc' \in {"read", "undefined", "end"}
      /\ \/ pc' = "end" /\ ret' = "error"
         \/ pc' = "undefined"
         \/ Taken' = ToSet(out) \cup ToSet(kept) \cup ToSet(all) /\ pc' \in {"read", "undefined"}
  BY <1>0, <1>1, <1>3, <1>4, GivenOn
<1>6. Taken' \subseteq Taken \cup {n} /\ (pc' = pc => Taken' = Taken \cup {n})
  BY <1>1, <1>3, <1>5 DEF Taken
<1>7. /\ Taken' \subseteq 1 .. pos' /\ pos' \in Nat /\ pos' <= Len(input.packets)
      /\ \A x \in Taken' : VideoIn(input, x) => ~ input.packets[x].bad
      /\ pc' = "end" => ret' = "error"
      /\ pc \in {"read", "drain"} /\ pc' \in {pc, "end", "undefined"}
  BY <1>0, <1>1, <1>2, <1>5, <1>6 DEF InOrder
<1>8. pc' = pc => /\ \A k \in 1 .. pos' : k \in 1 .. pos \/ (VideoIn(input, k) /\ k \in Taken')
                  /\ Taken \subseteq Taken' /\ ToSet(out) \subseteq ToSet(out')
                  /\ Healthy => skipped' = Len(held')
                  /\ pc = "drain" => pos' = pos /\ packet' = packet
  BY <1>0, <1>1, <1>2, <1>3, <1>5, <1>6 DEF Ending, BeforeFlush, Loops, Flushes
<1> QED BY <1>0, <1>1, <1>5, <1>7, <1>8, DecodedFlows

\* The emptied packet has the number of stream 0: a frame comes out.
LEMMA DrainFrameFlows == IInv /\ Flowing /\ DrainFrame => Flowing'
<1> SUFFICES ASSUME IInv, Flowing, DrainFrame PROVE Flowing'
  OBVIOUS
<1>0. TypeInv /\ Stages /\ InOrder /\ Complete /\ Ending
  BY DEF IInv, Flowing
<1>1. /\ pc = "drain" /\ skipped > 0 /\ skipped' = skipped - 1
      /\ UNCHANGED <<input, graphs, closed, i, pos, packet>>
      /\ held' = RemoveAt(held, Decoded(held)) /\ held # <<>>
      /\ Encode(held[Decoded(held)], "drain") \/ EncodeFails \/ EncodeUnopened
  BY DEF DrainFrame, Draining, Drained
<1>2. /\ held \in Seq(Nat) /\ Rising(input, held) /\ Len(held) \in Nat
      /\ Below(input, ToSet(out) \cup ToSet(kept), ToSet(held))
      /\ \A x \in ToSet(held) : VideoIn(input, x)
  BY <1>0 DEF TypeInv, InOrder, Below
<1>3. /\ kept' \in Seq(Nat) /\ out' \in Seq(Nat) /\ held' \in Seq(Nat)
      /\ Len(held') = Len(held) - 1
      /\ Taken' \subseteq ToSet(out) \cup ToSet(kept) \cup ToSet(held)
      /\ ToSet(out) \subseteq ToSet(out')
      /\ \A x \in ToSet(kept') \cup ToSet(held') : VideoIn(input, x)
      /\ Rising(input, out') /\ Rising(input, kept') /\ Rising(input, held')
      /\ Below(input, ToSet(out'), ToSet(kept')) /\ Below(input, ToSet(out'), ToSet(held'))
      /\ Below(input, ToSet(kept'), ToSet(held')) /\ IsInjective(out')
      /\ pc' \in {"drain", "undefined", "end"}
      /\ \/ pc' = "end" /\ ret' = "error"
         \/ pc' = "undefined"
         \/ Taken' = ToSet(out) \cup ToSet(kept) \cup ToSet(held) /\ pc' \in {"drain", "undefined"}
  BY <1>0, <1>1, <1>2, GivenOn
<1>4. Taken' \subseteq Taken /\ (pc' = pc => Taken' = Taken)
  BY <1>1, <1>3 DEF Taken
<1>5. pos \in Nat /\ pos <= Len(input.packets)
  BY <1>0 DEF TypeInv, InOrder
<1>6. /\ Taken' \subseteq 1 .. pos' /\ pos' \in Nat /\ pos' <= Len(input.packets)
      /\ \A x \in Taken' : VideoIn(input, x) => ~ input.packets[x].bad
      /\ pc' = "end" => ret' = "error"
      /\ pc \in {"read", "drain"} /\ pc' \in {pc, "end", "undefined"}
  BY <1>0, <1>1, <1>3, <1>4, <1>5 DEF InOrder
<1>7. Healthy => skipped' = Len(held')
  BY <1>0, <1>1, <1>2, <1>3 DEF Ending, BeforeFlush, Loops, Flushes
<1>8. pc' = pc => /\ \A k \in 1 .. pos' : k \in 1 .. pos \/ (VideoIn(input, k) /\ k \in Taken')
                  /\ Taken \subseteq Taken' /\ ToSet(out) \subseteq ToSet(out')
                  /\ Healthy => skipped' = Len(held')
                  /\ pc = "drain" => pos' = pos /\ packet' = packet
  BY <1>1, <1>3, <1>4, <1>7
<1> QED BY <1>0, <1>1, <1>3, <1>6, <1>8, DecodedFlows

\* Nothing more to read: the packet is emptied.
LEMMA ReadEndsFlows == IInv /\ Flowing /\ ReadEnds => Flowing'
<1> SUFFICES ASSUME IInv, Flowing, ReadEnds PROVE Flowing'
  OBVIOUS
<1>0. TypeInv /\ Stages /\ InOrder /\ Complete /\ Ending
  BY DEF IInv, Flowing
<1>1. /\ pc = "read" /\ pos = Len(input.packets) /\ pc' = "drain"
      /\ packet' = [stream |-> 1, number |-> 0]
      /\ UNCHANGED <<input, graphs, closed, pos, skipped, held, kept, out, i>>
  BY DEF ReadEnds, loops
<1>2. InOrder' /\ Complete'
  BY <1>0, <1>1, OrderStays, CompleteStays DEF BeforeFlush, Flushes
<1>3. Healthy' = Healthy /\ Videos' = Videos /\ ~ closed
  BY <1>0, <1>1 DEF Healthy, Videos, Streams, Kind, Stages, Loops, Flushes
<1>4. Ending'
  BY <1>0, <1>1, <1>3 DEF Ending, BeforeFlush, Loops, Flushes
<1> QED BY <1>2, <1>4 DEF Flowing

\* When stream 0 is the picture, and no packet is broken, a frame comes for each
\* that is fetched: neither of these two is taken.
LEMMA DrainOtherFlows == IInv /\ Flowing /\ (DrainOther \/ DrainNothing) => Flowing'
<1> SUFFICES ASSUME IInv, Flowing, DrainOther \/ DrainNothing PROVE Flowing'
  OBVIOUS
<1>0. TypeInv /\ Stages /\ InOrder /\ Complete /\ Ending
  BY DEF IInv, Flowing
<1>1. /\ pc = "drain" /\ pc' = pc /\ skipped > 0
      /\ UNCHANGED <<input, graphs, closed, pos, packet, held, kept, out, i>>
      /\ \/ Kind(packet.stream) # "vide"
         \/ packet.number # 0 \/ held = <<>>
  BY DEF DrainOther, DrainNothing, Draining, Drained
<1>2. InOrder' /\ Complete'
  BY <1>0, <1>1, OrderStays, CompleteStays DEF BeforeFlush, Flushes
<1>3. ~ Healthy
  <2> SUFFICES ASSUME Healthy PROVE FALSE
    OBVIOUS
  <2>1. packet.stream = 1 /\ packet.number = 0 /\ skipped = Len(held) /\ Kind(1) = "vide"
    BY <1>0, <1>1 DEF Ending, BeforeFlush, Loops, Flushes, Healthy
  <2>2. held # <<>>
    BY <1>1, <2>1, EmptySeq
  <2> QED BY <1>1, <2>1, <2>2
<1>4. ~ closed
  BY <1>0, <1>1 DEF Stages, Loops, Flushes
<1>5. Healthy' = Healthy
  BY <1>1 DEF Healthy, Streams, Kind
<1>6. Ending'
  BY <1>0, <1>1, <1>3, <1>4, <1>5 DEF Ending
<1> QED BY <1>2, <1>6 DEF Flowing

\* All that was kept back by the decoder has been fetched.
LEMMA DrainEndsFlows == IInv /\ Flowing /\ DrainEnds => Flowing'
<1> SUFFICES ASSUME IInv, Flowing, DrainEnds PROVE Flowing'
  OBVIOUS
<1>0. TypeInv /\ Stages /\ InOrder /\ Complete /\ Ending
  BY DEF IInv, Flowing
<1>1. /\ pc = "drain" /\ pc' = "flush" /\ skipped = 0
      /\ UNCHANGED <<input, graphs, closed, pos, held, kept, out, i>>
  BY DEF DrainEnds, loops
<1>2. InOrder' /\ Complete'
  BY <1>0, <1>1, OrderStays, CompleteStays DEF BeforeFlush, Flushes
<1>3. Healthy' = Healthy /\ Videos' = Videos /\ ~ closed
  BY <1>0, <1>1 DEF Healthy, Videos, Streams, Kind, Stages, Loops, Flushes
<1>4. ASSUME Healthy
      PROVE  /\ pos = Len(input.packets) /\ i = 1 /\ graphs = Videos
             /\ DOMAIN input.packets \subseteq ToSet(out) \cup ToSet(kept)
  <2>1. pos = Len(input.packets) /\ i = 1 /\ graphs = Videos /\ Len(held) = 0
    BY <1>0, <1>1, <1>4 DEF Ending, BeforeFlush, Loops, Flushes
  <2>2. held = <<>>
    BY <1>0, <2>1, EmptySeq DEF TypeInv
  <2>3. Taken = ToSet(out) \cup ToSet(kept)
    BY <2>2, SetOfSingle DEF Taken
  <2>4. DOMAIN input.packets = 1 .. pos /\ \A k \in 1 .. pos : ~ input.packets[k].bad
    BY <1>0, <1>4, <2>1, InputFacts DEF Healthy
  <2>5. \A k \in 1 .. pos : k \in ToSet(out) \cup ToSet(kept)
    <3> SUFFICES ASSUME NEW k \in 1 .. pos PROVE k \in ToSet(out) \cup ToSet(kept)
      OBVIOUS
    <3>1. CASE VideoIn(input, k)
      BY <1>0, <1>1, <2>3, <2>4, <3>1 DEF Complete, BeforeFlush, Loops, Flushes
    <3>2. CASE ~ VideoIn(input, k)
      BY <1>0, <1>1, <3>2 DEF Complete, BeforeFlush, Loops, Flushes
    <3> QED BY <3>1, <3>2
  <2> QED BY <2>1, <2>4, <2>5
<1>5. Ending'
  BY <1>0, <1>1, <1>3, <1>4 DEF Ending, BeforeFlush, Loops, Flushes
<1> QED BY <1>2, <1>5 DEF Flowing

\* The flushes that write nothing: a stream without a graph is passed over, the
\* decoder gives what is thrown away, a flush fails or cannot be done.
LEMMA FlushOtherFlows ==
  IInv /\ Flowing /\ (FlushOther \/ FlushFilter \/ FlushDecoderEnds \/ FlushEncoderEnds
                     \/ FlushUnopened \/ FlushFails) => Flowing'
<1> DEFINE Step == \/ FlushOther \/ FlushFilter \/ FlushDecoderEnds \/ FlushEncoderEnds
                   \/ FlushUnopened \/ FlushFails
<1> SUFFICES ASSUME IInv, Flowing, Step PROVE Flowing'
  OBVIOUS
<1>0. TypeInv /\ Stages /\ InOrder /\ Complete /\ Ending
  BY DEF IInv, Flowing
<1>1. /\ pc \in Flushes /\ pc' \in Flushes \cup {"end", "undefined"}
      /\ UNCHANGED <<input, graphs, closed, pos, held, kept, out>>
      /\ pc' = "end" => ret' = "error"
      /\ \/ pc' # "flush" /\ i' = i
         \/ pc' = "flush" /\ i' = i + 1 /\ ((pc = "flush" /\ i \notin graphs) \/ kept = <<>>)
         \/ pc' = "end"
  BY DEF FlushOther, FlushFilter, FlushDecoderEnds, FlushEncoderEnds, FlushUnopened, FlushFails,
       Flushing, Unread, loops, Flushes
<1> HIDE DEF Step
<1>2. InOrder' /\ Complete'
  BY <1>0, <1>1, OrderStays, CompleteStays DEF BeforeFlush, Flushes
<1>3. Healthy' = Healthy /\ Videos' = Videos /\ ~ closed
  BY <1>0, <1>1 DEF Healthy, Videos, Streams, Kind, Stages, Loops
<1>4. ASSUME Healthy, pc' \in Flushes
      PROVE  i' \in Nat \ {0} /\ (pc' = "flush" /\ i' > 1 => kept = <<>>)
  <2>1. i \in Nat \ {0} /\ (pc = "flush" /\ i > 1 => kept = <<>>) /\ graphs = Videos
    BY <1>0, <1>1, <1>4 DEF Ending, Loops
  <2>2. 1 \in Videos
    BY <1>4 DEF Healthy, Videos
  <2>3. CASE pc' # "flush"
    BY <1>1, <1>4, <2>1, <2>3 DEF Flushes
  <2>4. CASE pc' = "flush"
    BY <1>1, <2>1, <2>2, <2>4
  <2> QED BY <2>3, <2>4
<1>5. Ending'
  BY <1>0, <1>1, <1>3, <1>4 DEF Ending, BeforeFlush, Loops, Flushes
<1> QED BY <1>2, <1>5 DEF Flowing

\* What the decoder still gives is thrown away.
LEMMA FlushDecoderFlows == IInv /\ Flowing /\ FlushDecoder => Flowing'
<1> SUFFICES ASSUME IInv, Flowing, FlushDecoder PROVE Flowing'
  OBVIOUS
<1>0. TypeInv /\ Stages /\ InOrder /\ Complete /\ Ending
  BY DEF IInv, Flowing
<1>1. /\ pc = "flush_decoder" /\ pc' = pc
      /\ UNCHANGED <<input, graphs, closed, pos, kept, out, i>>
      /\ held # <<>> /\ held' = RemoveAt(held, Decoded(held))
  BY DEF FlushDecoder, Unread, loops
<1>2. /\ ToSet(held') \subseteq ToSet(held) /\ Rising(input, held')
  <2> DEFINE frame == Head(held)
             rest == Tail(held)
  <2>1. /\ held = <<frame>> \o rest /\ frame \in Nat /\ rest \in Seq(Nat) /\ held' = rest
    BY <1>0, <1>1, HeadAndTail DEF TypeInv, Decoded
  <2>2. <<frame>> \in Seq(Nat)
    BY <2>1
  <2> HIDE DEF frame, rest
  <2>3. ToSet(held) = ToSet(<<frame>>) \cup ToSet(rest)
    BY <2>1, <2>2, SetOfConcat
  <2>4. Rising(input, <<frame>> \o rest)
    BY <1>0, <2>1, Zenon DEF InOrder
  <2>5. Rising(input, rest)
    BY <2>1, <2>2, <2>4, RisingConcat, Zenon
  <2> QED BY <2>1, <2>3, <2>5, Zenon
<1>3. Taken' \subseteq Taken
  BY <1>1, <1>2 DEF Taken
<1>4. InOrder'
  BY <1>0, <1>1, <1>2, <1>3 DEF InOrder, Below
<1>5. Complete'
  BY <1>0, <1>1 DEF Complete, BeforeFlush, Loops, Flushes, Flushes
<1>6. Healthy' = Healthy /\ Videos' = Videos /\ ~ closed
  BY <1>0, <1>1 DEF Healthy, Videos, Streams, Kind, Stages, Loops, Flushes
<1>7. Ending'
  BY <1>0, <1>1, <1>6 DEF Ending, BeforeFlush, Loops, Flushes
<1> QED BY <1>4, <1>5, <1>7 DEF Flowing

\* The encoder gives the oldest frame it has kept back.
LEMMA FlushEncoderFlows == IInv /\ Flowing /\ FlushEncoder => Flowing'
<1> SUFFICES ASSUME IInv, Flowing, FlushEncoder PROVE Flowing'
  OBVIOUS
<1> DEFINE frame == Head(kept)
           rest == Tail(kept)
<1>0. TypeInv /\ Stages /\ InOrder /\ Complete /\ Ending
  BY DEF IInv, Flowing
<1>1. /\ pc = "flush_encoder" /\ pc' \in {"flush_encoder", "undefined"}
      /\ UNCHANGED <<input, graphs, closed, pos, held, i>>
      /\ kept # <<>> /\ kept' = rest /\ out' = out \o <<frame>>
  BY DEF FlushEncoder, Unread, Written, loops
<1>2. /\ out \in Seq(Nat) /\ kept \in Seq(Nat) /\ kept = <<frame>> \o rest
      /\ frame \in Nat /\ rest \in Seq(Nat)
  BY <1>0, <1>1, HeadAndTail DEF TypeInv
<1>3. <<frame>> \in Seq(Nat) /\ ToSet(<<frame>>) = {frame} /\ IsInjective(<<frame>>)
  BY <1>2, SetOfSingle
<1> HIDE DEF frame, rest
<1>4. ToSet(kept) = {frame} \cup ToSet(rest)
  <2>1. ToSet(<<frame>> \o rest) = ToSet(<<frame>>) \cup ToSet(rest)
    BY <1>2, <1>3, SetOfConcat
  <2> QED BY <1>2, <1>3, <2>1, Zenon
<1>5. Rising(input, <<frame>>) /\ Rising(input, rest) /\ Below(input, {frame}, ToSet(rest))
  <2>1. Rising(input, <<frame>> \o rest)
    BY <1>0, <1>2, Zenon DEF InOrder
  <2>2. Rising(input, <<frame>>) /\ Rising(input, rest)
        /\ Below(input, ToSet(<<frame>>), ToSet(rest))
    BY <1>2, <1>3, <2>1, RisingConcat, Zenon
  <2> QED BY <1>3, <2>2, Zenon
<1>6. /\ Rising(input, out) /\ IsInjective(out) /\ VideoIn(input, frame)
      /\ Below(input, ToSet(out), {frame}) /\ Below(input, ToSet(out), ToSet(rest))
      /\ Below(input, {frame}, ToSet(held)) /\ Below(input, ToSet(rest), ToSet(held))
      /\ Below(input, ToSet(out), ToSet(held)) /\ Rising(input, held)
  BY <1>0, <1>4 DEF InOrder, Below
<1>7. frame \notin ToSet(out)
  BY <1>2, <1>6 DEF Below
<1>8. ToSet(out \o <<frame>>) = ToSet(out) \cup {frame}
  <2>1. ToSet(out \o <<frame>>) = ToSet(out) \cup ToSet(<<frame>>)
    BY <1>2, <1>3, SetOfConcat
  <2> QED BY <1>3, <2>1, Zenon
<1>9. Rising(input, out \o <<frame>>)
  <2>1. Below(input, ToSet(out), ToSet(<<frame>>))
    BY <1>3, <1>6
  <2> QED BY <1>2, <1>3, <1>5, <1>6, <2>1, RisingConcat
<1>10. IsInjective(out \o <<frame>>)
  <2>1. ToSet(out) \cap ToSet(<<frame>>) = {}
    BY <1>3, <1>7
  <2> QED BY <1>2, <1>3, <1>6, <2>1, InjectiveConcat
<1>11. /\ ToSet(out') = ToSet(out) \cup {frame} /\ Rising(input, out') /\ IsInjective(out')
       /\ ToSet(kept') = ToSet(rest) /\ Rising(input, kept')
  BY <1>1, <1>5, <1>8, <1>9, <1>10, Zenon
<1>12. Taken' = Taken
  BY <1>1, <1>4, <1>11 DEF Taken
<1>13. /\ Below(input, ToSet(out'), ToSet(kept')) /\ Below(input, ToSet(out'), ToSet(held'))
       /\ Below(input, ToSet(kept'), ToSet(held'))
  BY <1>1, <1>5, <1>6, <1>11 DEF Below
<1>14. InOrder'
  BY <1>0, <1>1, <1>4, <1>6, <1>11, <1>12, <1>13 DEF InOrder
<1>15. Complete'
  BY <1>0, <1>1, <1>11 DEF Complete, BeforeFlush, Loops, Flushes, Flushes
<1>16. Healthy' = Healthy /\ Videos' = Videos /\ ~ closed
  BY <1>0, <1>1 DEF Healthy, Videos, Streams, Kind, Stages, Loops, Flushes
<1>17. Ending'
  BY <1>0, <1>1, <1>4, <1>11, <1>16 DEF Ending, BeforeFlush, Loops, Flushes
<1> QED BY <1>14, <1>15, <1>17 DEF Flowing

\* All streams have been flushed.
LEMMA TrailerFlows == IInv /\ Flowing /\ Trailer => Flowing'
<1> SUFFICES ASSUME IInv, Flowing, Trailer PROVE Flowing'
  OBVIOUS
<1>0. TypeInv /\ Stages /\ InOrder /\ Complete /\ Ending
  BY DEF IInv, Flowing
<1>1. /\ pc = "flush" /\ i > Len(input.streams) /\ pc' = "end" /\ closed'
      /\ UNCHANGED <<input, pos, held, kept, out, graphs, i>>
  BY DEF Trailer
<1>2. InOrder' /\ Complete'
  BY <1>0, <1>1, OrderStays, CompleteStays DEF BeforeFlush, Flushes
<1>3. Healthy' = Healthy /\ Streams' = Streams
  BY <1>1 DEF Healthy, Streams, Kind
<1>4. 1 \in Streams /\ Len(input.streams) \in Nat \ {0}
  BY <1>0, <1>1, InputFacts DEF Stages, Loops, Flushes
<1>5. Healthy => DOMAIN input.packets \subseteq ToSet(out)
  <2> SUFFICES ASSUME Healthy PROVE DOMAIN input.packets \subseteq ToSet(out)
    OBVIOUS
  <2>1. /\ i \in Nat \ {0} /\ (i > 1 => kept = <<>>)
        /\ DOMAIN input.packets \subseteq ToSet(out) \cup ToSet(kept)
    BY <1>0, <1>1 DEF Ending, Flushes
  <2>2. kept = <<>>
    BY <1>1, <1>4, <2>1
  <2> QED BY <2>1, <2>2, SetOfSingle
<1>6. Ending'
  BY <1>1, <1>3, <1>4, <1>5 DEF Ending, BeforeFlush, Loops, Flushes
<1> QED BY <1>2, <1>6 DEF Flowing

\* At the end only what is allocated changes.
LEMMA CloseFlows ==
  IInv /\ Flowing /\ (CloseUndefined \/ Close \/ UNCHANGED vars) => Flowing'
<1> SUFFICES ASSUME IInv, Flowing, CloseUndefined \/ Close \/ UNCHANGED vars PROVE Flowing'
  OBVIOUS
<1>0. InOrder /\ Complete /\ Ending
  BY DEF Flowing
<1>1. CASE CloseUndefined \/ Close
  <2>1. /\ pc = "end" /\ pc' \in {"returned", "undefined"}
        /\ UNCHANGED <<input, ret, pos, held, kept, out, closed>>
    BY <1>1 DEF CloseUndefined, Close, stages
  <2>2. InOrder' /\ Complete'
    BY <1>0, <2>1, OrderStays, CompleteStays DEF BeforeFlush, Flushes
  <2>3. Healthy' = Healthy /\ Streams' = Streams
    BY <2>1 DEF Healthy, Streams, Kind
  <2>4. Ending'
    BY <1>0, <2>1, <2>3 DEF Ending, BeforeFlush, Loops, Flushes
  <2> QED BY <2>2, <2>4 DEF Flowing
<1>2. CASE UNCHANGED vars
  <2>1. InOrder' /\ Complete'
    BY <1>0, <1>2, OrderStays, CompleteStays DEF vars
  <2>2. Healthy' = Healthy /\ Streams' = Streams /\ Videos' = Videos
    BY <1>2 DEF Healthy, Streams, Kind, vars, Videos
  <2>3. Ending'
    BY <1>0, <1>2, <2>2 DEF Ending, vars
  <2> QED BY <2>1, <2>3 DEF Flowing
<1> QED BY <1>1, <1>2

\* Every step keeps the order and the items, by the lemmas on the actions.
LEMMA FlowingStep == IInv /\ Flowing /\ [Next]_vars => Flowing'
BY SetUpFlows, RemuxFlows, DecodeFailsFlows, NoFrameFlows, GotFrameFlows, ReadEndsFlows,
   DrainOtherFlows, DrainFrameFlows, DrainEndsFlows, FlushOtherFlows, FlushDecoderFlows,
   FlushEncoderFlows, TrailerFlows, CloseFlows DEF Next, Terminated

\* Both invariants hold throughout the function.
LEMMA FlowingHolds == Spec => [](IInv /\ Flowing)
BY InitIInv, StepIInv, FlowingInit, FlowingStep, PTL DEF Spec

\* For every segment, codecs that keep back any number of frames, and failures
\* anywhere: what is written is the segment's sound and picture in order, and
\* what the codecs keep back comes next.
THEOREM WritesInOrder == Spec => []OutputInOrder
<1>1. IInv /\ Flowing => OutputInOrder
  <2> SUFFICES ASSUME IInv, Flowing PROVE OutputInOrder
    OBVIOUS
  <2>0. TypeInv /\ InOrder /\ Complete
    BY DEF IInv, Flowing
  <2>1. \A k : IsVideo(k) <=> VideoIn(input, k)
    BY DEF IsVideo, VideoIn, Kind
  <2>2. pc = "read" => {k \in 1 .. pos : ~ IsVideo(k)} \subseteq ToSet(out)
    BY <2>0, <2>1 DEF Complete, BeforeFlush, Loops, Flushes
  <2>3. IsInjective(out)
    BY <2>0 DEF InOrder
  <2>4. out \in Seq(Nat) /\ kept \in Seq(Nat) /\ held \in Seq(Nat)
    BY <2>0 DEF TypeInv
  <2>5. out \o kept \in Seq(Nat) /\ ToSet(out \o kept) = ToSet(out) \cup ToSet(kept)
    BY <2>4, SetOfConcat, ConcatProperties
  <2>6. ToSet(Flow) = Taken /\ Flow \in Seq(Nat)
    BY <2>4, <2>5, SetOfConcat, ConcatProperties DEF Flow, Taken
  <2>7. Rising(input, Flow)
    <3>1. Rising(input, out \o kept)
      BY <2>0, <2>4, RisingConcat DEF InOrder
    <3>2. Below(input, ToSet(out \o kept), ToSet(held))
      BY <2>0, <2>5 DEF InOrder, Below
    <3> QED BY <2>0, <2>4, <2>5, <3>1, <3>2, RisingConcat DEF InOrder, Flow
  <2>8. ToSet(kept \o held) = ToSet(kept) \cup ToSet(held)
    BY <2>4, SetOfConcat
  <2>9. \A k \in ToSet(kept \o held) : IsVideo(k)
    BY <2>0, <2>1, <2>8 DEF InOrder
  <2>10. \A j, k \in DOMAIN Flow :
           j < k /\ IsVideo(Flow[j]) /\ IsVideo(Flow[k]) => Flow[j] < Flow[k]
    BY <2>1, <2>7 DEF Rising
  <2>11. pc \in {"read", "drain"} =>
           {k \in ToSet(Flow) : IsVideo(k)}
             = {k \in 1 .. pos : IsVideo(k) /\ ~ input.packets[k].bad}
    BY <2>0, <2>1, <2>6 DEF InOrder, Complete, BeforeFlush, Loops, Flushes
  <2> QED BY <2>2, <2>3, <2>9, <2>10, <2>11 DEF OutputInOrder
<1> QED BY <1>1, FlowingHolds, PTL

\* A segment that is sent as transcoded is whole when no packet is broken and
\* the picture is its first stream, whatever the codecs keep back.
THEOREM SentIsWhole == Spec => []NothingLost
<1>1. IInv /\ Flowing => NothingLost
  <2> SUFFICES ASSUME IInv, Flowing, pc = "returned", ret = "ok", Kind(1) = "vide",
                      \A k \in DOMAIN input.packets : ~ input.packets[k].bad
               PROVE  closed /\ ToSet(out) = DOMAIN input.packets
    BY DEF NothingLost, Answered
  <2>1. TypeInv /\ InOrder /\ Ending
    BY DEF IInv, Flowing
  <2>2. closed /\ 1 \in Streams
    BY <2>1 DEF Ending
  <2>3. DOMAIN input.packets \subseteq ToSet(out)
    BY <2>1, <2>2 DEF Ending, Healthy
  <2>4. ToSet(out) \subseteq 1 .. pos /\ pos <= Len(input.packets)
    BY <2>1 DEF InOrder, Taken
  <2>5. ToSet(out) \subseteq DOMAIN input.packets
    BY <2>1, <2>4, InputFacts
  <2> QED BY <2>2, <2>3, <2>5
<1> QED BY <1>1, FlowingHolds, PTL
=============================================================================
