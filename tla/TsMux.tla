------------------------------- MODULE TsMux --------------------------------
(***************************************************************************)
(* The transport stream multiplexer: the part of output_ts that writes the *)
(* fragments chosen for a segment, with the functions it calls.  Samples   *)
(* are taken from the tracks by decoding time.  A video sample becomes one *)
(* PES packet; audio is gathered in a payload of its stream, of bounded    *)
(* size, and becomes a PES packet when the payload is full, spans half a   *)
(* second, another track's turn comes, or the track ends.  A PES packet is *)
(* cut into transport packets of 188 bytes, for which room is reserved     *)
(* before they are written.                                                *)
(*                                                                         *)
(* Bytes are counted, not kept: a piece is a range of bytes of one sample  *)
(* (for audio, of the sample with its 7 bytes of ADTS header).             *)
(***************************************************************************)
EXTENDS Integers, Sequences, FiniteSets, SequencesExt

CONSTANTS
  Segments,        \* the segments that may be asked for
  ParameterSets    \* the size of SPS and PPS with their start codes

\* Samples in the order of decoding, with their times in the track's scale.
IsSegment(sg) ==
  /\ Len(sg) \in Nat \ {0} /\ sg = [i \in 1 .. Len(sg) |-> sg[i]]
  /\ \A i \in DOMAIN sg :
       /\ sg[i].kind \in {"vide", "soun"}
       /\ sg[i].scale \in Nat \ {0}
       /\ sg[i].samples \in Seq([dts : Nat, cto : Nat, size : Nat \ {0}, ok : BOOLEAN])
       /\ sg[i].samples # <<>>
       /\ \A a, b \in DOMAIN sg[i].samples :
            a <= b => sg[i].samples[a].dts <= sg[i].samples[b].dts

ASSUME TsMuxAssumption ==
  /\ \A sg \in Segments : IsSegment(sg)
  /\ ParameterSets \in Nat

VARIABLES
  frags,       \* fragment[]: the samples, with times converted to 90 kHz
  first,       \* the next sample of each fragment
  order,       \* the fragment whose sample was taken last; 0 at first
  streams,     \* mpegts_stream_t of each fragment
  rest, stage, \* what write_audio_packet still has to copy, of header or data
  pes,         \* the PES packet write_packet is writing
  next_pat,
  out,         \* the bucket: tables and PES packets
  pc, back     \* what is done now, and after the PES packet

vars == <<frags, first, order, streams, rest, stage, pes, next_pat, out, pc, back>>

-----------------------------------------------------------------------------
NOPTS_VALUE          == -1
TS_PACKET_SIZE       == 188
MAX_PES_PAYLOAD_SIZE == 31 * 184 + 170
AUDIO_DELTA          == 500 * 90
PAT_DELTA            == 60 * 1000 * 90
max_delay            == 90000
AdtsSize             == 7
AudNal               == 6

\* Times in units of 1 / 90000 seconds.
Clock(t, scale) == (t * 90000) \div scale

Converted(f) ==
  [kind |-> f.kind,
   samples |-> [k \in DOMAIN f.samples |->
     LET s == f.samples[k]
     IN  [dts |-> Clock(s.dts, f.scale),
          pts |-> Clock(s.dts, f.scale) + Clock(s.cto, f.scale),
          size |-> s.size, ok |-> s.ok]]]

mpegts_stream_init ==
  [cc |-> 0, packets |-> 0, index |-> 0,
   dts |-> NOPTS_VALUE, pts |-> NOPTS_VALUE, pieces |-> <<>>]

NoPes == [stream |-> 0, dts |-> NOPTS_VALUE, pts |-> NOPTS_VALUE, left |-> 0,
          reserved |-> 0, written |-> 0, pieces |-> <<>>]

Init ==
  /\ \E sg \in Segments : frags = [i \in DOMAIN sg |-> Converted(sg[i])]
  /\ first = [i \in DOMAIN frags |-> 1]
  /\ order = 0
  /\ streams = [i \in DOMAIN frags |-> mpegts_stream_init]
  /\ rest = 0 /\ stage = "header"
  /\ pes = NoPes
  /\ next_pat = NOPTS_VALUE
  /\ out = <<>>
  /\ pc = "pick" /\ back = "pick"

Left(i)  == first[i] <= Len(frags[i].samples)
Head1(i) == frags[i].samples[first[i]]
Audio(i) == frags[i].kind = "soun"

\* write_header: the clock is carried by the first video stream, if any.
CarriesPcr(i) ==
  frags[i].kind = "vide" /\ \A j \in 1 .. i - 1 : frags[j].kind # "vide"

-----------------------------------------------------------------------------
(* write_packet                                                            *)

\* The headers of the first transport packet of a PES packet, except its own
\* four bytes: adaptation field, PES header, time stamps.
Once(i, dts, pts) ==
  (IF CarriesPcr(i) THEN 8 ELSE IF streams[i].packets = 0 THEN 2 ELSE 0)
  + 4
  + (IF pts = NOPTS_VALUE THEN 0
     ELSE IF dts # NOPTS_VALUE /\ dts # pts THEN 10 ELSE 5)
  + 5

\* Mutant of packetized_packets: the adaptation field is not counted.
packetized_packets_bare(i, dts, pts, size) ==
  1 + (size - (184 - 4 - 5 - 5) + 184 - 1) \div 184

packetized_packets(i, dts, pts, size) ==
  LET once == Once(i, dts, pts)
  IN  IF size <= 184 - once THEN 1
      ELSE 1 + (size - (184 - once) + 184 - 1) \div 184

Delayed(t) == IF t = NOPTS_VALUE THEN t ELSE t + max_delay

\* Whether PAT and PMT are due.
TablesDue(dts) ==
  next_pat = NOPTS_VALUE \/ (dts # NOPTS_VALUE /\ dts >= next_pat)

BucketInsert(unit) == out' = Append(out, unit)

Tables == [stream |-> 0, dts |-> NOPTS_VALUE, pts |-> NOPTS_VALUE,
           pieces |-> <<>>, packets |-> 2]

\* Mutant of write_tables: the tables are written once, and not repeated.
write_tables_once(dts) ==
  IF next_pat = NOPTS_VALUE
  THEN BucketInsert(Tables) /\ next_pat' = dts + PAT_DELTA
  ELSE UNCHANGED <<out, next_pat>>

write_tables(dts) ==
  IF TablesDue(dts)
  THEN BucketInsert(Tables) /\ next_pat' = dts + PAT_DELTA
  ELSE UNCHANGED <<out, next_pat>>

\* Enter write_packet: the times are delayed, the tables come first if they
\* are due, and room is reserved.
write_packet(i, dts, pts, size, pieces, after) ==
  /\ write_tables(Delayed(dts))
  /\ pes' = [stream |-> i, dts |-> Delayed(dts), pts |-> Delayed(pts),
             left |-> size, written |-> 0, pieces |-> pieces,
             reserved |-> packetized_packets(i, Delayed(dts), Delayed(pts), size)]
  /\ pc' = "packets" /\ back' = after

\* The header of the transport packet that is written next.
HeaderLen ==
  4 + IF pes.written = 0 THEN Once(pes.stream, pes.dts, pes.pts) ELSE 0

\* One transport packet; what does not fill it is stuffed.
WritePacket ==
  /\ pc = "packets" /\ pes.left > 0
  /\ LET room == TS_PACKET_SIZE - HeaderLen
         len  == IF pes.left < room THEN pes.left ELSE room
     IN  pes' = [pes EXCEPT !.left = @ - len, !.written = @ + 1]
  /\ streams' = [streams EXCEPT ![pes.stream].cc = (@ + 1) % 16,
                                ![pes.stream].packets = @ + 1]
  /\ UNCHANGED <<frags, first, order, rest, stage, next_pat, out, pc, back>>

\* Mutant of PacketWritten: the payload keeps its time stamps.
PacketWrittenStale ==
  /\ pc = "packets" /\ pes.left = 0
  /\ BucketInsert([stream |-> pes.stream, dts |-> pes.dts, pts |-> pes.pts,
                   pieces |-> pes.pieces, packets |-> pes.reserved])
  /\ streams' = IF Audio(pes.stream)
                THEN [streams EXCEPT ![pes.stream].index = 0,
                                     ![pes.stream].pieces = <<>>]
                ELSE streams
  /\ pes' = NoPes /\ pc' = back
  /\ UNCHANGED <<frags, first, order, rest, stage, next_pat, back>>

\* All of it is written: what was reserved goes into the bucket, and
\* flush_audio_packet empties the payload.
PacketWritten ==
  /\ pc = "packets" /\ pes.left = 0
  /\ BucketInsert([stream |-> pes.stream, dts |-> pes.dts, pts |-> pes.pts,
                   pieces |-> pes.pieces, packets |-> pes.reserved])
  /\ streams' = IF Audio(pes.stream)
                THEN [streams EXCEPT ![pes.stream].index = 0,
                                     ![pes.stream].dts = NOPTS_VALUE,
                                     ![pes.stream].pts = NOPTS_VALUE,
                                     ![pes.stream].pieces = <<>>]
                ELSE streams
  /\ pes' = NoPes /\ pc' = back
  /\ UNCHANGED <<frags, first, order, rest, stage, next_pat, back>>

\* flush_audio_packet on a payload that has become s.
Flush(i, s, after) == write_packet(i, s.dts, s.pts, s.index, s.pieces, after)

Go(to) == pc' = to /\ UNCHANGED <<pes, next_pat, out, back>>

-----------------------------------------------------------------------------
(* The loop of output_ts                                                   *)

\* The fragment whose next sample is due first; the first of those.
Due(i) ==
  /\ Left(i)
  /\ \A j \in DOMAIN frags :
       Left(j) => IF j < i THEN Head1(i).dts < Head1(j).dts
                           ELSE Head1(i).dts <= Head1(j).dts

\* Whether the turn of fragment i ends a PES packet of another audio track.
FlushNow(i) == order \notin {0, i} /\ Audio(order) /\ streams[order].index > 0

Pick(i) ==
  /\ pc = "pick" /\ Due(i)
  /\ order' = i
  /\ IF FlushNow(i) THEN Flush(order, streams[order], "sample") ELSE Go("sample")
  /\ UNCHANGED <<frags, first, streams, rest, stage>>

\* Mutant of Stamp: a payload always takes the time of the latest sample.
StampLatest(st, s) == [st EXCEPT !.dts = s.dts, !.pts = s.pts]

\* A payload takes the times of the first sample that starts in it.
Stamp(st, s) ==
  IF st.dts = NOPTS_VALUE THEN [st EXCEPT !.dts = s.dts, !.pts = s.pts] ELSE st

StartAudio ==
  /\ pc = "sample" /\ Audio(order)
  /\ streams' = [streams EXCEPT ![order] = Stamp(@, Head1(order))]
  /\ rest' = AdtsSize /\ stage' = "header"
  /\ Go("copy")
  /\ UNCHANGED <<frags, first, order>>

\* Copied bytes of the sample at hand.
Done1 == IF stage = "header" THEN AdtsSize - rest
         ELSE AdtsSize + Head1(order).size - rest

\* The payload full, or half a second long (the header has no time).
Full(st) ==
  \/ st.index = MAX_PES_PAYLOAD_SIZE
  \/ /\ stage = "data" /\ st.dts # NOPTS_VALUE
     /\ Head1(order).dts - st.dts >= AUDIO_DELTA

\* Mutant of Fitting: the room left in the payload is not looked at.
FittingAll(index) == rest

\* How much of what is left to copy fits into the payload.
Fitting(index) ==
  IF MAX_PES_PAYLOAD_SIZE - index < rest THEN MAX_PES_PAYLOAD_SIZE - index ELSE rest

\* One iteration of write_audio_packet.
Copy ==
  LET st   == streams[order]
      size == Fitting(st.index)
      new  == [st EXCEPT !.index = @ + size,
                         !.pieces = Append(@, [sample |-> first[order], from |-> Done1,
                                               to |-> Done1 + size])]
  IN  /\ pc = "copy" /\ rest > 0
      /\ rest' = rest - size
      /\ streams' = [streams EXCEPT ![order] = new]
      /\ IF Full(new) THEN Flush(order, new, "copy") ELSE Go("copy")
      /\ UNCHANGED <<frags, first, order, stage>>

CopyData ==
  /\ pc = "copy" /\ rest = 0 /\ stage = "header"
  /\ rest' = Head1(order).size /\ stage' = "data"
  /\ UNCHANGED <<frags, first, order, streams, pes, next_pat, out, pc, back>>

\* Mutant of LastSample: the last sample is taken for the one before the end.
LastSampleEarly == first[order] + 1 = Len(frags[order].samples)

LastSample == first[order] = Len(frags[order].samples)

\* The sample is in the payload; the last one ends the PES packet.
AudioCopied ==
  /\ pc = "copy" /\ rest = 0 /\ stage = "data"
  /\ IF LastSample /\ streams[order].index > 0
     THEN Flush(order, streams[order], "advance")
     ELSE Go("advance")
  /\ UNCHANGED <<frags, first, order, streams, rest, stage>>

\* write_video_packet: too small a sample is passed over, and so is one that
\* does not consist of NAL units.  The stream begins with the parameter sets.
WriteVideo ==
  LET s    == Head1(order)
      size == s.size + AudNal
      sets == IF streams[order].packets = 0 THEN ParameterSets ELSE 0
      all  == <<[sample |-> first[order], from |-> 0, to |-> s.size]>>
  IN  /\ pc = "sample" /\ ~ Audio(order)
      /\ IF size < 50 \/ ~ s.ok THEN Go("advance")
         ELSE write_packet(order, s.dts, s.pts, size + sets, all, "advance")
      /\ UNCHANGED <<frags, first, order, streams, rest, stage>>

\* Mutant of Advance: every track passes over a sample.
AdvanceAll ==
  /\ pc = "advance"
  /\ first' = [i \in DOMAIN first |-> IF Left(i) THEN first[i] + 1 ELSE first[i]]
  /\ Go("pick")
  /\ UNCHANGED <<frags, order, streams, rest, stage>>

Advance ==
  /\ pc = "advance"
  /\ first' = [first EXCEPT ![order] = @ + 1]
  /\ Go("pick")
  /\ UNCHANGED <<frags, order, streams, rest, stage>>

Finish ==
  /\ pc = "pick" /\ \A i \in DOMAIN frags : ~ Left(i)
  /\ Go("done")
  /\ UNCHANGED <<frags, first, order, streams, rest, stage>>

Next ==
  \/ \E i \in DOMAIN frags : Pick(i)
  \/ StartAudio \/ Copy \/ CopyData \/ AudioCopied \/ WriteVideo
  \/ WritePacket \/ PacketWritten
  \/ Advance \/ Finish

Spec == Init /\ [][Next]_vars

-----------------------------------------------------------------------------
\* Each variable has its type; above all, audio stays within its payload.
TypeOK ==
  /\ DOMAIN first = DOMAIN frags /\ DOMAIN streams = DOMAIN frags
  /\ order \in {0} \cup DOMAIN frags
  /\ \A i \in DOMAIN frags :
       /\ first[i] \in 1 .. Len(frags[i].samples) + 1
       /\ streams[i].index \in 0 .. MAX_PES_PAYLOAD_SIZE
       /\ streams[i].cc \in 0 .. 15
       /\ streams[i].packets \in Nat
  /\ rest \in Nat
  /\ stage \in {"header", "data"}
  /\ pes.left \in Nat /\ pes.written \in Nat /\ pes.reserved \in Nat
  /\ pc \in {"pick", "sample", "copy", "packets", "advance", "done"}

\* write_packet writes exactly the transport packets it has reserved room for
\* (packetized_packets): it never writes behind them, and never sends room it
\* has not written.
ReservesExactly ==
  pc = "packets" => /\ pes.written <= pes.reserved
                    /\ pes.left = 0 => pes.written = pes.reserved
                    /\ pes.left > 0 => pes.written < pes.reserved

\* A PES packet of audio bears the times of the first sample that starts in
\* it, and none when it holds but the rest of one; a picture bears its own.
Starts(pieces) == {n \in DOMAIN pieces : pieces[n].from = 0}
Stamped(i, pieces, dts, pts) ==
  IF Starts(pieces) = {} THEN dts = NOPTS_VALUE /\ pts = NOPTS_VALUE
  ELSE \A n \in Starts(pieces) :
         (\A m \in Starts(pieces) : n <= m) =>
           LET s == frags[i].samples[pieces[n].sample]
           IN  dts = s.dts + max_delay /\ pts = s.pts + max_delay
StampedByFirst ==
  \A k \in DOMAIN out :
    out[k].stream # 0 => Stamped(out[k].stream, out[k].pieces, out[k].dts, out[k].pts)

\* The tables come first, and again as soon as a minute of the stream has passed
\* since, and never sooner: not every 100 ms, as the comment at output_ts.h:26 has
\* it, whose value is commented out on the line below.
TablesInTime ==
  /\ \A k \in DOMAIN out : out[k].stream # 0 =>
       /\ out[1] = Tables
       /\ out[k].dts = NOPTS_VALUE
          \/ out[k - 1] = Tables
          \/ \E j \in 1 .. k - 2 :
               out[j] = Tables /\ out[k].dts < out[j + 1].dts + PAT_DELTA
  /\ \A j, k \in DOMAIN out :
       j < k /\ k < Len(out) /\ out[j] = Tables /\ out[k] = Tables =>
         out[j + 1].dts + PAT_DELTA <= out[k + 1].dts

\* The pieces of fragment i that are not in the bucket yet: those in pes are
\* still in the payload when they are audio.
InHand(i) == IF Audio(i) THEN streams[i].pieces
             ELSE IF pes.stream = i THEN pes.pieces ELSE <<>>

\* The bytes of a sample of fragment i, and when piece p goes on where q ends:
\* sound is without holes, of pictures some are passed over.
Bytes(i, s) == frags[i].samples[s].size + IF Audio(i) THEN AdtsSize ELSE 0
Follows(i, q, p) ==
  \/ p.sample = q.sample /\ p.from = q.to
  \/ /\ q.to = Bytes(i, q.sample) /\ p.from = 0
     /\ IF Audio(i) THEN p.sample = q.sample + 1 ELSE p.sample > q.sample

\* These pieces of fragment i go on where those before unit k of the bucket end.
GoesOn(i, pieces, k) ==
  LET mine == {j \in 1 .. k - 1 : out[j].stream = i}
  IN  /\ \A n \in 2 .. Len(pieces) : Follows(i, pieces[n - 1], pieces[n])
      /\ pieces # <<>> /\ mine = {} =>
           pieces[1].from = 0 /\ (Audio(i) => pieces[1].sample = 1)
      /\ pieces # <<>> =>
           \A j \in mine : (\A m \in mine : m <= j) =>
             Follows(i, Last(out[j].pieces), pieces[1])

\* No byte of a sample is lost or doubled: what is sent and held back of each
\* track are whole samples, one after the other, up to the one at hand; and
\* when the segment is complete nothing is held back, and all sound is sent.
NothingTorn ==
  /\ \A i \in DOMAIN frags : GoesOn(i, InHand(i), Len(out) + 1)
  /\ \A k \in DOMAIN out :
       out[k].stream # 0 => /\ out[k].pieces # <<>>
                            /\ GoesOn(out[k].stream, out[k].pieces, k)
  /\ pc = "done" => \A i \in DOMAIN frags :
       /\ InHand(i) = <<>>
       /\ Audio(i) => \E k \in DOMAIN out :
            /\ out[k].stream = i
            /\ Last(out[k].pieces).sample = Len(frags[i].samples)
            /\ Last(out[k].pieces).to = Bytes(i, Len(frags[i].samples))

\* The muxer is an implementation of the merge by decoding time: of two samples
\* that have been taken, the one whose end comes first was sent first.
Line(i) == Append(out, [stream |-> i, pieces |-> InHand(i)])
Ends(x, k, n) ==
  LET u == Line(x[1])[k]
  IN  /\ u.stream = x[1] /\ n \in DOMAIN u.pieces
      /\ u.pieces[n].sample = x[2] /\ u.pieces[n].to = Bytes(x[1], x[2])
Taken == UNION {{<<i, s>> : s \in 1 .. first[i] - 1} : i \in DOMAIN frags}
Before(x, y) ==
  \E k, l \in 1 .. Len(out) + 1 :
    \E n \in DOMAIN Line(x[1])[k].pieces, m \in DOMAIN Line(y[1])[l].pieces :
      /\ Ends(x, k, n) /\ Ends(y, l, m)
      /\ k < l \/ (k = l /\ n <= m)
Played == {p \in Taken \X Taken : Before(p[1], p[2])}
Merging == INSTANCE Merge WITH played <- Played
ImplementsMerge == Merging!Spec
=============================================================================
