---------------------------- MODULE TsMux_proof -----------------------------
(***************************************************************************)
(* Theorems about TsMux, for any number of tracks and samples of any       *)
(* sizes.  The payloads of audio stay within their buffers, and            *)
(* write_packet writes the transport packets it has counted before (IInv). *)
(* The tables come in time (Minute), and PES packets bear the times of     *)
(* what begins in them (Marks), both on what is typed and held (Base).     *)
(* No byte is lost or doubled (Story), and the samples are sent in the     *)
(* order of the merge by decoding time (Tale, a step of Merge or none).    *)
(***************************************************************************)
EXTENDS TsMux, SequenceTheorems, WellFoundedInduction, TLAPS

FragsTyped ==
  \A i \in DOMAIN frags :
    /\ Len(frags[i].samples) \in Nat
    /\ \A k \in 1 .. Len(frags[i].samples) : frags[i].samples[k].size \in Nat \ {0}

IsStream(st) ==
  /\ DOMAIN st = {"cc", "packets", "index", "dts", "pts", "pieces"}
  /\ st.cc \in 0 .. 15 /\ st.packets \in Nat /\ st.index \in 0 .. MAX_PES_PAYLOAD_SIZE

IsPes(p) ==
  /\ p = [stream |-> p.stream, dts |-> p.dts, pts |-> p.pts, left |-> p.left,
          reserved |-> p.reserved, written |-> p.written, pieces |-> p.pieces]
  /\ p.left \in Nat /\ p.reserved \in Nat /\ p.written \in Nat

\* Whose turn it is: outside of Pick, a fragment that has a sample left.
Turns ==
  /\ first = [i \in DOMAIN frags |-> first[i]]
  /\ \A i \in DOMAIN frags : first[i] \in 1 .. Len(frags[i].samples) + 1
  /\ order \in {0} \cup DOMAIN frags
  /\ rest \in Nat /\ stage \in {"header", "data"}
  /\ pc \in {"pick", "sample", "copy", "packets", "advance", "done"}
  /\ pc = "packets" => back \in {"sample", "copy", "advance"}
  /\ pc \notin {"pick", "done"} => order \in DOMAIN frags /\ Left(order)
  /\ pc = "copy" \/ (pc = "packets" /\ back = "copy") => Audio(order)

\* A payload is full only while it is being written.
Payloads ==
  /\ streams = [i \in DOMAIN frags |-> streams[i]]
  /\ \A i \in DOMAIN frags : IsStream(streams[i])
  /\ \A i \in DOMAIN frags :
       streams[i].index = MAX_PES_PAYLOAD_SIZE => pc = "packets" /\ pes.stream = i /\ Audio(i)

\* The transport packets that are still reserved are those that are needed.
Room ==
  /\ IsPes(pes)
  /\ pc = "packets" =>
       /\ pes.stream \in DOMAIN frags
       /\ pes.written = 0 =>
            /\ pes.left > 0
            /\ pes.reserved = packetized_packets(pes.stream, pes.dts, pes.pts, pes.left)
       /\ pes.written > 0 => pes.reserved = pes.written + (pes.left + 183) \div 184

IInv == FragsTyped /\ Turns /\ Payloads /\ Room

-----------------------------------------------------------------------------
(* Initial states                                                          *)

LEMMA FragsTypedInit == Init => FragsTyped
<1> SUFFICES ASSUME Init, NEW i \in DOMAIN frags
             PROVE  /\ Len(frags[i].samples) \in Nat
                    /\ \A k \in 1 .. Len(frags[i].samples) :
                         frags[i].samples[k].size \in Nat \ {0}
  BY DEF FragsTyped
<1> DEFINE Sample == [dts : Nat, cto : Nat, size : Nat \ {0}, ok : BOOLEAN]
<1>1. PICK sg \in Segments : frags = [j \in DOMAIN sg |-> Converted(sg[j])]
  BY DEF Init
<1>2. i \in DOMAIN sg /\ frags[i] = Converted(sg[i])
  BY <1>1
<1>3. sg[i].samples \in Seq(Sample)
  BY <1>2, TsMuxAssumption DEF IsSegment
<1> DEFINE n == Len(sg[i].samples)
<1> HIDE DEF Sample
<1>4. n \in Nat /\ DOMAIN sg[i].samples = 1 .. n /\ \A k \in 1 .. n : sg[i].samples[k] \in Sample
  BY <1>3
<1>5. \A k \in 1 .. n : sg[i].samples[k].size \in Nat \ {0}
  BY <1>4 DEF Sample
<1> HIDE DEF n
<1> DEFINE s(k) == [dts |-> Clock(sg[i].samples[k].dts, sg[i].scale),
                    pts |-> Clock(sg[i].samples[k].dts, sg[i].scale)
                            + Clock(sg[i].samples[k].cto, sg[i].scale),
                    size |-> sg[i].samples[k].size, ok |-> sg[i].samples[k].ok]
<1>6. frags[i].samples = [k \in 1 .. n |-> s(k)]
  BY <1>2, <1>4 DEF Converted
<1>7. \A k \in 1 .. n : s(k).size = sg[i].samples[k].size
  OBVIOUS
<1> HIDE DEF s
<1>8. Len(frags[i].samples) = n
  BY <1>4, <1>6
<1>9. \A k \in 1 .. n : frags[i].samples[k].size = sg[i].samples[k].size
  BY <1>6, <1>7
<1> QED BY <1>4, <1>5, <1>8, <1>9

LEMMA IInvInit == Init => IInv
<1> SUFFICES ASSUME Init PROVE Turns /\ Payloads /\ Room
  BY FragsTypedInit DEF IInv
<1>1. FragsTyped
  BY FragsTypedInit
<1>2. Turns
  <2>1. first = [i \in DOMAIN frags |-> 1]
    BY DEF Init
  <2>2. \A i \in DOMAIN frags : first[i] \in 1 .. Len(frags[i].samples) + 1
    BY <1>1, <2>1 DEF FragsTyped
  <2>3. order = 0 /\ rest = 0 /\ stage = "header" /\ pc = "pick"
    BY DEF Init
  <2> QED BY <2>1, <2>2, <2>3 DEF Turns
<1>3. Payloads
  <2>1. streams = [i \in DOMAIN frags |-> mpegts_stream_init]
    BY DEF Init
  <2>2. IsStream(mpegts_stream_init) /\ mpegts_stream_init.index = 0
    BY DEF IsStream, mpegts_stream_init, MAX_PES_PAYLOAD_SIZE
  <2> HIDE DEF mpegts_stream_init
  <2>3. MAX_PES_PAYLOAD_SIZE # 0
    BY DEF MAX_PES_PAYLOAD_SIZE
  <2> QED BY <2>1, <2>2, <2>3 DEF Payloads
<1>4. Room
  BY DEF Init, Room, IsPes, NoPes
<1> QED BY <1>2, <1>3, <1>4

-----------------------------------------------------------------------------
(* write_packet                                                            *)

LEMMA OnceSmall ==
  ASSUME NEW i, NEW dts, NEW pts
  PROVE  Once(i, dts, pts) \in 0 .. 27
BY DEF Once

LEMMA PacketsCounted ==
  ASSUME NEW i, NEW dts, NEW pts, NEW size \in Nat, size > 0
  PROVE  packetized_packets(i, dts, pts, size) \in Nat \ {0}
<1>1. Once(i, dts, pts) \in 0 .. 27
  BY OnceSmall
<1> QED BY <1>1 DEF packetized_packets

\* write_packet is entered with the room it needs.
LEMMA Entered ==
  ASSUME NEW i \in DOMAIN frags, NEW dts, NEW pts, NEW size \in Nat, size > 0,
         NEW pieces, NEW after, frags' = frags,
         streams'[i].packets = streams[i].packets,
         write_packet(i, dts, pts, size, pieces, after)
  PROVE  Room'
<1> DEFINE n == packetized_packets(i, Delayed(dts), Delayed(pts), size)
<1>1. n \in Nat
  BY PacketsCounted
<1>2. pes' = [stream |-> i, dts |-> Delayed(dts), pts |-> Delayed(pts), left |-> size,
              written |-> 0, pieces |-> pieces, reserved |-> n]
  BY DEF write_packet
<1>3. n = packetized_packets(i, Delayed(dts), Delayed(pts), size)
  OBVIOUS
<1> HIDE DEF n
<1>4. IsPes(pes)'
  BY <1>1, <1>2 DEF IsPes
<1>5. (packetized_packets(pes.stream, pes.dts, pes.pts, pes.left))' = n
  BY <1>2, <1>3 DEF packetized_packets, Once, CarriesPcr
<1> QED BY <1>1, <1>2, <1>4, <1>5 DEF Room

\* What is left to do in one write_packet is written by one packet less.
LEMMA WritePacketFits ==
  ASSUME Room, FragsTyped, Payloads, WritePacket
  PROVE  Room'
<1> DEFINE once == Once(pes.stream, pes.dts, pes.pts)
           room == TS_PACKET_SIZE - HeaderLen
           len  == IF pes.left < room THEN pes.left ELSE room
<1>1. /\ pc = "packets" /\ pc' = "packets" /\ pes.left > 0
      /\ pes' = [pes EXCEPT !.left = @ - len, !.written = @ + 1]
      /\ frags' = frags
  BY DEF WritePacket
<1>2. once \in 0 .. 27
  BY OnceSmall
<1>3. pes.left \in Nat /\ pes.written \in Nat /\ pes.reserved \in Nat /\ IsPes(pes)
  BY DEF Room, IsPes
<1>4. room = 184 - (IF pes.written = 0 THEN once ELSE 0)
  BY <1>2 DEF HeaderLen, TS_PACKET_SIZE
<1>5. /\ pes.written = 0 =>
           pes.reserved = IF pes.left <= 184 - once THEN 1
                          ELSE 1 + (pes.left - (184 - once) + 184 - 1) \div 184
      /\ pes.written > 0 => pes.reserved = pes.written + (pes.left + 183) \div 184
      /\ pes.stream \in DOMAIN frags
  BY <1>1 DEF Room, packetized_packets
<1> HIDE DEF once, room
<1>6. len \in Nat /\ len <= pes.left
  BY <1>2, <1>3, <1>4
<1>7. pes.reserved = pes.written + 1 + (pes.left - len + 183) \div 184
  <2>1. CASE pes.written = 0 /\ pes.left <= 184 - once
    <3>1. pes.left - len = 0
      BY <1>2, <1>3, <1>4, <2>1
    <3>2. 183 \div 184 = 0
      OBVIOUS
    <3> QED BY <1>2, <1>3, <1>5, <2>1, <3>1, <3>2
  <2>2. CASE pes.written = 0 /\ ~ pes.left <= 184 - once
    <3>1. len = 184 - once
      BY <1>2, <1>3, <1>4, <2>2
    <3>2. pes.left - (184 - once) + 184 - 1 = pes.left - len + 183
      BY <1>2, <1>3, <3>1
    <3> QED BY <1>2, <1>3, <1>5, <2>2, <3>2
  <2>3. CASE pes.written > 0
    <3> DEFINE l == pes.left
    <3>1. len = IF l < 184 THEN l ELSE 184
      BY <1>4, <2>3, <1>3
    <3>2. l \in Nat /\ l > 0
      BY <1>1, <1>3
    <3>3. pes.reserved = pes.written + (l + 183) \div 184
      BY <1>5, <2>3
    <3> HIDE DEF l
    <3>4. (l + 183) \div 184 = 1 + (l - len + 183) \div 184
      BY <3>1, <3>2
    <3>5. (l - len + 183) \div 184 \in Int
      BY <3>1, <3>2
    <3> QED BY <1>3, <3>3, <3>4, <3>5 DEF l
  <2> QED BY <1>3, <2>1, <2>2, <2>3
<1> HIDE DEF len
<1>8. pes' = [stream |-> pes.stream, dts |-> pes.dts, pts |-> pes.pts,
              left |-> pes.left - len, reserved |-> pes.reserved,
              written |-> pes.written + 1, pieces |-> pes.pieces]
  BY <1>1, <1>3 DEF IsPes
<1>9. IsPes(pes)'
  BY <1>3, <1>6, <1>8 DEF IsPes
<1> QED BY <1>1, <1>3, <1>5, <1>7, <1>8, <1>9 DEF Room

-----------------------------------------------------------------------------
(* The invariant, one part after the other                                 *)

LEMMA Enters ==
  ASSUME NEW i, NEW dts, NEW pts, NEW size, NEW pieces, NEW after,
         write_packet(i, dts, pts, size, pieces, after)
  PROVE  pc' = "packets" /\ back' = after /\ pes'.stream = i
BY DEF write_packet

\* What is copied fits into the payload, and is something if there is room.
LEMMA FittingFits ==
  ASSUME NEW index \in 0 .. MAX_PES_PAYLOAD_SIZE, rest \in Nat
  PROVE  /\ Fitting(index) \in 0 .. rest
         /\ index + Fitting(index) \in 0 .. MAX_PES_PAYLOAD_SIZE
         /\ rest > 0 /\ index # MAX_PES_PAYLOAD_SIZE => index + Fitting(index) > 0
BY DEF Fitting, MAX_PES_PAYLOAD_SIZE

\* What the steps make of a stream is a stream again.
LEMMA StreamFilled ==
  ASSUME NEW st, IsStream(st), NEW n \in 0 .. MAX_PES_PAYLOAD_SIZE, NEW q
  PROVE  IsStream([st EXCEPT !.index = n, !.pieces = q])
BY DEF IsStream

LEMMA StreamCounted ==
  ASSUME NEW st, IsStream(st), NEW c \in 0 .. 15, NEW n \in Nat
  PROVE  /\ IsStream([st EXCEPT !.cc = c, !.packets = n])
         /\ [st EXCEPT !.cc = c, !.packets = n].index = st.index
BY DEF IsStream

LEMMA StreamEmptied ==
  ASSUME NEW st, IsStream(st)
  PROVE  LET new == [st EXCEPT !.index = 0, !.dts = NOPTS_VALUE, !.pts = NOPTS_VALUE,
                               !.pieces = <<>>]
         IN  IsStream(new) /\ new.index = 0
BY DEF IsStream, MAX_PES_PAYLOAD_SIZE

LEMMA TurnsNext ==
  ASSUME FragsTyped, Turns, Payloads, [Next]_vars
  PROVE  Turns' /\ frags' = frags
<1> USE DEF Go
<1>1. ASSUME NEW i \in DOMAIN frags, Pick(i) PROVE Turns' /\ frags' = frags
  <2>1. /\ UNCHANGED <<frags, first, rest, stage>> /\ order' = i /\ Due(i)
        /\ \/ pc' = "sample"
           \/ pc' = "packets" /\ back' = "sample"
    BY <1>1, Enters DEF Pick, Flush
  <2>2. Left(i)
    BY <2>1 DEF Due
  <2> QED BY <2>1, <2>2 DEF Turns, Left
<1>2. CASE StartAudio
  BY <1>2 DEF StartAudio, Turns, Left, Audio, AdtsSize
<1>3. CASE Copy
  <2> DEFINE size == Fitting(streams[order].index)
  <2>1. /\ UNCHANGED <<frags, first, order, stage>> /\ rest' = rest - size
        /\ pc = "copy"
        /\ \/ pc' = "copy"
           \/ pc' = "packets" /\ back' = "copy"
    BY <1>3, Enters DEF Copy, Flush
  <2>2. order \in DOMAIN frags /\ rest \in Nat
    BY <2>1 DEF Turns
  <2>3. streams[order].index \in 0 .. MAX_PES_PAYLOAD_SIZE
    BY <2>2 DEF Payloads, IsStream
  <2>4. size \in 0 .. rest
    BY <2>2, <2>3, FittingFits
  <2> HIDE DEF size
  <2>5. rest' \in Nat
    BY <2>1, <2>2, <2>4
  <2> QED BY <2>1, <2>5 DEF Turns, Left, Audio
<1>4. CASE CopyData
  <2>1. /\ UNCHANGED <<frags, first, order, pc, back>> /\ pc = "copy" /\ stage' = "data"
        /\ rest' = frags[order].samples[first[order]].size
    BY <1>4 DEF CopyData, Head1
  <2>2. order \in DOMAIN frags /\ first[order] \in 1 .. Len(frags[order].samples)
    BY <2>1 DEF Turns, Left, FragsTyped
  <2>3. rest' \in Nat
    BY <2>1, <2>2 DEF FragsTyped
  <2> QED BY <2>1, <2>3 DEF Turns, Left, Audio
<1>5. CASE AudioCopied
  <2>1. /\ UNCHANGED <<frags, first, order, rest, stage>> /\ pc = "copy"
        /\ \/ pc' = "advance"
           \/ pc' = "packets" /\ back' = "advance"
    BY <1>5, Enters DEF AudioCopied, Flush
  <2> QED BY <2>1 DEF Turns, Left
<1>6. CASE WriteVideo
  <2>1. /\ UNCHANGED <<frags, first, order, rest, stage>> /\ pc = "sample"
        /\ \/ pc' = "advance"
           \/ pc' = "packets" /\ back' = "advance"
    BY <1>6, Enters DEF WriteVideo
  <2> QED BY <2>1 DEF Turns, Left
<1>7. CASE WritePacket
  <2>1. UNCHANGED <<frags, first, order, rest, stage, pc, back>>
    BY <1>7 DEF WritePacket
  <2> QED BY <2>1 DEF Turns, Left, Audio
<1>8. CASE PacketWritten
  <2>1. UNCHANGED <<frags, first, order, rest, stage>> /\ pc = "packets" /\ pc' = back
    BY <1>8 DEF PacketWritten
  <2> QED BY <2>1 DEF Turns, Left, Audio
<1>9. CASE Advance
  <2>1. /\ UNCHANGED <<frags, order, rest, stage>> /\ pc = "advance" /\ pc' = "pick"
        /\ first' = [first EXCEPT ![order] = @ + 1]
    BY <1>9 DEF Advance
  <2>2. order \in DOMAIN frags /\ first[order] <= Len(frags[order].samples)
        /\ first[order] \in 1 .. Len(frags[order].samples) + 1
        /\ Len(frags[order].samples) \in Nat
    BY <2>1 DEF Turns, Left, FragsTyped
  <2>3. first[order] + 1 \in 1 .. Len(frags[order].samples) + 1
    BY <2>2
  <2>4. first' = [i \in DOMAIN frags |-> IF i = order THEN first[order] + 1 ELSE first[i]]
    BY <2>1 DEF Turns
  <2>5. \A i \in DOMAIN frags : first'[i] \in 1 .. Len(frags[i].samples) + 1
    BY <2>3, <2>4 DEF Turns
  <2>6. first' = [i \in DOMAIN frags |-> first'[i]]
    BY <2>4
  <2> QED BY <2>1, <2>5, <2>6 DEF Turns
<1>10. CASE Finish
  BY <1>10 DEF Finish, Turns
<1>11. CASE UNCHANGED vars
  BY <1>11 DEF vars, Turns, Left, Audio
<1> QED BY <1>1, <1>2, <1>3, <1>4, <1>5, <1>6, <1>7, <1>8, <1>9, <1>10, <1>11 DEF Next

\* No payload is full before a PES packet is begun, and none is disturbed.
LEMMA PayloadsStay ==
  ASSUME Payloads, frags' = frags, streams' = streams, pc # "packets"
  PROVE  Payloads'
BY DEF Payloads, Audio

\* One payload changes, and is full at most if it is what is written next.
LEMMA PayloadChanges ==
  ASSUME Payloads, frags' = frags, pc # "packets", NEW i \in DOMAIN frags, NEW st,
         streams' = [streams EXCEPT ![i] = st], IsStream(st),
         st.index = MAX_PES_PAYLOAD_SIZE => pc' = "packets" /\ pes'.stream = i /\ Audio(i)
  PROVE  Payloads'
<1>1. streams' = [j \in DOMAIN frags |-> IF j = i THEN st ELSE streams[j]]
  BY DEF Payloads
<1>2. \A j \in DOMAIN frags : IsStream(streams'[j])
  BY <1>1 DEF Payloads
<1>3. \A j \in DOMAIN frags : streams'[j].index = MAX_PES_PAYLOAD_SIZE => j = i
  BY <1>1 DEF Payloads
<1> QED BY <1>1, <1>2, <1>3 DEF Payloads, IsStream, Audio

LEMMA PayloadsNext ==
  ASSUME FragsTyped, Turns, Payloads, Room, [Next]_vars
  PROVE  Payloads'
<1>0. frags' = frags
  BY TurnsNext
<1>1. ASSUME NEW i \in DOMAIN frags, Pick(i) PROVE Payloads'
  BY <1>0, <1>1, PayloadsStay DEF Pick
<1>2. CASE CopyData \/ AudioCopied \/ WriteVideo \/ Advance \/ Finish
  BY <1>0, <1>2, PayloadsStay DEF CopyData, AudioCopied, WriteVideo, Advance, Finish
<1>3. CASE StartAudio
  <2> DEFINE st == Stamp(streams[order], Head1(order))
  <2>1. pc = "sample" /\ streams' = [streams EXCEPT ![order] = st]
    BY <1>3 DEF StartAudio
  <2>2. order \in DOMAIN frags
    BY <2>1 DEF Turns
  <2>3. IsStream(streams[order]) /\ streams[order].index # MAX_PES_PAYLOAD_SIZE
    BY <2>1, <2>2 DEF Payloads
  <2>4. IsStream(st) /\ st.index = streams[order].index
    BY <2>3 DEF Stamp, IsStream
  <2> HIDE DEF st
  <2> QED BY <1>0, <2>1, <2>2, <2>3, <2>4, PayloadChanges
<1>4. CASE Copy
  <2> DEFINE old  == streams[order]
             size == Fitting(old.index)
             new  == [old EXCEPT !.index = @ + size,
                                 !.pieces = Append(@, [sample |-> first[order], from |-> Done1,
                                                       to |-> Done1 + size])]
  <2>1. /\ pc = "copy" /\ streams' = [streams EXCEPT ![order] = new]
        /\ IF Full(new) THEN Flush(order, new, "copy") ELSE Go("copy")
    BY <1>4 DEF Copy
  <2>2. order \in DOMAIN frags /\ rest \in Nat /\ Audio(order)
    BY <2>1 DEF Turns
  <2>3. IsStream(old) /\ old.index \in 0 .. MAX_PES_PAYLOAD_SIZE
    BY <2>2 DEF Payloads, IsStream
  <2>4. old.index + size \in 0 .. MAX_PES_PAYLOAD_SIZE
    BY <2>2, <2>3, FittingFits
  <2> HIDE DEF size, old
  <2>5. IsStream(new)
    BY <2>3, <2>4, StreamFilled
  <2>6. new.index = MAX_PES_PAYLOAD_SIZE => Flush(order, new, "copy")
    BY <2>1 DEF Full
  <2> HIDE DEF new
  <2>7. new.index = MAX_PES_PAYLOAD_SIZE => pc' = "packets" /\ pes'.stream = order
    BY <2>6, Enters DEF Flush
  <2> QED BY <1>0, <2>1, <2>2, <2>5, <2>7, PayloadChanges
<1>5. CASE WritePacket
  <2> DEFINE s  == pes.stream
             st == [streams[s] EXCEPT !.cc = (@ + 1) % 16, !.packets = @ + 1]
  <2>1. /\ pc = "packets" /\ pc' = "packets"
        /\ streams' = [streams EXCEPT ![s].cc = (@ + 1) % 16, ![s].packets = @ + 1]
        /\ pes' = [pes EXCEPT !.left = pes'.left, !.written = pes'.written]
    BY <1>5 DEF WritePacket, Room, IsPes
  <2>2. s \in DOMAIN frags /\ pes'.stream = s
    BY <1>5 DEF WritePacket, Room, IsPes
  <2>3. IsStream(streams[s])
    BY <2>2 DEF Payloads
  <2>4. (streams[s].cc + 1) % 16 \in 0 .. 15 /\ streams[s].packets + 1 \in Nat
    BY <2>3 DEF IsStream
  <2>5. streams' = [j \in DOMAIN frags |-> IF j = s THEN st ELSE streams[j]]
    BY <2>1, <2>2 DEF Payloads
  <2>6. IsStream(st) /\ st.index = streams[s].index
    BY <2>3, <2>4, StreamCounted
  <2> HIDE DEF st, s
  <2>7. \A j \in DOMAIN frags : IsStream(streams'[j]) /\ streams'[j].index = streams[j].index
    BY <2>5, <2>6 DEF Payloads
  <2>8. pes'.stream = pes.stream
    BY <2>2 DEF s
  <2> QED BY <1>0, <2>1, <2>5, <2>7, <2>8 DEF Payloads, Audio
<1>6. CASE PacketWritten
  <2> DEFINE s  == pes.stream
             st == [streams[s] EXCEPT !.index = 0, !.dts = NOPTS_VALUE, !.pts = NOPTS_VALUE,
                                      !.pieces = <<>>]
  <2>1. /\ pc = "packets" /\ s \in DOMAIN frags
        /\ ~ Audio(s) => streams' = streams
        /\ Audio(s) =>
             streams' = [streams EXCEPT ![s].index = 0, ![s].dts = NOPTS_VALUE,
                                        ![s].pts = NOPTS_VALUE, ![s].pieces = <<>>]
    BY <1>6 DEF PacketWritten, Room
  <2>2. CASE ~ Audio(s)
    BY <1>0, <2>1, <2>2 DEF Payloads
  <2>3. CASE Audio(s)
    <3>1. streams' = [j \in DOMAIN frags |-> IF j = s THEN st ELSE streams[j]]
      BY <2>1, <2>3 DEF Payloads
    <3>2. IsStream(streams[s])
      BY <2>1 DEF Payloads
    <3>3. IsStream(st) /\ st.index = 0
      BY <3>2, StreamEmptied
    <3>4. IsStream(st) /\ st.index # MAX_PES_PAYLOAD_SIZE
      BY <3>3 DEF MAX_PES_PAYLOAD_SIZE
    <3> HIDE DEF st
    <3>5. \A j \in DOMAIN frags : IsStream(streams'[j])
      BY <3>1, <3>4 DEF Payloads
    <3>6. \A j \in DOMAIN frags : streams'[j].index # MAX_PES_PAYLOAD_SIZE
      BY <3>1, <3>4 DEF Payloads
    <3> QED BY <1>0, <3>1, <3>5, <3>6 DEF Payloads
  <2> QED BY <2>2, <2>3
<1>7. CASE UNCHANGED vars
  BY <1>7 DEF vars, Payloads, Audio
<1> QED BY <1>1, <1>2, <1>3, <1>4, <1>5, <1>6, <1>7 DEF Next

\* No PES packet is begun, or the one at hand is left behind.
LEMMA RoomStays ==
  ASSUME Room, IsPes(pes)', pc' # "packets"
  PROVE  Room'
BY DEF Room

LEMMA RoomNext ==
  ASSUME FragsTyped, Turns, Payloads, Room, [Next]_vars
  PROVE  Room'
<1>0. frags' = frags /\ IsPes(pes)
  BY TurnsNext DEF Room
<1>1. ASSUME NEW i \in DOMAIN frags, Pick(i) PROVE Room'
  <2>1. streams' = streams /\ pc = "pick" /\ order \in {0} \cup DOMAIN frags
    BY <1>1 DEF Pick, Turns
  <2>2. CASE FlushNow(i)
    <3>1. /\ order \in DOMAIN frags /\ streams[order].index > 0
          /\ write_packet(order, streams[order].dts, streams[order].pts,
                          streams[order].index, streams[order].pieces, "sample")
      BY <1>1, <2>1, <2>2 DEF Pick, Flush, FlushNow
    <3>2. streams[order].index \in Nat
      BY <3>1 DEF Payloads, IsStream
    <3> QED BY <1>0, <2>1, <3>1, <3>2, Entered
  <2>3. CASE ~ FlushNow(i)
    BY <1>0, <1>1, <2>3, RoomStays DEF Pick, Go, IsPes
  <2> QED BY <2>2, <2>3
<1>2. CASE StartAudio \/ Advance \/ Finish
  BY <1>0, <1>2, RoomStays DEF StartAudio, Advance, Finish, Go, IsPes
<1>3. CASE CopyData
  <2>1. pc = "copy" /\ pc' = pc /\ pes' = pes
    BY <1>3 DEF CopyData
  <2> QED BY <1>0, <2>1, RoomStays DEF IsPes
<1>4. CASE Copy
  <2> DEFINE old  == streams[order]
             size == Fitting(old.index)
             new  == [old EXCEPT !.index = @ + size,
                                 !.pieces = Append(@, [sample |-> first[order], from |-> Done1,
                                                       to |-> Done1 + size])]
  <2>1. /\ pc = "copy" /\ rest > 0 /\ streams' = [streams EXCEPT ![order] = new]
        /\ IF Full(new) THEN Flush(order, new, "copy") ELSE Go("copy")
    BY <1>4 DEF Copy
  <2>2. order \in DOMAIN frags /\ rest \in Nat
    BY <2>1 DEF Turns
  <2>3. /\ IsStream(old) /\ old.index \in 0 .. MAX_PES_PAYLOAD_SIZE
        /\ old.index # MAX_PES_PAYLOAD_SIZE
    BY <2>1, <2>2 DEF Payloads, IsStream
  <2>4. old.index + size \in 0 .. MAX_PES_PAYLOAD_SIZE /\ old.index + size > 0
    BY <2>1, <2>2, <2>3, FittingFits
  <2> HIDE DEF size, old
  <2>5. new.index = old.index + size /\ new.packets = old.packets
    BY <2>3 DEF IsStream
  <2> HIDE DEF new
  <2>6. streams'[order].packets = streams[order].packets
    BY <2>1, <2>2, <2>5 DEF Payloads, old
  <2>7. CASE Full(new)
    <3>1. write_packet(order, new.dts, new.pts, new.index, new.pieces, "copy")
      BY <2>1, <2>7 DEF Flush
    <3>2. new.index \in Nat /\ new.index > 0
      BY <2>4, <2>5
    <3> QED BY <1>0, <2>2, <2>6, <3>1, <3>2, Entered
  <2>8. CASE ~ Full(new)
    BY <1>0, <2>1, <2>8, RoomStays DEF Go, IsPes
  <2> QED BY <2>7, <2>8
<1>5. CASE AudioCopied
  <2>1. pc = "copy" /\ streams' = streams
    BY <1>5 DEF AudioCopied
  <2>2. order \in DOMAIN frags
    BY <2>1 DEF Turns
  <2>3. CASE LastSample /\ streams[order].index > 0
    <3>1. write_packet(order, streams[order].dts, streams[order].pts,
                       streams[order].index, streams[order].pieces, "advance")
      BY <1>5, <2>3 DEF AudioCopied, Flush
    <3>2. streams[order].index \in Nat
      BY <2>2 DEF Payloads, IsStream
    <3> QED BY <1>0, <2>1, <2>2, <2>3, <3>1, <3>2, Entered
  <2>4. CASE ~ (LastSample /\ streams[order].index > 0)
    BY <1>0, <1>5, <2>4, RoomStays DEF AudioCopied, Go, IsPes
  <2> QED BY <2>3, <2>4
<1>6. CASE WriteVideo
  <2> DEFINE s    == Head1(order)
             size == s.size + AudNal
             sets == IF streams[order].packets = 0 THEN ParameterSets ELSE 0
             all  == <<[sample |-> first[order], from |-> 0, to |-> s.size]>>
  <2>1. /\ pc = "sample" /\ streams' = streams
        /\ IF size < 50 \/ ~ s.ok THEN Go("advance")
           ELSE write_packet(order, s.dts, s.pts, size + sets, all, "advance")
    BY <1>6 DEF WriteVideo
  <2>2. order \in DOMAIN frags /\ first[order] \in 1 .. Len(frags[order].samples)
    BY <2>1 DEF Turns, Left, FragsTyped
  <2>3. s.size \in Nat /\ sets \in Nat /\ AudNal \in Nat
    BY <2>2, TsMuxAssumption DEF Head1, FragsTyped, AudNal
  <2> HIDE DEF s, sets
  <2>4. size \in Nat /\ size + sets \in Nat
    BY <2>3
  <2>5. CASE size < 50 \/ ~ s.ok
    BY <1>0, <2>1, <2>5, RoomStays DEF Go, IsPes
  <2>6. CASE ~ (size < 50 \/ ~ s.ok)
    <3>1. write_packet(order, s.dts, s.pts, size + sets, all, "advance")
      BY <2>1, <2>6
    <3>2. size + sets > 0
      BY <2>3, <2>4, <2>6
    <3> HIDE DEF size, all
    <3> QED BY <1>0, <2>1, <2>2, <2>4, <3>1, <3>2, Entered
  <2> QED BY <2>5, <2>6
<1>7. CASE WritePacket
  BY <1>7, WritePacketFits
<1>8. CASE PacketWritten
  <2>1. pc = "packets" /\ pc' = back /\ pes' = NoPes
    BY <1>8 DEF PacketWritten
  <2>2. pc' # "packets"
    BY <2>1 DEF Turns
  <2>3. IsPes(pes)'
    BY <2>1 DEF IsPes, NoPes
  <2> QED BY <2>2, <2>3, RoomStays
<1>9. CASE UNCHANGED vars
  BY <1>9 DEF vars, Room, IsPes, packetized_packets, Once, CarriesPcr
<1> QED BY <1>1, <1>2, <1>3, <1>4, <1>5, <1>6, <1>7, <1>8, <1>9 DEF Next

LEMMA IInvAlways == Spec => []IInv
<1>1. IInv /\ [Next]_vars => IInv'
  <2> SUFFICES ASSUME FragsTyped, Turns, Payloads, Room, [Next]_vars
               PROVE  FragsTyped' /\ Turns' /\ Payloads' /\ Room'
    BY DEF IInv
  <2>1. Turns' /\ frags' = frags
    BY TurnsNext
  <2>2. FragsTyped'
    BY <2>1 DEF FragsTyped
  <2> QED BY <2>1, <2>2, PayloadsNext, RoomNext
<1> QED BY <1>1, IInvInit, PTL DEF Spec

\* Every payload of audio stays within its buffer of MAX_PES_PAYLOAD_SIZE
\* bytes, the continuity counters within their four bits, and only samples
\* that are there are taken.
THEOREM TypeCorrect == Spec => []TypeOK
<1>1. IInv => TypeOK
  <2> SUFFICES ASSUME Turns, Payloads, Room PROVE TypeOK
    BY DEF IInv
  <2>1. DOMAIN first = DOMAIN frags /\ DOMAIN streams = DOMAIN frags
    BY DEF Turns, Payloads
  <2>2. \A i \in DOMAIN frags :
          /\ first[i] \in 1 .. Len(frags[i].samples) + 1
          /\ streams[i].index \in 0 .. MAX_PES_PAYLOAD_SIZE
          /\ streams[i].cc \in 0 .. 15
          /\ streams[i].packets \in Nat
    BY DEF Turns, Payloads, IsStream
  <2>3. pes.left \in Nat /\ pes.written \in Nat /\ pes.reserved \in Nat
    BY DEF Room, IsPes
  <2> QED BY <2>1, <2>2, <2>3 DEF TypeOK, Turns
<1> QED BY <1>1, IInvAlways, PTL

\* write_packet: packetized_packets counts exactly the transport packets the
\* loop writes, for any size, time stamps and adaptation field, and whatever
\* has been written for the stream before.
THEOREM RoomIsExact == Spec => []ReservesExactly
<1>1. IInv => ReservesExactly
  <2> SUFFICES ASSUME Room, pc = "packets"
               PROVE  /\ pes.written <= pes.reserved
                      /\ pes.left = 0 => pes.written = pes.reserved
                      /\ pes.left > 0 => pes.written < pes.reserved
    BY DEF IInv, ReservesExactly
  <2>1. pes.left \in Nat /\ pes.written \in Nat /\ pes.reserved \in Nat
    BY DEF Room, IsPes
  <2>2. CASE pes.written = 0
    <3>1. /\ pes.left > 0
          /\ pes.reserved = packetized_packets(pes.stream, pes.dts, pes.pts, pes.left)
      BY <2>2 DEF Room
    <3>2. pes.reserved > 0
      BY <2>1, <3>1, PacketsCounted
    <3> QED BY <2>1, <2>2, <3>1, <3>2
  <2>3. CASE pes.written > 0
    <3>1. pes.reserved = pes.written + (pes.left + 183) \div 184
      BY <2>3 DEF Room
    <3>2. pes.left = 0 => (pes.left + 183) \div 184 = 0
      OBVIOUS
    <3>3. pes.left > 0 => (pes.left + 183) \div 184 > 0
      BY <2>1
    <3>4. (pes.left + 183) \div 184 \in Nat
      BY <2>1
    <3> QED BY <2>1, <3>1, <3>2, <3>3, <3>4
  <2> QED BY <2>1, <2>2, <2>3
<1> QED BY <1>1, IInvAlways, PTL

-----------------------------------------------------------------------------
(* What the bucket and the payloads tell                                   *)

Piece == [sample : Nat, from : Nat, to : Nat]
Time  == Nat \cup {NOPTS_VALUE}
Unit  == [stream : Nat, dts : Time, pts : Time, pieces : Seq(Piece), packets : Nat]

\* The samples have times, and a track is of one of two kinds.
TimesTyped ==
  /\ Len(frags) \in Nat /\ DOMAIN frags = 1 .. Len(frags)
  /\ \A i \in DOMAIN frags :
       /\ frags[i].kind \in {"vide", "soun"}
       /\ \A k \in 1 .. Len(frags[i].samples) :
            /\ frags[i].samples[k].dts \in Nat
            /\ frags[i].samples[k].pts \in Nat

\* The sample at hand is due until it has been written.
Chosen ==
  pc \notin {"pick", "done"} =>
    \A j \in DOMAIN frags : Left(j) => Head1(order).dts <= Head1(j).dts

Writes(where) == pc = "packets" /\ back = where

\* How much of a sample write_audio_packet has copied.
Copying ==
  /\ pc = "copy" \/ Writes("copy") =>
       rest <= IF stage = "header" THEN AdtsSize ELSE Head1(order).size
  /\ Writes("copy") => Done1 > 0

Typed ==
  /\ out \in Seq(Unit)
  /\ next_pat \in Int
  /\ \A i \in DOMAIN frags :
       streams[i].pieces \in Seq(Piece) /\ streams[i].dts \in Time /\ streams[i].pts \in Time
  /\ pes.pieces \in Seq(Piece) /\ pes.dts \in Time /\ pes.pts \in Time
  /\ \A k \in DOMAIN out : /\ out[k].stream \in {0} \cup DOMAIN frags
                           /\ out[k].stream # 0 => out[k].pieces # <<>>

\* Where bytes may be held back, and where not.
Hands ==
  /\ \A i \in DOMAIN frags :
       /\ streams[i].index = 0 <=> streams[i].pieces = <<>>
       /\ ~ Audio(i) => streams[i].pieces = <<>>
       /\ streams[i].pieces # <<>> =>
            IF Writes("sample") THEN pes.stream = i ELSE i = order
       /\ ~ Left(i) => streams[i].pieces = <<>>
  /\ pc = "advance" /\ LastSample => streams[order].pieces = <<>>
  /\ pc # "packets" => pes = NoPes
  /\ pc = "packets" =>
       /\ pes.pieces # <<>>
       /\ Audio(pes.stream) => pes.pieces = streams[pes.stream].pieces
       /\ IF back = "sample" THEN pes.stream # order /\ Audio(pes.stream)
                             ELSE pes.stream = order

Base == IInv /\ TimesTyped /\ Chosen /\ Copying /\ Typed /\ Hands

LEMMA QuotientNat ==
  ASSUME NEW n \in Nat, NEW m \in Nat \ {0}
  PROVE  n \div m \in Nat
OBVIOUS

LEMMA ClockNat ==
  ASSUME NEW t \in Nat, NEW scale \in Nat \ {0}
  PROVE  Clock(t, scale) \in Nat
BY QuotientNat DEF Clock

LEMMA TimesTypedInit == Init => TimesTyped
<1> SUFFICES ASSUME Init PROVE TimesTyped
  OBVIOUS
<1>1. PICK sg \in Segments : frags = [j \in DOMAIN sg |-> Converted(sg[j])]
  BY DEF Init
<1>2. IsSegment(sg)
  BY TsMuxAssumption
<1>3. DOMAIN sg = 1 .. Len(sg) /\ Len(sg) \in Nat
  BY <1>2 DEF IsSegment
<1>4. Len(frags) = Len(sg) /\ DOMAIN frags = 1 .. Len(sg)
  BY <1>1, <1>3
<1>5. ASSUME NEW i \in DOMAIN frags
      PROVE  /\ frags[i].kind \in {"vide", "soun"}
             /\ \A k \in 1 .. Len(frags[i].samples) :
                  frags[i].samples[k].dts \in Nat /\ frags[i].samples[k].pts \in Nat
  <2> DEFINE Sample == [dts : Nat, cto : Nat, size : Nat \ {0}, ok : BOOLEAN]
             n == Len(sg[i].samples)
  <2>1. i \in DOMAIN sg /\ frags[i] = Converted(sg[i])
    BY <1>1, <1>5
  <2>2. sg[i].samples \in Seq(Sample) /\ sg[i].scale \in Nat \ {0} /\ sg[i].kind \in {"vide", "soun"}
    BY <1>2, <2>1 DEF IsSegment
  <2>3. frags[i].kind = sg[i].kind
    BY <2>1 DEF Converted
  <2> HIDE DEF Sample
  <2>4. n \in Nat /\ DOMAIN sg[i].samples = 1 .. n /\ \A k \in 1 .. n : sg[i].samples[k] \in Sample
    BY <2>2
  <2>5. \A k \in 1 .. n : sg[i].samples[k].dts \in Nat /\ sg[i].samples[k].cto \in Nat
    BY <2>4 DEF Sample
  <2> HIDE DEF n
  <2> DEFINE s(k) == [dts |-> Clock(sg[i].samples[k].dts, sg[i].scale),
                      pts |-> Clock(sg[i].samples[k].dts, sg[i].scale)
                              + Clock(sg[i].samples[k].cto, sg[i].scale),
                      size |-> sg[i].samples[k].size, ok |-> sg[i].samples[k].ok]
  <2>6. frags[i].samples = [k \in 1 .. n |-> s(k)]
    BY <2>1, <2>4 DEF Converted
  <2>7. \A k \in 1 .. n : s(k).dts \in Nat /\ s(k).pts \in Nat
    <3> TAKE k \in 1 .. n
    <3>1. Clock(sg[i].samples[k].dts, sg[i].scale) \in Nat /\ Clock(sg[i].samples[k].cto, sg[i].scale) \in Nat
      BY <2>2, <2>5, ClockNat
    <3> QED BY <3>1
  <2> HIDE DEF s
  <2>8. Len(frags[i].samples) = n
    BY <2>4, <2>6
  <2> QED BY <2>2, <2>3, <2>6, <2>7, <2>8
<1> QED BY <1>3, <1>4, <1>5 DEF TimesTyped

LEMMA BaseInit == Init => Base
<1> SUFFICES ASSUME Init PROVE Chosen /\ Copying /\ Typed /\ Hands
  BY IInvInit, TimesTypedInit DEF Base
<1>1. streams = [i \in DOMAIN frags |-> mpegts_stream_init] /\ first = [i \in DOMAIN frags |-> 1]
      /\ pc = "pick" /\ out = <<>> /\ pes = NoPes /\ next_pat = NOPTS_VALUE
  BY DEF Init
<1>2. Chosen /\ Copying
  BY <1>1 DEF Chosen, Copying, Writes
<1>3. <<>> \in Seq(Piece) /\ <<>> \in Seq(Unit)
  BY EmptySeq
<1>4. Typed
  <2>1. DOMAIN out = {}
    BY <1>1
  <2>2. /\ mpegts_stream_init.pieces = <<>> /\ mpegts_stream_init.dts = -1
        /\ mpegts_stream_init.pts = -1
        /\ NoPes.pieces = <<>> /\ NoPes.dts = -1 /\ NoPes.pts = -1
    BY DEF mpegts_stream_init, NoPes, NOPTS_VALUE
  <2> HIDE DEF mpegts_stream_init, NoPes
  <2>3. -1 \in Time /\ next_pat \in Int
    BY <1>1 DEF NOPTS_VALUE, Time
  <2> QED BY <1>1, <1>3, <2>1, <2>2, <2>3 DEF Typed
<1>5. Hands
  BY <1>1 DEF Hands, mpegts_stream_init, Writes
<1> QED BY <1>2, <1>4, <1>5

-----------------------------------------------------------------------------
(* What the actions do to the payloads, the bucket and pes                 *)

LEMMA AtHand ==
  ASSUME Base, pc \notin {"pick", "done"}
  PROVE  /\ order \in DOMAIN frags /\ order # 0
         /\ first[order] \in 1 .. Len(frags[order].samples)
         /\ Len(frags[order].samples) \in Nat
         /\ Head1(order) = frags[order].samples[first[order]]
         /\ Head1(order).size \in Nat \ {0}
         /\ Head1(order).dts \in Nat /\ Head1(order).pts \in Nat
<1>1. order \in DOMAIN frags /\ Left(order) /\ first[order] \in 1 .. Len(frags[order].samples) + 1
  BY DEF Base, IInv, Turns
<1>2. Len(frags[order].samples) \in Nat
  BY <1>1 DEF Base, IInv, FragsTyped
<1>3. first[order] \in 1 .. Len(frags[order].samples)
  BY <1>1, <1>2 DEF Left
<1> QED BY <1>1, <1>2, <1>3 DEF Base, IInv, FragsTyped, TimesTyped, Head1

\* A table has no stream, and is a unit like any other.
LEMMA TablesUnit == Tables \in Unit /\ Tables.stream = 0 /\ Tables.dts \in Time
<1>1. <<>> \in Seq(Piece)
  BY EmptySeq
<1> QED BY <1>1 DEF Tables, Unit, Time

LEMMA BucketGrows ==
  ASSUME out \in Seq(Unit), NEW u \in Unit, out' = Append(out, u)
  PROVE  /\ out' \in Seq(Unit)
         /\ Len(out) \in Nat /\ Len(out') = Len(out) + 1
         /\ DOMAIN out = 1 .. Len(out) /\ DOMAIN out' = 1 .. Len(out) + 1
         /\ \A k \in 1 .. Len(out) : out'[k] = out[k]
         /\ out'[Len(out) + 1] = u
<1>1. out' \in Seq(Unit) /\ Len(out') = Len(out) + 1
  BY AppendProperties
<1>2. DOMAIN out' = 1 .. Len(out') /\ DOMAIN out = 1 .. Len(out) /\ Len(out) \in Nat
  BY <1>1, LenProperties
<1> QED BY <1>1, <1>2, AppendProperties

\* write_packet writes tables at most, and puts all into pes.
LEMMA Entering ==
  ASSUME Typed, NEW i, NEW dts \in Time, NEW pts \in Time, NEW size,
         NEW pieces \in Seq(Piece), NEW after,
         write_packet(i, dts, pts, size, pieces, after)
  PROVE  /\ pc' = "packets" /\ back' = after
         /\ pes'.stream = i /\ pes'.pieces = pieces
         /\ pes'.dts = Delayed(dts) /\ pes'.pts = Delayed(pts)
         /\ Delayed(dts) \in Time /\ Delayed(pts) \in Time
         /\ \/ ~ TablesDue(Delayed(dts)) /\ out' = out /\ next_pat' = next_pat
            \/ /\ TablesDue(Delayed(dts)) /\ out' = Append(out, Tables)
               /\ next_pat' = Delayed(dts) + PAT_DELTA
         /\ out' \in Seq(Unit) /\ next_pat' \in Int
<1>1. Delayed(dts) \in Time /\ Delayed(pts) \in Time
  BY DEF Delayed, max_delay, Time, NOPTS_VALUE
<1>2. /\ pc' = "packets" /\ back' = after
      /\ pes'.stream = i /\ pes'.pieces = pieces
      /\ pes'.dts = Delayed(dts) /\ pes'.pts = Delayed(pts)
  BY DEF write_packet
<1>3. \/ ~ TablesDue(Delayed(dts)) /\ out' = out /\ next_pat' = next_pat
      \/ /\ TablesDue(Delayed(dts)) /\ out' = Append(out, Tables)
         /\ next_pat' = Delayed(dts) + PAT_DELTA
  BY DEF write_packet, write_tables, BucketInsert
<1>4. out' \in Seq(Unit)
  BY <1>3, TablesUnit, AppendProperties, SMTT(60) DEF Typed
<1>5. next_pat' \in Int
  BY <1>1, <1>3 DEF Typed, PAT_DELTA, Time, NOPTS_VALUE
<1> QED BY <1>1, <1>2, <1>3, <1>4, <1>5

LEMMA StreamFields ==
  ASSUME Base, NEW i \in DOMAIN frags
  PROVE  /\ DOMAIN streams[i] = {"cc", "packets", "index", "dts", "pts", "pieces"}
         /\ streams[i].index \in Nat
         /\ streams[i].pieces \in Seq(Piece) /\ streams[i].dts \in Time /\ streams[i].pts \in Time
BY DEF Base, IInv, Payloads, IsStream, Typed

LEMMA FieldsStartAudio ==
  ASSUME Base, StartAudio
  PROVE  \A j \in DOMAIN frags :
           /\ streams'[j].index = streams[j].index /\ streams'[j].pieces = streams[j].pieces
           /\ j # order => streams'[j].dts = streams[j].dts /\ streams'[j].pts = streams[j].pts
           /\ j = order =>
                IF streams[j].dts = NOPTS_VALUE
                THEN streams'[j].dts = Head1(order).dts /\ streams'[j].pts = Head1(order).pts
                ELSE streams'[j].dts = streams[j].dts /\ streams'[j].pts = streams[j].pts
<1> TAKE j \in DOMAIN frags
<1> DEFINE st == Stamp(streams[order], Head1(order))
<1>1. pc = "sample" /\ streams' = [streams EXCEPT ![order] = st]
  BY DEF StartAudio
<1>2. order \in DOMAIN frags
  BY <1>1, AtHand
<1>3. streams' = [k \in DOMAIN frags |-> IF k = order THEN st ELSE streams[k]]
  BY <1>1 DEF Base, IInv, Payloads
<1>4. st = IF streams[order].dts = NOPTS_VALUE
           THEN [streams[order] EXCEPT !.dts = Head1(order).dts, !.pts = Head1(order).pts]
           ELSE streams[order]
  BY DEF Stamp
<1>5. DOMAIN streams[order] = {"cc", "packets", "index", "dts", "pts", "pieces"}
  BY <1>2, StreamFields
<1> HIDE DEF st
<1> QED BY <1>2, <1>3, <1>4, <1>5

\* The piece that Copy appends.
NewPiece == [sample |-> first[order], from |-> Done1,
             to |-> Done1 + Fitting(streams[order].index)]

LEMMA FieldsCopy ==
  ASSUME Base, Copy
  PROVE  /\ \A j \in DOMAIN frags \ {order} : streams'[j] = streams[j]
         /\ streams'[order].index = streams[order].index + Fitting(streams[order].index)
         /\ streams'[order].pieces = Append(streams[order].pieces, NewPiece)
         /\ streams'[order].dts = streams[order].dts /\ streams'[order].pts = streams[order].pts
         /\ rest' = rest - Fitting(streams[order].index)
         /\ UNCHANGED <<frags, first, order, stage>>
         /\ \/ Flush(order, streams'[order], "copy")
            \/ UNCHANGED <<out, pes, next_pat, back, pc>>
         /\ pc = "copy"
<1> DEFINE old  == streams[order]
           size == Fitting(old.index)
           new  == [old EXCEPT !.index = @ + size,
                               !.pieces = Append(@, [sample |-> first[order], from |-> Done1,
                                                     to |-> Done1 + size])]
<1>1. /\ pc = "copy" /\ streams' = [streams EXCEPT ![order] = new] /\ rest' = rest - size
      /\ UNCHANGED <<frags, first, order, stage>>
      /\ IF Full(new) THEN Flush(order, new, "copy") ELSE Go("copy")
  BY DEF Copy
<1>2. order \in DOMAIN frags
  BY <1>1, AtHand
<1>3. streams' = [k \in DOMAIN frags |-> IF k = order THEN new ELSE streams[k]]
  BY <1>1 DEF Base, IInv, Payloads
<1>4. DOMAIN old = {"cc", "packets", "index", "dts", "pts", "pieces"}
  BY <1>2, StreamFields
<1>5. /\ new.index = old.index + size /\ new.dts = old.dts /\ new.pts = old.pts
      /\ new.pieces = Append(old.pieces, NewPiece)
  BY <1>4 DEF NewPiece
<1>6. streams'[order] = new /\ \A j \in DOMAIN frags \ {order} : streams'[j] = streams[j]
  BY <1>2, <1>3
<1> HIDE DEF new
<1> QED BY <1>1, <1>5, <1>6 DEF Go

LEMMA FieldsWritePacket ==
  ASSUME Base, WritePacket
  PROVE  /\ \A j \in DOMAIN frags :
              /\ streams'[j].index = streams[j].index /\ streams'[j].pieces = streams[j].pieces
              /\ streams'[j].dts = streams[j].dts /\ streams'[j].pts = streams[j].pts
         /\ pes'.stream = pes.stream /\ pes'.pieces = pes.pieces
         /\ pes'.dts = pes.dts /\ pes'.pts = pes.pts
<1> DEFINE s  == pes.stream
           st == [streams[s] EXCEPT !.cc = (@ + 1) % 16, !.packets = @ + 1]
<1>1. /\ pc = "packets"
      /\ streams' = [streams EXCEPT ![s].cc = (@ + 1) % 16, ![s].packets = @ + 1]
      /\ pes' = [pes EXCEPT !.left = pes'.left, !.written = pes'.written]
  BY DEF WritePacket, Base, IInv, Room, IsPes
<1>2. s \in DOMAIN frags /\ IsPes(pes)
  BY <1>1 DEF Base, IInv, Room
<1>3. streams' = [j \in DOMAIN frags |-> IF j = s THEN st ELSE streams[j]]
  BY <1>1, <1>2 DEF Base, IInv, Payloads
<1>4. DOMAIN streams[s] = {"cc", "packets", "index", "dts", "pts", "pieces"}
  BY <1>2, StreamFields
<1>5. st.index = streams[s].index /\ st.pieces = streams[s].pieces
      /\ st.dts = streams[s].dts /\ st.pts = streams[s].pts
  BY <1>4
<1> HIDE DEF st
<1>6. pes'.stream = pes.stream /\ pes'.pieces = pes.pieces
      /\ pes'.dts = pes.dts /\ pes'.pts = pes.pts
  BY <1>1, <1>2 DEF IsPes
<1> QED BY <1>3, <1>5, <1>6

LEMMA FieldsPacketWritten ==
  ASSUME Base, PacketWritten
  PROVE  /\ pc = "packets" /\ pes.stream \in DOMAIN frags /\ pes.stream # 0
         /\ \A j \in DOMAIN frags :
              IF Audio(j) /\ j = pes.stream
              THEN /\ streams'[j].index = 0 /\ streams'[j].pieces = <<>>
                   /\ streams'[j].dts = NOPTS_VALUE /\ streams'[j].pts = NOPTS_VALUE
              ELSE streams'[j] = streams[j]
         /\ \E u \in Unit : /\ out' = Append(out, u)
                            /\ u.stream = pes.stream /\ u.pieces = pes.pieces
                            /\ u.dts = pes.dts /\ u.pts = pes.pts
         /\ pes' = NoPes /\ pc' = back
         /\ UNCHANGED <<frags, first, order, rest, stage, next_pat, back>>
<1> DEFINE s  == pes.stream
           st == [streams[s] EXCEPT !.index = 0, !.dts = NOPTS_VALUE, !.pts = NOPTS_VALUE,
                                    !.pieces = <<>>]
           u  == [stream |-> pes.stream, dts |-> pes.dts, pts |-> pes.pts,
                  pieces |-> pes.pieces, packets |-> pes.reserved]
<1>1. /\ pc = "packets" /\ s \in DOMAIN frags /\ IsPes(pes)
      /\ ~ Audio(s) => streams' = streams
      /\ Audio(s) =>
           streams' = [streams EXCEPT ![s].index = 0, ![s].dts = NOPTS_VALUE,
                                      ![s].pts = NOPTS_VALUE, ![s].pieces = <<>>]
      /\ out' = Append(out, u)
      /\ pes' = NoPes /\ pc' = back
      /\ UNCHANGED <<frags, first, order, rest, stage, next_pat, back>>
  BY DEF PacketWritten, Base, IInv, Room, BucketInsert
<1>2. s \in Nat \ {0}
  BY <1>1 DEF Base, TimesTyped
<1>3. u \in Unit
  BY <1>1, <1>2 DEF Base, Typed, IsPes, Unit
<1>4. ASSUME Audio(s)
      PROVE  \A j \in DOMAIN frags :
               IF j = s THEN /\ streams'[j].index = 0 /\ streams'[j].pieces = <<>>
                             /\ streams'[j].dts = NOPTS_VALUE /\ streams'[j].pts = NOPTS_VALUE
                        ELSE streams'[j] = streams[j]
  <2>1. streams' = [j \in DOMAIN frags |-> IF j = s THEN st ELSE streams[j]]
    BY <1>1, <1>4 DEF Base, IInv, Payloads
  <2>2. DOMAIN streams[s] = {"cc", "packets", "index", "dts", "pts", "pieces"}
    BY <1>1, StreamFields
  <2>3. st.index = 0 /\ st.pieces = <<>> /\ st.dts = NOPTS_VALUE /\ st.pts = NOPTS_VALUE
    BY <2>2
  <2> HIDE DEF st
  <2> QED BY <1>1, <2>1, <2>3
<1>5. \E v \in Unit : /\ out' = Append(out, v)
                      /\ v.stream = pes.stream /\ v.pieces = pes.pieces
                      /\ v.dts = pes.dts /\ v.pts = pes.pts
  BY <1>1, <1>3
<1> HIDE DEF u
<1> QED BY <1>1, <1>2, <1>4, <1>5

-----------------------------------------------------------------------------
(* Base is inductive                                                       *)

LEMMA BaseKeeps ==
  ASSUME Base, [Next]_vars
  PROVE  IInv' /\ TimesTyped' /\ frags' = frags
<1>1. Turns' /\ frags' = frags
  BY TurnsNext DEF Base, IInv
<1>2. IInv'
  BY <1>1, PayloadsNext, RoomNext DEF Base, IInv, FragsTyped
<1> QED BY <1>1, <1>2 DEF Base, TimesTyped

\* Between Pick and Advance neither the turns nor the samples at hand change.
LEMMA SameTurn ==
  ASSUME [Next]_vars
  PROVE  \/ \E i \in DOMAIN frags : Pick(i)
         \/ Advance \/ Finish
         \/ UNCHANGED <<frags, first, order>>
BY DEF Next, vars, StartAudio, Copy, CopyData, AudioCopied, WriteVideo, WritePacket, PacketWritten

LEMMA ChosenNext ==
  ASSUME Base, [Next]_vars
  PROVE  Chosen'
<1>1. ASSUME NEW i \in DOMAIN frags, Pick(i) PROVE Chosen'
  <2>1. UNCHANGED <<frags, first>> /\ order' = i /\ Due(i) /\ TimesTyped /\ FragsTyped /\ Turns
    BY <1>1 DEF Pick, Base, IInv
  <2>2. \A j \in DOMAIN frags : Left(j) => Head1(j).dts \in Nat
    BY <2>1 DEF TimesTyped, Left, Head1, FragsTyped, Turns
  <2>3. \A j \in DOMAIN frags : Left(j) => Head1(i).dts <= Head1(j).dts
    BY <2>1, <2>2 DEF Due, TimesTyped
  <2> QED BY <2>1, <2>3 DEF Chosen, Left, Head1
<1>2. CASE Advance \/ Finish
  BY <1>2 DEF Advance, Finish, Go, Chosen
<1>3. CASE UNCHANGED <<frags, first, order>> /\ pc \notin {"pick", "done"}
  BY <1>3 DEF Base, Chosen, Left, Head1
<1>4. CASE pc \in {"pick", "done"} /\ ~ (\E i \in DOMAIN frags : Pick(i)) /\ ~ (Advance \/ Finish)
  <2>1. UNCHANGED vars
    BY <1>4 DEF Next, StartAudio, Copy, CopyData, AudioCopied, WriteVideo, WritePacket,
                PacketWritten
  <2> QED BY <1>4, <2>1 DEF vars, Chosen
<1> QED BY <1>1, <1>2, <1>3, <1>4, SameTurn

LEMMA FittingSome ==
  ASSUME NEW index \in 0 .. MAX_PES_PAYLOAD_SIZE, index # MAX_PES_PAYLOAD_SIZE,
         rest \in Nat, rest > 0
  PROVE  Fitting(index) > 0
BY DEF Fitting, MAX_PES_PAYLOAD_SIZE

\* What Copy copies: something, and not more than there is.
LEMMA CopySize ==
  ASSUME Base, Copy
  PROVE  /\ Fitting(streams[order].index) \in 1 .. rest /\ rest \in Nat
         /\ Done1 \in Nat /\ Done1' = Done1 + Fitting(streams[order].index)
         /\ Done1' \in Nat \ {0}
<1>1. pc = "copy" /\ rest > 0 /\ rest \in Nat
  BY DEF Copy, Base, IInv, Turns
<1>2. order \in DOMAIN frags /\ Head1(order).size \in Nat
  BY <1>1, AtHand
<1>3. streams[order].index \in 0 .. MAX_PES_PAYLOAD_SIZE
      /\ streams[order].index # MAX_PES_PAYLOAD_SIZE
  BY <1>1, <1>2 DEF Base, IInv, Payloads, IsStream
<1>4. Fitting(streams[order].index) \in 0 .. rest
  BY <1>1, <1>3, FittingFits
<1>5. Fitting(streams[order].index) > 0
  BY <1>1, <1>3, FittingSome
<1>6. rest <= (IF stage = "header" THEN AdtsSize ELSE Head1(order).size)
  BY <1>1 DEF Base, Copying
<1>7. /\ rest' = rest - Fitting(streams[order].index)
      /\ UNCHANGED <<frags, first, order, stage>>
  BY FieldsCopy
<1>8. Head1(order)' = Head1(order)
  BY <1>7 DEF Head1
<1> QED BY <1>1, <1>2, <1>4, <1>5, <1>6, <1>7, <1>8 DEF Done1, AdtsSize

LEMMA CopyingNext ==
  ASSUME Base, [Next]_vars
  PROVE  Copying'
<1>1. CASE StartAudio
  BY <1>1 DEF StartAudio, Go, Copying, Writes, AdtsSize
<1>2. CASE Copy
  <2>1. /\ rest' = rest - Fitting(streams[order].index) /\ pc = "copy"
        /\ UNCHANGED <<frags, first, order, stage>>
    BY <1>2, FieldsCopy
  <2>2. rest <= IF stage = "header" THEN AdtsSize ELSE Head1(order).size
    BY <2>1 DEF Base, Copying
  <2>3. Head1(order)' = Head1(order) /\ Head1(order).size \in Nat
    BY <2>1, AtHand DEF Head1
  <2>4. rest' <= IF stage' = "header" THEN AdtsSize ELSE (Head1(order)').size
    BY <1>2, <2>1, <2>2, <2>3, CopySize DEF AdtsSize
  <2>5. Done1' > 0
    BY <1>2, CopySize
  <2> QED BY <2>1, <2>3, <2>4, <2>5 DEF Copying, Head1
<1>3. CASE CopyData
  <2>1. order \in DOMAIN frags /\ Head1(order).size \in Nat
    BY <1>3, AtHand DEF CopyData
  <2> QED BY <1>3, <2>1 DEF CopyData, Copying, Writes, Head1
<1>4. CASE AudioCopied
  <2>1. pc' = "advance" \/ (pc' = "packets" /\ back' = "advance")
    BY <1>4, Enters DEF AudioCopied, Flush, Go
  <2> QED BY <2>1 DEF Copying, Writes
<1>5. CASE WriteVideo
  <2>1. pc' = "advance" \/ (pc' = "packets" /\ back' = "advance")
    BY <1>5, Enters DEF WriteVideo, Go
  <2> QED BY <2>1 DEF Copying, Writes
<1>6. ASSUME NEW i \in DOMAIN frags, Pick(i) PROVE Copying'
  <2>1. pc' = "sample" \/ (pc' = "packets" /\ back' = "sample")
    BY <1>6, Enters DEF Pick, Flush, Go
  <2> QED BY <2>1 DEF Copying, Writes
<1>7. CASE WritePacket \/ UNCHANGED vars
  BY <1>7 DEF WritePacket, vars, Base, Copying, Writes, Head1, Done1
<1>8. CASE PacketWritten
  BY <1>8 DEF PacketWritten, Base, Copying, Writes, Head1, Done1, IInv, Turns
<1>9. CASE Advance \/ Finish
  BY <1>9 DEF Advance, Finish, Go, Copying, Writes
<1> QED BY <1>1, <1>2, <1>3, <1>4, <1>5, <1>6, <1>7, <1>8, <1>9 DEF Next

\* What the bucket and pes are like after a step that enters write_packet.
LEMMA TypedEntering ==
  ASSUME Base, frags' = frags, NEW i, NEW dts \in Time, NEW pts \in Time, NEW size,
         NEW pieces \in Seq(Piece), NEW after,
         write_packet(i, dts, pts, size, pieces, after),
         \A j \in DOMAIN frags :
           streams'[j].pieces \in Seq(Piece) /\ streams'[j].dts \in Time /\ streams'[j].pts \in Time
  PROVE  Typed'
<1>1. Typed
  BY DEF Base
<1>2. /\ out' \in Seq(Unit) /\ next_pat' \in Int
      /\ pes'.pieces \in Seq(Piece) /\ pes'.dts \in Time /\ pes'.pts \in Time
      /\ out' = out \/ out' = Append(out, Tables)
  BY <1>1, Entering
<1>3. \A k \in DOMAIN out' : /\ out'[k].stream \in {0} \cup DOMAIN frags
                             /\ out'[k].stream # 0 => out'[k].pieces # <<>>
  <2>1. CASE out' = out
    BY <1>1, <2>1 DEF Typed
  <2>2. CASE out' = Append(out, Tables)
    <3>1. /\ DOMAIN out = 1 .. Len(out) /\ DOMAIN out' = 1 .. Len(out) + 1 /\ Len(out) \in Nat
          /\ \A k \in 1 .. Len(out) : out'[k] = out[k]
          /\ out'[Len(out) + 1] = Tables
      BY <1>1, <2>2, TablesUnit, BucketGrows DEF Typed
    <3>2. \A k \in DOMAIN out' : k \in 1 .. Len(out) \/ k = Len(out) + 1
      BY <3>1
    <3> QED BY <1>1, <3>1, <3>2, TablesUnit DEF Typed
  <2> QED BY <1>2, <2>1, <2>2
<1> QED BY <1>2, <1>3 DEF Typed

LEMMA TypedNext ==
  ASSUME Base, [Next]_vars
  PROVE  Typed'
<1>0. frags' = frags /\ Typed
  BY BaseKeeps DEF Base
<1>1. ASSUME NEW i \in DOMAIN frags, Pick(i) PROVE Typed'
  <2>1. streams' = streams
    BY <1>1 DEF Pick
  <2>2. CASE FlushNow(i)
    <3>1. order \in DOMAIN frags
      BY <2>2 DEF FlushNow, Base, IInv, Turns
    <3>2. write_packet(order, streams[order].dts, streams[order].pts, streams[order].index,
                       streams[order].pieces, "sample")
      BY <1>1, <2>2 DEF Pick, Flush
    <3> QED BY <1>0, <2>1, <3>1, <3>2, TypedEntering DEF Typed
  <2>3. CASE ~ FlushNow(i)
    BY <1>0, <1>1, <2>1, <2>3 DEF Pick, Go, Typed
  <2> QED BY <2>2, <2>3
<1>2. CASE StartAudio
  <2>1. UNCHANGED <<out, next_pat, pes>> /\ pc = "sample"
    BY <1>2 DEF StartAudio, Go
  <2>2. order \in DOMAIN frags /\ Head1(order).dts \in Nat /\ Head1(order).pts \in Nat
    BY <2>1, AtHand
  <2>3. \A j \in DOMAIN frags :
          streams'[j].pieces \in Seq(Piece) /\ streams'[j].dts \in Time /\ streams'[j].pts \in Time
    BY <1>0, <1>2, <2>2, FieldsStartAudio, SMTT(60) DEF Typed, Time
  <2> QED BY <1>0, <2>1, <2>3 DEF Typed
<1>3. CASE Copy
  <2>1. order \in DOMAIN frags /\ first[order] \in Nat
    BY <1>3, AtHand DEF Copy
  <2>2. NewPiece \in Piece
    BY <1>3, <2>1, CopySize DEF NewPiece, Piece
  <2>3. streams[order].pieces \in Seq(Piece)
    BY <1>0, <2>1 DEF Typed
  <2>4. Append(streams[order].pieces, NewPiece) \in Seq(Piece)
    BY <2>2, <2>3, AppendProperties
  <2>5. \A j \in DOMAIN frags :
          streams'[j].pieces \in Seq(Piece) /\ streams'[j].dts \in Time /\ streams'[j].pts \in Time
    BY <1>0, <1>3, <2>1, <2>4, FieldsCopy DEF Typed
  <2>6. CASE Flush(order, streams'[order], "copy")
    <3>1. write_packet(order, streams'[order].dts, streams'[order].pts, streams'[order].index,
                       streams'[order].pieces, "copy")
      BY <2>6 DEF Flush
    <3> QED BY <1>0, <2>1, <2>5, <3>1, TypedEntering
  <2>7. CASE UNCHANGED <<out, pes, next_pat, back, pc>>
    BY <1>0, <2>5, <2>7 DEF Typed
  <2> QED BY <1>3, <2>6, <2>7, FieldsCopy
<1>4. CASE AudioCopied
  <2>1. streams' = streams /\ pc = "copy"
    BY <1>4 DEF AudioCopied
  <2>2. order \in DOMAIN frags
    BY <2>1, AtHand
  <2>3. CASE LastSample /\ streams[order].index > 0
    <3>1. write_packet(order, streams[order].dts, streams[order].pts, streams[order].index,
                       streams[order].pieces, "advance")
      BY <1>4, <2>3 DEF AudioCopied, Flush
    <3> QED BY <1>0, <2>1, <2>2, <3>1, TypedEntering DEF Typed
  <2>4. CASE ~ (LastSample /\ streams[order].index > 0)
    BY <1>0, <1>4, <2>1, <2>4 DEF AudioCopied, Go, Typed
  <2> QED BY <2>3, <2>4
<1>5. CASE WriteVideo
  <2> DEFINE s    == Head1(order)
             size == s.size + AudNal
             sets == IF streams[order].packets = 0 THEN ParameterSets ELSE 0
             all  == <<[sample |-> first[order], from |-> 0, to |-> s.size]>>
  <2>1. /\ pc = "sample" /\ streams' = streams
        /\ IF size < 50 \/ ~ s.ok THEN Go("advance")
           ELSE write_packet(order, s.dts, s.pts, size + sets, all, "advance")
    BY <1>5 DEF WriteVideo
  <2>2. /\ order \in DOMAIN frags /\ first[order] \in Nat
        /\ s.size \in Nat /\ s.dts \in Nat /\ s.pts \in Nat
    BY <2>1, AtHand
  <2>3. all \in Seq(Piece)
    BY <2>2 DEF Piece
  <2> HIDE DEF all, sets, s
  <2>4. CASE Go("advance")
    BY <1>0, <2>1, <2>4 DEF Go, Typed
  <2>5. CASE write_packet(order, s.dts, s.pts, size + sets, all, "advance")
    <3>1. s.dts \in Time /\ s.pts \in Time
      BY <2>2 DEF Time
    <3>2. \A j \in DOMAIN frags :
            streams'[j].pieces \in Seq(Piece) /\ streams'[j].dts \in Time /\ streams'[j].pts \in Time
      BY <1>0, <2>1 DEF Typed
    <3> HIDE DEF size
    <3> QED BY <1>0, <2>3, <2>5, <3>1, <3>2, TypedEntering
  <2> QED BY <2>1, <2>4, <2>5
<1>6. CASE CopyData \/ Advance \/ Finish \/ UNCHANGED vars
  BY <1>0, <1>6 DEF CopyData, Advance, Finish, vars, Go, Typed
<1>7. CASE WritePacket
  <2>1. out' = out /\ next_pat' = next_pat
    BY <1>7 DEF WritePacket
  <2> QED BY <1>0, <1>7, <2>1, FieldsWritePacket DEF Typed
<1>8. CASE PacketWritten
  <2>1. PICK u \in Unit : /\ out' = Append(out, u) /\ u.stream = pes.stream /\ u.pieces = pes.pieces
    BY <1>8, FieldsPacketWritten
  <2>2. /\ DOMAIN out = 1 .. Len(out) /\ DOMAIN out' = 1 .. Len(out) + 1 /\ Len(out) \in Nat
        /\ \A k \in 1 .. Len(out) : out'[k] = out[k]
        /\ out'[Len(out) + 1] = u /\ out' \in Seq(Unit)
    BY <1>0, <2>1, BucketGrows DEF Typed
  <2>3. pes.pieces # <<>> /\ pes.stream \in DOMAIN frags
    BY <1>8, FieldsPacketWritten DEF Base, Hands
  <2>4. \A k \in DOMAIN out' : /\ out'[k].stream \in {0} \cup DOMAIN frags
                               /\ out'[k].stream # 0 => out'[k].pieces # <<>>
    <3>1. \A k \in DOMAIN out' : k \in 1 .. Len(out) \/ k = Len(out) + 1
      BY <2>2
    <3> QED BY <1>0, <2>1, <2>2, <2>3, <3>1 DEF Typed
  <2>5. <<>> \in Seq(Piece) /\ NOPTS_VALUE \in Time
    BY EmptySeq DEF Time
  <2>6. \A j \in DOMAIN frags :
          streams'[j].pieces \in Seq(Piece) /\ streams'[j].dts \in Time /\ streams'[j].pts \in Time
    BY <1>0, <1>8, <2>5, FieldsPacketWritten DEF Typed
  <2>7. pes'.pieces = <<>> /\ pes'.dts = NOPTS_VALUE /\ pes'.pts = NOPTS_VALUE /\ next_pat' = next_pat
    BY <1>8, FieldsPacketWritten DEF NoPes
  <2> QED BY <1>0, <2>2, <2>4, <2>5, <2>6, <2>7 DEF Typed
<1> QED BY <1>1, <1>2, <1>3, <1>4, <1>5, <1>6, <1>7, <1>8 DEF Next

\* A step that leaves all payloads as they are, and enters write_packet or not.
LEMMA HandsStay ==
  ASSUME Base, UNCHANGED <<frags, first, order>>,
         \A j \in DOMAIN frags :
           streams'[j].index = streams[j].index /\ streams'[j].pieces = streams[j].pieces,
         ~ Writes("sample"), ~ Writes("sample")', pc # "advance",
         pc' = "advance" /\ LastSample => streams[order].pieces = <<>>,
         pc' # "packets" => pes' = NoPes,
         pc' = "packets" => /\ pes'.stream = order /\ pes'.pieces # <<>>
                            /\ Audio(order) => pes'.pieces = streams[order].pieces,
         order \in DOMAIN frags
  PROVE  Hands'
<1>1. \A j \in DOMAIN frags : Audio(j)' = Audio(j) /\ Left(j)' = Left(j)
  BY DEF Audio, Left
<1>2. LastSample' = LastSample
  BY DEF LastSample
<1>3. \A j \in DOMAIN frags :
        /\ streams[j].index = 0 <=> streams[j].pieces = <<>>
        /\ ~ Audio(j) => streams[j].pieces = <<>>
        /\ streams[j].pieces # <<>> => j = order
        /\ ~ Left(j) => streams[j].pieces = <<>>
  BY DEF Base, Hands
<1> QED BY <1>1, <1>2, <1>3 DEF Hands, Writes

LEMMA HandsNext ==
  ASSUME Base, [Next]_vars
  PROVE  Hands'
<1>0. frags' = frags /\ Hands /\ Turns
  BY BaseKeeps DEF Base, IInv
<1>1. ASSUME NEW i \in DOMAIN frags, Pick(i) PROVE Hands'
  <2>1. UNCHANGED <<frags, first, streams>> /\ order' = i /\ pc = "pick" /\ pes = NoPes
    BY <1>0, <1>1 DEF Pick, Hands
  <2>2. \A j \in DOMAIN frags : Audio(j)' = Audio(j) /\ Left(j)' = Left(j)
    BY <2>1 DEF Audio, Left
  <2>3. \A j \in DOMAIN frags :
          /\ streams[j].index = 0 <=> streams[j].pieces = <<>>
          /\ ~ Audio(j) => streams[j].pieces = <<>>
          /\ streams[j].pieces # <<>> => j = order
          /\ ~ Left(j) => streams[j].pieces = <<>>
    BY <1>0, <2>1 DEF Hands, Writes
  <2>4. CASE FlushNow(i)
    <3>1. /\ order \in DOMAIN frags /\ order # i /\ Audio(order) /\ streams[order].index > 0
      BY <1>0, <2>4 DEF FlushNow, Turns
    <3>2. write_packet(order, streams[order].dts, streams[order].pts, streams[order].index,
                       streams[order].pieces, "sample")
      BY <1>1, <2>4 DEF Pick, Flush
    <3>3. /\ pc' = "packets" /\ back' = "sample"
          /\ pes'.stream = order /\ pes'.pieces = streams[order].pieces
      BY <3>2 DEF write_packet
    <3>4. streams[order].pieces # <<>>
      BY <2>3, <3>1
    <3> QED BY <2>1, <2>2, <2>3, <3>1, <3>3, <3>4 DEF Hands, Writes
  <2>5. CASE ~ FlushNow(i)
    <3>1. pc' = "sample" /\ pes' = pes
      BY <1>1, <2>5 DEF Pick, Go
    <3>2. \A j \in DOMAIN frags : streams[j].pieces # <<>> => j = i
      <4> SUFFICES ASSUME NEW j \in DOMAIN frags, streams[j].pieces # <<>>, j # i PROVE FALSE
        OBVIOUS
      <4>1. j = order /\ j # 0 /\ Audio(j) /\ streams[j].index # 0
        BY <2>3 DEF Base, TimesTyped
      <4>2. streams[j].index > 0
        BY <4>1, StreamFields
      <4> QED BY <2>5, <4>1, <4>2 DEF FlushNow
    <3> QED BY <2>1, <2>2, <2>3, <3>1, <3>2 DEF Hands, Writes
  <2> QED BY <2>4, <2>5
<1>2. CASE StartAudio
  <2>1. /\ UNCHANGED <<frags, first, order, pes>> /\ pc = "sample" /\ pc' = "copy"
    BY <1>2 DEF StartAudio, Go
  <2>2. pes = NoPes /\ order \in DOMAIN frags
    BY <1>0, <2>1, AtHand DEF Hands
  <2> QED BY <1>2, <2>1, <2>2, FieldsStartAudio, HandsStay DEF Writes
<1>3. CASE Copy
  <2>1. order \in DOMAIN frags /\ order # 0 /\ Audio(order) /\ Left(order) /\ pc = "copy" /\ pes = NoPes
    BY <1>0, <1>3 DEF Copy, Turns, Hands, Base, TimesTyped
  <2>2. /\ streams'[order].index # 0 /\ streams'[order].pieces # <<>>
        /\ \A j \in DOMAIN frags \ {order} : streams'[j] = streams[j]
    <3>1. /\ streams'[order].index = streams[order].index + Fitting(streams[order].index)
          /\ streams'[order].pieces = Append(streams[order].pieces, NewPiece)
          /\ \A j \in DOMAIN frags \ {order} : streams'[j] = streams[j]
      BY <1>3, FieldsCopy
    <3>2. streams'[order].index # 0
      BY <1>3, <2>1, <3>1, CopySize, StreamFields
    <3>3. NewPiece \in Piece
      BY <1>3, <2>1, CopySize, AtHand DEF NewPiece, Piece
    <3>4. Append(streams[order].pieces, NewPiece) # <<>>
      BY <2>1, <3>3, StreamFields, AppendProperties
    <3> QED BY <3>1, <3>2, <3>4
  <2>3. /\ UNCHANGED <<frags, first, order>>
        /\ \/ Flush(order, streams'[order], "copy")
           \/ UNCHANGED <<out, pes, next_pat, back, pc>>
    BY <1>3, FieldsCopy
  <2>4. \A j \in DOMAIN frags : Audio(j)' = Audio(j) /\ Left(j)' = Left(j)
    BY <2>3 DEF Audio, Left
  <2>5. \A j \in DOMAIN frags :
          /\ streams'[j].index = 0 <=> streams'[j].pieces = <<>>
          /\ ~ Audio(j) => streams'[j].pieces = <<>>
          /\ streams'[j].pieces # <<>> => j = order
          /\ ~ Left(j) => streams'[j].pieces = <<>>
    BY <1>0, <2>1, <2>2 DEF Hands, Writes
  <2>6. CASE Flush(order, streams'[order], "copy")
    <3>1. pc' = "packets" /\ back' = "copy" /\ pes'.stream = order /\ pes'.pieces = streams'[order].pieces
      BY <2>6 DEF Flush, write_packet
    <3> QED BY <2>2, <2>3, <2>4, <2>5, <3>1 DEF Hands, Writes
  <2>7. CASE UNCHANGED <<out, pes, next_pat, back, pc>>
    BY <2>1, <2>3, <2>4, <2>5, <2>7 DEF Hands, Writes
  <2> QED BY <2>3, <2>6, <2>7
<1>4. CASE CopyData
  BY <1>0, <1>4, AtHand, HandsStay DEF CopyData, Hands, Writes
<1>5. CASE AudioCopied
  <2>1. UNCHANGED <<frags, first, order, streams>> /\ pc = "copy" /\ pes = NoPes /\ Audio(order)
    BY <1>0, <1>5 DEF AudioCopied, Hands, Turns
  <2>2. order \in DOMAIN frags
    BY <2>1, AtHand
  <2>3. CASE LastSample /\ streams[order].index > 0
    <3>1. write_packet(order, streams[order].dts, streams[order].pts, streams[order].index,
                       streams[order].pieces, "advance")
      BY <1>5, <2>3 DEF AudioCopied, Flush
    <3>2. pc' = "packets" /\ back' = "advance" /\ pes'.stream = order /\ pes'.pieces = streams[order].pieces
      BY <3>1 DEF write_packet
    <3>3. streams[order].pieces # <<>>
      BY <1>0, <2>2, <2>3 DEF Hands
    <3> QED BY <2>1, <2>2, <3>2, <3>3, HandsStay DEF Writes
  <2>4. CASE ~ (LastSample /\ streams[order].index > 0)
    <3>1. pc' = "advance" /\ pes' = pes
      BY <1>5, <2>4 DEF AudioCopied, Go
    <3>2. LastSample => streams[order].index = 0
      BY <2>2, <2>4, StreamFields
    <3>3. LastSample => streams[order].pieces = <<>>
      BY <1>0, <2>2, <3>2 DEF Hands
    <3> QED BY <2>1, <2>2, <3>1, <3>3, HandsStay DEF Writes
  <2> QED BY <2>3, <2>4
<1>6. CASE WriteVideo
  <2> DEFINE s    == Head1(order)
             size == s.size + AudNal
             sets == IF streams[order].packets = 0 THEN ParameterSets ELSE 0
             all  == <<[sample |-> first[order], from |-> 0, to |-> s.size]>>
  <2>1. /\ pc = "sample" /\ UNCHANGED <<frags, first, order, streams>> /\ ~ Audio(order)
        /\ IF size < 50 \/ ~ s.ok THEN Go("advance")
           ELSE write_packet(order, s.dts, s.pts, size + sets, all, "advance")
    BY <1>6 DEF WriteVideo
  <2>2. order \in DOMAIN frags /\ pes = NoPes
    BY <1>0, <2>1, AtHand DEF Hands
  <2>3. all # <<>>
    OBVIOUS
  <2> HIDE DEF all, sets, s
  <2>4. CASE Go("advance")
    <3>1. streams[order].pieces = <<>>
      BY <1>0, <2>1, <2>2 DEF Hands
    <3> QED BY <2>1, <2>2, <2>4, <3>1, HandsStay DEF Go, Writes
  <2>5. CASE write_packet(order, s.dts, s.pts, size + sets, all, "advance")
    <3>1. pc' = "packets" /\ back' = "advance" /\ pes'.stream = order /\ pes'.pieces = all
      BY <2>5 DEF write_packet
    <3> QED BY <2>1, <2>2, <2>3, <3>1, HandsStay DEF Writes
  <2> QED BY <2>1, <2>4, <2>5
<1>7. CASE WritePacket
  <2>1. /\ UNCHANGED <<frags, first, order, pc, back>> /\ pc = "packets"
        /\ \A j \in DOMAIN frags :
             streams'[j].index = streams[j].index /\ streams'[j].pieces = streams[j].pieces
        /\ pes'.stream = pes.stream /\ pes'.pieces = pes.pieces
    BY <1>7, FieldsWritePacket DEF WritePacket
  <2>2. \A j \in DOMAIN frags : Audio(j)' = Audio(j) /\ Left(j)' = Left(j)
    BY <2>1 DEF Audio, Left
  <2>3. pes.stream \in DOMAIN frags
    BY <2>1 DEF Base, IInv, Room
  <2>4. Audio(pes.stream)' = Audio(pes.stream)
    BY <2>1 DEF Audio
  <2> QED BY <1>0, <2>1, <2>2, <2>3, <2>4 DEF Hands, Writes
<1>8. CASE PacketWritten
  <2>1. /\ pc = "packets" /\ pes.stream \in DOMAIN frags
        /\ \A j \in DOMAIN frags :
             IF Audio(j) /\ j = pes.stream
             THEN streams'[j].index = 0 /\ streams'[j].pieces = <<>>
             ELSE streams'[j] = streams[j]
        /\ pes' = NoPes /\ pc' = back
        /\ UNCHANGED <<frags, first, order>>
    BY <1>8, FieldsPacketWritten
  <2>2. \A j \in DOMAIN frags : streams[j].pieces # <<>> => Audio(j) /\ j = pes.stream
    BY <1>0, <2>1 DEF Hands, Writes
  <2>3. \A j \in DOMAIN frags : streams'[j].index = 0 /\ streams'[j].pieces = <<>>
    BY <1>0, <2>1, <2>2 DEF Hands
  <2>4. order \in DOMAIN frags /\ pc' # "packets"
    BY <1>0, <2>1, AtHand DEF Turns
  <2> QED BY <2>1, <2>3, <2>4 DEF Hands
<1>9. CASE Advance
  <2>1. /\ UNCHANGED <<frags, order, streams, pes>> /\ pc = "advance" /\ pc' = "pick"
        /\ first' = [first EXCEPT ![order] = @ + 1]
    BY <1>9 DEF Advance, Go
  <2>2. /\ order \in DOMAIN frags /\ first[order] \in 1 .. Len(frags[order].samples)
        /\ Len(frags[order].samples) \in Nat
    BY <2>1, AtHand
  <2>3. \A j \in DOMAIN frags : first'[j] = IF j = order THEN first[order] + 1 ELSE first[j]
    BY <1>0, <2>1 DEF Turns
  <2>4. \A j \in DOMAIN frags : Audio(j)' = Audio(j)
    BY <2>1 DEF Audio
  <2>5. \A j \in DOMAIN frags : ~ Left(j)' => streams[j].pieces = <<>>
    <3> SUFFICES ASSUME NEW j \in DOMAIN frags, ~ Left(j)' PROVE streams[j].pieces = <<>>
      OBVIOUS
    <3>1. CASE j = order
      <4>1. first[order] = Len(frags[order].samples)
        BY <2>1, <2>2, <2>3, <3>1 DEF Left
      <4> QED BY <1>0, <2>1, <3>1, <4>1 DEF Hands, LastSample
    <3>2. CASE j # order
      BY <1>0, <2>1, <2>3, <3>2 DEF Hands, Left
    <3> QED BY <3>1, <3>2
  <2> QED BY <1>0, <2>1, <2>4, <2>5 DEF Hands, Writes
<1>10. CASE Finish
  <2>1. UNCHANGED <<frags, first, order, streams, pes>> /\ pc = "pick" /\ pc' = "done"
    BY <1>10 DEF Finish, Go
  <2>2. \A j \in DOMAIN frags : Audio(j)' = Audio(j) /\ Left(j)' = Left(j)
    BY <2>1 DEF Audio, Left
  <2> QED BY <1>0, <2>1, <2>2 DEF Hands, Writes
<1>11. CASE UNCHANGED vars
  <2>1. UNCHANGED <<frags, first, order, streams, pes, pc, back>>
    BY <1>11 DEF vars
  <2> QED BY <1>0, <2>1 DEF Hands, Writes, Audio, Left, LastSample
<1> QED BY <1>1, <1>2, <1>3, <1>4, <1>5, <1>6, <1>7, <1>8, <1>9, <1>10, <1>11 DEF Next

LEMMA BaseNext ==
  ASSUME Base, [Next]_vars
  PROVE  Base'
BY BaseKeeps, ChosenNext, CopyingNext, TypedNext, HandsNext DEF Base

LEMMA BaseAlways == Spec => []Base
<1>1. Base /\ [Next]_vars => Base'
  BY BaseNext
<1> QED BY <1>1, BaseInit, PTL DEF Spec

-----------------------------------------------------------------------------
(* Tables                                                                  *)

\* What a step does to the bucket: nothing; it enters write_packet, which may
\* be preceded by tables; or it leaves write_packet with what was written.
Rests ==
  /\ UNCHANGED <<out, next_pat>> /\ (pc' = "packets" <=> pc = "packets")
  /\ pes'.stream = pes.stream /\ pes'.pieces = pes.pieces
  /\ pes'.dts = pes.dts /\ pes'.pts = pes.pts
Begins ==
  /\ pc # "packets" /\ pc' = "packets" /\ pes'.dts \in Time
  /\ \/ ~ TablesDue(pes'.dts) /\ out' = out /\ next_pat' = next_pat
     \/ /\ TablesDue(pes'.dts) /\ out' = Append(out, Tables)
        /\ next_pat' = pes'.dts + PAT_DELTA
Sends ==
  /\ pc = "packets" /\ pc' # "packets" /\ next_pat' = next_pat
  /\ \E u \in Unit : /\ out' = Append(out, u)
                     /\ u.stream = pes.stream /\ u.pieces = pes.pieces
                     /\ u.dts = pes.dts /\ u.pts = pes.pts

LEMMA WritePacketBegins ==
  ASSUME Typed, pc # "packets", NEW i, NEW dts \in Time, NEW pts \in Time, NEW size,
         NEW pieces \in Seq(Piece), NEW after,
         write_packet(i, dts, pts, size, pieces, after)
  PROVE  Begins
BY Entering DEF Begins

LEMMA BucketSteps ==
  ASSUME Base, [Next]_vars
  PROVE  Rests \/ Begins \/ Sends
<1>0. Typed /\ Turns
  BY DEF Base, IInv
<1>1. ASSUME NEW i \in DOMAIN frags, Pick(i) PROVE Rests \/ Begins
  <2>1. CASE FlushNow(i)
    <3>1. order \in DOMAIN frags
      BY <1>0, <2>1 DEF FlushNow, Turns
    <3>2. write_packet(order, streams[order].dts, streams[order].pts, streams[order].index,
                       streams[order].pieces, "sample") /\ pc = "pick"
      BY <1>1, <2>1 DEF Pick, Flush
    <3> QED BY <1>0, <3>1, <3>2, StreamFields, WritePacketBegins
  <2>2. CASE ~ FlushNow(i)
    BY <1>1, <2>2 DEF Pick, Go, Rests
  <2> QED BY <2>1, <2>2
<1>2. CASE StartAudio \/ CopyData \/ Advance \/ Finish \/ UNCHANGED vars
  BY <1>2 DEF StartAudio, CopyData, Advance, Finish, vars, Go, Rests
<1>3. CASE Copy
  <2>1. order \in DOMAIN frags /\ pc = "copy"
    BY <1>3, AtHand DEF Copy
  <2>2. CASE Flush(order, streams'[order], "copy")
    <3>1. write_packet(order, streams'[order].dts, streams'[order].pts, streams'[order].index,
                       streams'[order].pieces, "copy")
      BY <2>2 DEF Flush
    <3>2. /\ streams'[order].pieces \in Seq(Piece)
          /\ streams'[order].dts \in Time /\ streams'[order].pts \in Time
      BY <2>1, BaseKeeps, TypedNext DEF Typed
    <3> QED BY <1>0, <2>1, <3>1, <3>2, WritePacketBegins
  <2>3. CASE UNCHANGED <<out, pes, next_pat, back, pc>>
    BY <2>3 DEF Rests
  <2> QED BY <1>3, <2>2, <2>3, FieldsCopy
<1>4. CASE AudioCopied
  <2>1. order \in DOMAIN frags /\ pc = "copy"
    BY <1>4, AtHand DEF AudioCopied
  <2>2. CASE LastSample /\ streams[order].index > 0
    <3>1. write_packet(order, streams[order].dts, streams[order].pts, streams[order].index,
                       streams[order].pieces, "advance")
      BY <1>4, <2>2 DEF AudioCopied, Flush
    <3> QED BY <1>0, <2>1, <3>1, StreamFields, WritePacketBegins
  <2>3. CASE ~ (LastSample /\ streams[order].index > 0)
    BY <1>4, <2>1, <2>3 DEF AudioCopied, Go, Rests
  <2> QED BY <2>2, <2>3
<1>5. CASE WriteVideo
  <2> DEFINE s    == Head1(order)
             size == s.size + AudNal
             sets == IF streams[order].packets = 0 THEN ParameterSets ELSE 0
             all  == <<[sample |-> first[order], from |-> 0, to |-> s.size]>>
  <2>1. /\ pc = "sample"
        /\ \/ Go("advance")
           \/ write_packet(order, s.dts, s.pts, size + sets, all, "advance")
    BY <1>5 DEF WriteVideo
  <2>2. first[order] \in Nat /\ s.size \in Nat /\ s.dts \in Time /\ s.pts \in Time
    BY <2>1, AtHand DEF Time
  <2>3. all \in Seq(Piece)
    BY <2>2 DEF Piece
  <2> HIDE DEF all, sets, s, size
  <2> QED BY <1>0, <2>1, <2>2, <2>3, WritePacketBegins DEF Go, Rests
<1>6. CASE WritePacket
  BY <1>6, FieldsWritePacket DEF WritePacket, Rests
<1>7. CASE PacketWritten
  BY <1>0, <1>7, FieldsPacketWritten DEF Sends, Turns
<1> QED BY <1>1, <1>2, <1>3, <1>4, <1>5, <1>6, <1>7 DEF Next

\* Tables come before unit k with time dts, or less than a minute before it.
Timely(dts, k) ==
  \/ dts = NOPTS_VALUE
  \/ out[k - 1] = Tables
  \/ \E j \in 1 .. k - 2 : out[j] = Tables /\ dts < out[j + 1].dts + PAT_DELTA

\* The time of the unit that follows unit k, sent or being written.
TimeAfter(k) == IF k = Len(out) THEN pes.dts ELSE out[k + 1].dts

\* The next tables are due a minute after the unit that followed the last ones.
Minute ==
  /\ out = <<>> => pc # "packets" /\ next_pat = NOPTS_VALUE
  /\ out # <<>> => /\ out[1] = Tables
                   /\ \E j \in DOMAIN out : /\ out[j] = Tables
                                            /\ j = Len(out) => pc = "packets"
                                            /\ next_pat = TimeAfter(j) + PAT_DELTA
  /\ pc = "packets" => Timely(pes.dts, Len(out) + 1)
  /\ \A k \in DOMAIN out : out[k].stream # 0 => Timely(out[k].dts, k)

LEMMA MinuteNext ==
  ASSUME Base, Minute, [Next]_vars
  PROVE  Minute'
<1>0. out \in Seq(Unit) /\ Len(out) \in Nat /\ DOMAIN out = 1 .. Len(out)
  BY LenProperties DEF Base, Typed
<1>1. CASE Rests
  <2>1. out' = out /\ next_pat' = next_pat /\ pes'.dts = pes.dts /\ (pc' = "packets" <=> pc = "packets")
    BY <1>1 DEF Rests
  <2> QED BY <2>1 DEF Minute, Timely, TimeAfter
<1>2. CASE Begins
  <2>1. pc # "packets" /\ pc' = "packets" /\ pes'.dts \in Time
    BY <1>2 DEF Begins
  <2>2. CASE ~ TablesDue(pes'.dts) /\ out' = out /\ next_pat' = next_pat
    <3>1. next_pat # NOPTS_VALUE /\ (pes'.dts = NOPTS_VALUE \/ ~ pes'.dts >= next_pat)
      BY <2>2 DEF TablesDue
    <3>2. out # <<>> /\ out[1] = Tables
      BY <3>1 DEF Minute
    <3>3. PICK j \in DOMAIN out : /\ out[j] = Tables /\ j # Len(out)
                                  /\ next_pat = out[j + 1].dts + PAT_DELTA
      BY <2>1, <3>2 DEF Minute, TimeAfter
    <3>4. j \in 1 .. Len(out) - 1 /\ j + 1 \in 1 .. Len(out)
      BY <1>0, <3>3
    <3>5. out[j + 1].dts \in Time
      <4>1. out[j + 1] \in Unit
        BY <1>0, <3>4
      <4> QED BY <4>1 DEF Unit
    <3>6. pes'.dts = NOPTS_VALUE \/ pes'.dts < out[j + 1].dts + PAT_DELTA
      BY <2>1, <3>1, <3>3, <3>5 DEF PAT_DELTA, Time, NOPTS_VALUE
    <3>7. Timely(pes.dts, Len(out) + 1)'
      BY <1>0, <2>2, <3>3, <3>4, <3>6 DEF Timely
    <3>8. TimeAfter(j)' = out[j + 1].dts
      BY <2>2, <3>3 DEF TimeAfter
    <3>9. \A k \in DOMAIN out' : out'[k].stream # 0 => Timely(out[k].dts, k)'
      BY <2>2 DEF Minute, Timely
    <3> QED BY <2>1, <2>2, <3>2, <3>3, <3>7, <3>8, <3>9 DEF Minute
  <2>3. CASE out' = Append(out, Tables) /\ next_pat' = pes'.dts + PAT_DELTA
    <3>1. /\ Len(out') = Len(out) + 1 /\ DOMAIN out' = 1 .. Len(out) + 1
          /\ \A k \in 1 .. Len(out) : out'[k] = out[k]
          /\ out'[Len(out) + 1] = Tables
      BY <1>0, <2>3, TablesUnit, BucketGrows
    <3>2. out' # <<>> /\ out'[1] = Tables
      BY <1>0, <3>1 DEF Minute
    <3>3. Timely(pes.dts, Len(out) + 1)'
      BY <1>0, <3>1 DEF Timely
    <3>4. TimeAfter(Len(out))' = pes'.dts
      BY DEF TimeAfter
    <3>5. \A k \in DOMAIN out' : out'[k].stream # 0 => Timely(out[k].dts, k)'
      <4> SUFFICES ASSUME NEW k \in DOMAIN out', out'[k].stream # 0 PROVE Timely(out[k].dts, k)'
        OBVIOUS
      <4>1. k \in 1 .. Len(out) /\ out'[k] = out[k]
        BY <1>0, <3>1, TablesUnit
      <4>2. Timely(out[k].dts, k)
        BY <1>0, <4>1 DEF Minute
      <4>3. k # 1
        BY <1>0, <4>1, TablesUnit DEF Minute
      <4> QED BY <1>0, <3>1, <4>1, <4>2, <4>3 DEF Timely
    <3>6. Len(out') \in DOMAIN out' /\ out'[Len(out')] = Tables
      BY <1>0, <3>1
    <3> QED BY <2>1, <2>3, <3>1, <3>2, <3>3, <3>4, <3>5, <3>6 DEF Minute
  <2> QED BY <1>2, <2>2, <2>3 DEF Begins
<1>3. CASE Sends
  <2>1. pc = "packets" /\ pc' # "packets" /\ next_pat' = next_pat
    BY <1>3 DEF Sends
  <2>2. PICK u \in Unit : out' = Append(out, u) /\ u.dts = pes.dts
    BY <1>3 DEF Sends
  <2>3. /\ Len(out') = Len(out) + 1 /\ DOMAIN out' = 1 .. Len(out) + 1
        /\ \A k \in 1 .. Len(out) : out'[k] = out[k]
        /\ out'[Len(out) + 1] = u
    BY <1>0, <2>2, BucketGrows
  <2>4. out # <<>> /\ out[1] = Tables /\ Len(out) > 0
    BY <1>0, <2>1, EmptySeq DEF Minute
  <2>5. out' # <<>> /\ out'[1] = Tables
    BY <1>0, <2>3, <2>4
  <2>6. PICK j \in DOMAIN out : out[j] = Tables /\ next_pat = TimeAfter(j) + PAT_DELTA
    BY <2>4 DEF Minute
  <2>7. /\ j \in DOMAIN out' /\ out'[j] = Tables /\ j # Len(out')
        /\ next_pat' = TimeAfter(j)' + PAT_DELTA
    BY <1>0, <2>1, <2>2, <2>3, <2>6 DEF TimeAfter
  <2>8. \A k \in DOMAIN out' : out'[k].stream # 0 => Timely(out[k].dts, k)'
    <3> SUFFICES ASSUME NEW k \in DOMAIN out', out'[k].stream # 0 PROVE Timely(out[k].dts, k)'
      OBVIOUS
    <3>1. CASE k = Len(out) + 1
      <4>1. Timely(pes.dts, k)
        BY <2>1, <3>1 DEF Minute
      <4>2. out'[k].dts = pes.dts
        BY <2>2, <2>3, <3>1
      <4> QED BY <1>0, <2>3, <2>4, <3>1, <4>1, <4>2 DEF Timely
    <3>2. CASE k # Len(out) + 1
      <4>1. k \in 1 .. Len(out) /\ out'[k] = out[k]
        BY <1>0, <2>3, <3>2
      <4>2. Timely(out[k].dts, k) /\ k # 1
        BY <1>0, <2>4, <4>1, TablesUnit DEF Minute
      <4> QED BY <1>0, <2>3, <4>1, <4>2 DEF Timely
    <3> QED BY <3>1, <3>2
  <2> QED BY <2>1, <2>5, <2>7, <2>8 DEF Minute
<1> QED BY <1>1, <1>2, <1>3, BucketSteps

\* The unit after unit j is sent, or being written.
Followed(j) == j < Len(out) \/ pc = "packets"

\* From the unit that follows tables it takes a minute until tables are due, and
\* so long it takes to the unit that follows the next tables.
Spaced ==
  /\ out # <<>> => next_pat # NOPTS_VALUE /\ (pc # "packets" => out[Len(out)] # Tables)
  /\ \A j \in DOMAIN out :
       out[j] = Tables /\ Followed(j) => TimeAfter(j) + PAT_DELTA <= next_pat
  /\ \A j, k \in DOMAIN out :
       j < k /\ out[j] = Tables /\ out[k] = Tables /\ Followed(k) =>
         TimeAfter(j) + PAT_DELTA <= TimeAfter(k)

LEMMA SpacedNext ==
  ASSUME Base, Minute, Spaced, [Next]_vars
  PROVE  Spaced'
<1>0. /\ out \in Seq(Unit) /\ Len(out) \in Nat /\ DOMAIN out = 1 .. Len(out)
      /\ next_pat \in Int /\ \A j \in 1 .. Len(out) : out[j].dts \in Time
  <2>1. out \in Seq(Unit) /\ next_pat \in Int
    BY DEF Base, Typed
  <2>2. \A j \in 1 .. Len(out) : out[j] \in Unit
    BY <2>1, ElementOfSeq
  <2>3. \A j \in 1 .. Len(out) : out[j].dts \in Time
    BY <2>2 DEF Unit
  <2> QED BY <2>1, <2>3, LenProperties
<1>1. CASE Rests
  <2>1. /\ out' = out /\ next_pat' = next_pat /\ pes'.dts = pes.dts
        /\ (pc' = "packets" <=> pc = "packets")
    BY <1>1 DEF Rests
  <2> QED BY <2>1 DEF Spaced, Followed, TimeAfter
<1>2. CASE Begins
  <2>1. pc # "packets" /\ pc' = "packets" /\ pes'.dts \in Time
    BY <1>2 DEF Begins
  <2>2. \A j \in DOMAIN out : out[j] = Tables =>
          /\ j + 1 \in DOMAIN out /\ Followed(j) /\ TimeAfter(j) = out[j + 1].dts
          /\ TimeAfter(j) \in Time /\ TimeAfter(j) + PAT_DELTA <= next_pat
    <3> SUFFICES ASSUME NEW j \in DOMAIN out, out[j] = Tables
                 PROVE  /\ j + 1 \in DOMAIN out /\ Followed(j) /\ TimeAfter(j) = out[j + 1].dts
                        /\ TimeAfter(j) \in Time /\ TimeAfter(j) + PAT_DELTA <= next_pat
      OBVIOUS
    <3>1. out # <<>> /\ j # Len(out)
      BY <2>1, EmptySeq DEF Spaced
    <3>2. j < Len(out) /\ j + 1 \in 1 .. Len(out)
      BY <1>0, <3>1
    <3>3. Followed(j) /\ TimeAfter(j) = out[j + 1].dts
      BY <3>1, <3>2 DEF Followed, TimeAfter
    <3> QED BY <1>0, <3>2, <3>3 DEF Spaced
  <2>3. CASE ~ TablesDue(pes'.dts) /\ out' = out /\ next_pat' = next_pat
    <3>1. \A j \in DOMAIN out : out[j] = Tables => TimeAfter(j)' = TimeAfter(j)
      BY <1>0, <2>2, <2>3 DEF TimeAfter
    <3>2. \A j, k \in DOMAIN out :
            j < k /\ out[j] = Tables /\ out[k] = Tables =>
              TimeAfter(j) + PAT_DELTA <= TimeAfter(k)
      BY <2>2 DEF Spaced
    <3> QED BY <2>1, <2>2, <2>3, <3>1, <3>2 DEF Spaced
  <2>4. CASE /\ TablesDue(pes'.dts) /\ out' = Append(out, Tables)
             /\ next_pat' = pes'.dts + PAT_DELTA
    <3>0. PICK n \in Nat : n = Len(out) + 1
      BY <1>0
    <3>1. /\ Len(out') = n /\ DOMAIN out' = 1 .. n
          /\ \A j \in 1 .. Len(out) : out'[j] = out[j]
          /\ out'[n] = Tables
      BY <1>0, <2>4, <3>0, TablesUnit, BucketGrows
    <3>2. \A j \in DOMAIN out' : j = n \/ j \in DOMAIN out
      BY <1>0, <3>0, <3>1
    <3>3. TimeAfter(n)' = pes'.dts
      BY <3>1 DEF TimeAfter
    <3>4. \A j \in DOMAIN out : out[j] = Tables =>
            TimeAfter(j)' = TimeAfter(j) /\ TimeAfter(j) + PAT_DELTA <= pes'.dts
      <4> SUFFICES ASSUME NEW j \in DOMAIN out, out[j] = Tables
                   PROVE  /\ TimeAfter(j)' = TimeAfter(j)
                          /\ TimeAfter(j) + PAT_DELTA <= pes'.dts
        OBVIOUS
      <4>1. j + 1 \in 1 .. Len(out) /\ j # n /\ TimeAfter(j) = out[j + 1].dts
        BY <1>0, <2>2, <3>0
      <4>2. TimeAfter(j)' = TimeAfter(j)
        BY <1>0, <3>0, <3>1, <4>1 DEF TimeAfter
      <4>3. next_pat # NOPTS_VALUE
        BY EmptySeq DEF Spaced
      <4>4. pes'.dts >= next_pat
        BY <2>4, <4>3 DEF TablesDue
      <4>5. TimeAfter(j) + PAT_DELTA <= next_pat /\ TimeAfter(j) \in Time
        BY <2>2
      <4>6. TimeAfter(j) + PAT_DELTA <= pes'.dts
        BY <1>0, <2>1, <4>4, <4>5 DEF Time, NOPTS_VALUE, PAT_DELTA
      <4> QED BY <4>2, <4>6
    <3>5. next_pat' # NOPTS_VALUE /\ pes'.dts + PAT_DELTA <= next_pat' /\ pes'.dts <= next_pat'
      BY <2>1, <2>4 DEF Time, NOPTS_VALUE, PAT_DELTA
    <3>6. \A j \in DOMAIN out' : out'[j] = Tables => TimeAfter(j)' + PAT_DELTA <= next_pat'
      <4> SUFFICES ASSUME NEW j \in DOMAIN out', out'[j] = Tables
                   PROVE  TimeAfter(j)' + PAT_DELTA <= next_pat'
        OBVIOUS
      <4>1. CASE j = n
        BY <3>3, <3>5, <4>1
      <4>2. CASE j \in DOMAIN out
        <5>1. out[j] = Tables
          BY <1>0, <3>1, <4>2
        <5>2. TimeAfter(j)' + PAT_DELTA <= pes'.dts /\ TimeAfter(j)' \in Time
          BY <2>2, <3>4, <4>2, <5>1
        <5> QED BY <2>1, <2>4, <5>2 DEF Time, NOPTS_VALUE, PAT_DELTA
      <4> QED BY <3>2, <4>1, <4>2
    <3>7. ASSUME NEW j \in DOMAIN out', NEW k \in DOMAIN out', j < k,
                 out'[j] = Tables, out'[k] = Tables
          PROVE  TimeAfter(j)' + PAT_DELTA <= TimeAfter(k)'
      <4>1. j \in DOMAIN out /\ out[j] = Tables
        BY <1>0, <3>0, <3>1, <3>7
      <4>2. CASE k = n
        BY <3>3, <3>4, <4>1, <4>2
      <4>3. CASE k \in DOMAIN out
        <5>1. out[k] = Tables
          BY <1>0, <3>1, <3>7, <4>3
        <5>2. TimeAfter(j) + PAT_DELTA <= TimeAfter(k)
          BY <2>2, <3>7, <4>1, <4>3, <5>1 DEF Spaced
        <5> QED BY <3>4, <4>1, <4>3, <5>1, <5>2
      <4> QED BY <3>2, <4>2, <4>3
    <3> QED BY <2>1, <3>5, <3>6, <3>7 DEF Spaced
  <2> QED BY <1>2, <2>3, <2>4 DEF Begins
<1>3. CASE Sends
  <2>1. pc = "packets" /\ pc' # "packets" /\ next_pat' = next_pat
    BY <1>3 DEF Sends
  <2>2. PICK u \in Unit : out' = Append(out, u) /\ u.dts = pes.dts /\ u.stream = pes.stream
    BY <1>3 DEF Sends
  <2> DEFINE n == Len(out) + 1
  <2>3. /\ Len(out') = n /\ DOMAIN out' = 1 .. n
        /\ \A j \in 1 .. Len(out) : out'[j] = out[j]
        /\ out'[n] = u
    BY <1>0, <2>2, BucketGrows
  <2>4. u # Tables
    <3>1. pes.stream \in 1 .. Len(frags)
      BY <2>1 DEF Base, IInv, Room, TimesTyped
    <3> QED BY <2>2, <3>1, TablesUnit
  <2>5. out # <<>> => next_pat # NOPTS_VALUE
    BY DEF Spaced
  <2>6. out # <<>>
    BY <2>1 DEF Minute
  <2>7. \A j \in DOMAIN out' : out'[j] = Tables =>
          j \in DOMAIN out /\ out[j] = Tables /\ Followed(j) /\ TimeAfter(j)' = TimeAfter(j)
    <3> SUFFICES ASSUME NEW j \in DOMAIN out', out'[j] = Tables
                 PROVE  /\ j \in DOMAIN out /\ out[j] = Tables /\ Followed(j)
                        /\ TimeAfter(j)' = TimeAfter(j)
      OBVIOUS
    <3>1. j # n
      BY <2>3, <2>4
    <3>2. j \in 1 .. Len(out)
      BY <1>0, <2>3, <3>1
    <3>3. TimeAfter(j)' = out'[j + 1].dts
      BY <2>3, <3>1 DEF TimeAfter
    <3>4. CASE j = Len(out)
      BY <1>0, <2>1, <2>2, <2>3, <3>2, <3>3, <3>4 DEF TimeAfter, Followed
    <3>5. CASE j # Len(out)
      <4>1. j + 1 \in 1 .. Len(out)
        BY <1>0, <3>2, <3>5
      <4> QED BY <1>0, <2>1, <2>3, <3>2, <3>3, <3>5, <4>1 DEF TimeAfter, Followed
    <3> QED BY <3>4, <3>5
  <2>8. out' # <<>> => next_pat' # NOPTS_VALUE /\ out'[Len(out')] # Tables
    BY <2>1, <2>3, <2>4, <2>5, <2>6
  <2> QED BY <2>1, <2>7, <2>8 DEF Spaced
<1> QED BY <1>1, <1>2, <1>3, BucketSteps

\* write_tables: the first unit of every segment is a pair of tables, no PES
\* packet with a time is a minute later than the one its tables preceded, and no
\* tables are repeated sooner, whatever the tracks, their scales and their times.
THEOREM TablesAreInTime == Spec => []TablesInTime
<1>1. Init => Minute /\ Spaced
  <2> SUFFICES ASSUME Init PROVE Minute /\ Spaced
    OBVIOUS
  <2>1. out = <<>> /\ pc = "pick" /\ next_pat = NOPTS_VALUE
    BY DEF Init
  <2>2. DOMAIN out = {}
    BY <2>1
  <2> QED BY <2>1, <2>2 DEF Minute, Spaced
<1>2. Base /\ Minute /\ Spaced /\ [Next]_vars => Minute' /\ Spaced'
  BY MinuteNext, SpacedNext
<1>3. Base /\ Minute /\ Spaced => TablesInTime
  <2> SUFFICES ASSUME Base, Minute, Spaced PROVE TablesInTime
    OBVIOUS
  <2>0. Len(out) \in Nat /\ DOMAIN out = 1 .. Len(out)
    BY LenProperties DEF Base, Typed
  <2>1. ASSUME NEW k \in DOMAIN out, out[k].stream # 0
        PROVE  /\ out[1] = Tables
               /\ out[k].dts = NOPTS_VALUE
                  \/ out[k - 1] = Tables
                  \/ \E j \in 1 .. k - 2 :
                       out[j] = Tables /\ out[k].dts < out[j + 1].dts + PAT_DELTA
    <3>1. out # <<>>
      OBVIOUS
    <3>2. Timely(out[k].dts, k)
      BY <2>1 DEF Minute
    <3> QED BY <3>1, <3>2 DEF Minute, Timely
  <2>2. ASSUME NEW j \in DOMAIN out, NEW k \in DOMAIN out,
               j < k, k < Len(out), out[j] = Tables, out[k] = Tables
        PROVE  out[j + 1].dts + PAT_DELTA <= out[k + 1].dts
    <3>1. Followed(k) /\ j # Len(out) /\ k # Len(out)
      BY <2>0, <2>2 DEF Followed
    <3> QED BY <2>2, <3>1 DEF Spaced, TimeAfter
  <2> QED BY <2>1, <2>2 DEF TablesInTime
<1> QED BY <1>1, <1>2, <1>3, BaseAlways, PTL DEF Spec

-----------------------------------------------------------------------------
(* Time stamps                                                             *)

\* write_audio_packet is about to copy the first byte of a sample.
AtStart(i) == pc = "copy" /\ order = i /\ stage = "header" /\ rest = AdtsSize

\* The payload of a track has the times of the first sample that starts in it,
\* or is about to.
Marked(i) ==
  LET st == streams[i]
      s(n) == frags[i].samples[st.pieces[n].sample]
  IN  /\ \A n \in DOMAIN st.pieces : st.pieces[n].sample \in 1 .. Len(frags[i].samples)
      /\ Starts(st.pieces) = {} =>
           IF AtStart(i) THEN st.dts = Head1(i).dts /\ st.pts = Head1(i).pts
                         ELSE st.dts = NOPTS_VALUE /\ st.pts = NOPTS_VALUE
      /\ Starts(st.pieces) # {} => st.dts # NOPTS_VALUE
      /\ \A n \in Starts(st.pieces) :
           (\A m \in Starts(st.pieces) : n <= m) => st.dts = s(n).dts /\ st.pts = s(n).pts

Marks ==
  /\ \A i \in DOMAIN frags : Audio(i) => Marked(i)
  /\ pc = "packets" => Stamped(pes.stream, pes.pieces, pes.dts, pes.pts)

LEMMA DelayedNat ==
  ASSUME NEW t \in Nat
  PROVE  Delayed(t) = t + max_delay
BY DEF Delayed, NOPTS_VALUE

LEMMA MarkedStamps ==
  Base /\ Marks =>
    \A i \in DOMAIN frags : Audio(i) /\ ~ AtStart(i) =>
      Stamped(i, streams[i].pieces, Delayed(streams[i].dts), Delayed(streams[i].pts))
<1> SUFFICES ASSUME Base, Marks, NEW i \in DOMAIN frags, Audio(i), ~ AtStart(i)
             PROVE  Stamped(i, streams[i].pieces, Delayed(streams[i].dts), Delayed(streams[i].pts))
  OBVIOUS
<1> DEFINE ps == streams[i].pieces
<1>1. Marked(i)
  BY DEF Marks
<1>2. CASE Starts(ps) = {}
  BY <1>1, <1>2 DEF Marked, Stamped, Delayed
<1>3. CASE Starts(ps) # {}
  <2> SUFFICES ASSUME NEW n \in Starts(ps), \A m \in Starts(ps) : n <= m
               PROVE  LET s == frags[i].samples[ps[n].sample]
                      IN  /\ Delayed(streams[i].dts) = s.dts + max_delay
                          /\ Delayed(streams[i].pts) = s.pts + max_delay
    BY <1>3 DEF Stamped
  <2>1. n \in DOMAIN ps
    BY DEF Starts
  <2>2. ps[n].sample \in 1 .. Len(frags[i].samples)
    BY <1>1, <2>1 DEF Marked
  <2>3. frags[i].samples[ps[n].sample].dts \in Nat /\ frags[i].samples[ps[n].sample].pts \in Nat
    BY <2>2 DEF Base, TimesTyped
  <2>4. /\ streams[i].dts = frags[i].samples[ps[n].sample].dts
        /\ streams[i].pts = frags[i].samples[ps[n].sample].pts
    BY <1>1 DEF Marked
  <2> QED BY <2>3, <2>4, DelayedNat
<1> QED BY <1>2, <1>3

\* A step that leaves the payload of a track as it is, at no start.
LEMMA MarkedStays ==
  ASSUME NEW i \in DOMAIN frags, Marked(i), frags' = frags, first' = first,
         streams'[i].pieces = streams[i].pieces,
         streams'[i].dts = streams[i].dts, streams'[i].pts = streams[i].pts,
         AtStart(i)' <=> AtStart(i)
  PROVE  Marked(i)'
BY DEF Marked, Head1

LEMMA MarkedEmptied ==
  ASSUME NEW i \in DOMAIN frags, streams'[i].pieces = <<>>,
         streams'[i].dts = NOPTS_VALUE, streams'[i].pts = NOPTS_VALUE,
         ~ AtStart(i)'
  PROVE  Marked(i)'
<1>1. Starts(streams[i].pieces)' = {}
  BY DEF Starts
<1> QED BY <1>1 DEF Marked

LEMMA MarkedCopied ==
  ASSUME Base, Marks, Copy
  PROVE  Marked(order)' /\ Audio(order) /\ order \in DOMAIN frags
<1> DEFINE ps  == streams[order].pieces
           ps2 == streams'[order].pieces
<1>1. /\ order \in DOMAIN frags /\ Audio(order) /\ Marked(order)
      /\ first[order] \in 1 .. Len(frags[order].samples)
      /\ Head1(order) = frags[order].samples[first[order]]
      /\ Head1(order).dts \in Nat /\ rest \in Nat
  BY AtHand DEF Copy, Marks, Base, IInv, Turns
<1>2. /\ ps2 = Append(ps, NewPiece)
      /\ streams'[order].dts = streams[order].dts /\ streams'[order].pts = streams[order].pts
      /\ rest' = rest - Fitting(streams[order].index) /\ pc = "copy"
      /\ UNCHANGED <<frags, first, order, stage>>
  BY FieldsCopy
<1>3. /\ NewPiece.sample = first[order] /\ NewPiece.from = Done1 /\ NewPiece \in Piece
      /\ rest' < rest /\ (stage = "header" => rest <= AdtsSize)
  <2>1. NewPiece \in Piece
    BY <1>1, CopySize DEF NewPiece, Piece
  <2> QED BY <1>1, <1>2, <2>1, CopySize DEF NewPiece, Base, Copying
<1>4. /\ ps \in Seq(Piece) /\ Len(ps) \in Nat
      /\ DOMAIN ps = 1 .. Len(ps) /\ DOMAIN ps2 = 1 .. Len(ps) + 1
      /\ \A n \in 1 .. Len(ps) : ps2[n] = ps[n]
      /\ ps2[Len(ps) + 1] = NewPiece
  <2>1. ps \in Seq(Piece)
    BY <1>1, StreamFields
  <2>2. ps2 \in Seq(Piece) /\ Len(ps2) = Len(ps) + 1
    BY <1>2, <1>3, <2>1, AppendProperties
  <2> HIDE DEF ps, ps2
  <2> QED BY <1>2, <1>3, <2>1, <2>2, AppendProperties, LenProperties
<1>5. ~ AtStart(order)'
  BY <1>1, <1>2, <1>3 DEF AtStart, AdtsSize
<1>6. \A n \in DOMAIN ps2 : ps2[n].sample \in 1 .. Len(frags[order].samples)
  <2>1. \A n \in DOMAIN ps2 : n \in 1 .. Len(ps) \/ n = Len(ps) + 1
    BY <1>4
  <2> QED BY <1>1, <1>3, <1>4, <2>1 DEF Marked
<1> DEFINE late == Len(ps) + 1
<1>7. Starts(ps) \subseteq 1 .. Len(ps)
  BY <1>4 DEF Starts
<1>8. CASE AtStart(order)
  <2>1. NewPiece.from = 0
    BY <1>3, <1>8 DEF Done1, AtStart, AdtsSize
  <2>2. Starts(ps2) = Starts(ps) \cup {late}
    <3> HIDE DEF ps, ps2
    <3> QED BY <1>4, <2>1 DEF Starts
  <2>3. CASE Starts(ps) = {}
    <3>1. streams[order].dts = Head1(order).dts /\ streams[order].pts = Head1(order).pts
      BY <1>1, <1>8, <2>3 DEF Marked
    <3>2. streams[order].dts # NOPTS_VALUE
      BY <1>1, <3>1 DEF NOPTS_VALUE
    <3>3. Starts(ps2) = {late}
      BY <2>2, <2>3
    <3> QED BY <1>1, <1>2, <1>3, <1>4, <1>6, <3>1, <3>2, <3>3, ZenonT(60) DEF Marked
  <2>4. CASE Starts(ps) # {}
    <3>1. streams[order].dts # NOPTS_VALUE
      BY <1>1, <2>4 DEF Marked
    <3>2. PICK a \in Starts(ps) : TRUE
      BY <2>4
    <3>3. ASSUME NEW n \in Starts(ps2), \A m \in Starts(ps2) : n <= m
          PROVE  /\ streams[order].dts = frags[order].samples[ps2[n].sample].dts
                 /\ streams[order].pts = frags[order].samples[ps2[n].sample].pts
      <4>1. n <= a /\ a \in 1 .. Len(ps)
        BY <1>7, <2>2, <3>2, <3>3
      <4>2. n \in Starts(ps) /\ n \in 1 .. Len(ps)
        BY <1>4, <1>7, <2>2, <3>3, <4>1
      <4>3. \A m \in Starts(ps) : n <= m
        BY <2>2, <3>3
      <4> QED BY <1>1, <1>4, <4>2, <4>3, ZenonT(60) DEF Marked
    <3>4. Starts(ps2) # {}
      BY <2>2
    <3>5. PICK i, st : i = order /\ st = streams'[order]
      OBVIOUS
    <3>6. /\ st.dts # NOPTS_VALUE /\ st.pieces = ps2
          /\ \A n \in DOMAIN ps2 : ps2[n].sample \in 1 .. Len(frags[i].samples)
          /\ \A n \in Starts(ps2) : (\A m \in Starts(ps2) : n <= m) =>
               /\ st.dts = frags[i].samples[ps2[n].sample].dts
               /\ st.pts = frags[i].samples[ps2[n].sample].pts
      BY <1>2, <1>6, <3>1, <3>3, <3>5
    <3>7. frags' = frags /\ order' = i /\ streams'[i] = st /\ Starts(ps2) # {}
      BY <1>2, <3>4, <3>5
    <3> HIDE DEF ps2, ps
    <3>8. Marked(order)'
      BY <3>6, <3>7 DEF Marked
    <3> QED BY <1>1, <3>8
  <2> QED BY <2>3, <2>4
<1>9. CASE ~ AtStart(order)
  <2>1. NewPiece.from # 0
    <3>1. /\ rest \in Nat /\ stage \in {"header", "data"} /\ pc = "copy"
          /\ rest <= IF stage = "header" THEN AdtsSize ELSE Head1(order).size
      BY <1>1, <1>2 DEF Base, IInv, Turns, Copying
    <3>2. Head1(order).size \in Nat
      BY <1>1, <3>1, AtHand
    <3>3. ~ (stage = "header" /\ rest = AdtsSize)
      BY <1>9, <3>1 DEF AtStart
    <3>4. Done1 # 0
      BY <3>1, <3>2, <3>3 DEF Done1, AdtsSize
    <3> QED BY <1>3, <3>4
  <2>2. Starts(ps2) = Starts(ps)
    <3> HIDE DEF ps, ps2
    <3> QED BY <1>4, <2>1 DEF Starts
  <2>3. \A n \in Starts(ps) : ps2[n] = ps[n]
    BY <1>4, <1>7
  <2> QED BY <1>1, <1>2, <1>5, <1>6, <1>9, <2>2, <2>3, ZenonT(60) DEF Marked
<1> QED BY <1>1, <1>8, <1>9

\* The PES packet at hand keeps its stamps.
LEMMA StampedStays ==
  ASSUME frags' = frags, NEW i, NEW pieces, NEW dts, NEW pts, Stamped(i, pieces, dts, pts)
  PROVE  Stamped(i, pieces, dts, pts)'
BY DEF Stamped

LEMMA MarksInit == Init => Marks
<1> SUFFICES ASSUME Init PROVE Marks
  OBVIOUS
<1>1. streams = [i \in DOMAIN frags |-> mpegts_stream_init] /\ pc = "pick"
  BY DEF Init
<1>2. \A i \in DOMAIN frags : Marked(i)
  <2> TAKE i \in DOMAIN frags
  <2>1. streams[i].pieces = <<>> /\ streams[i].dts = NOPTS_VALUE /\ streams[i].pts = NOPTS_VALUE
    BY <1>1 DEF mpegts_stream_init
  <2>2. Starts(streams[i].pieces) = {} /\ ~ AtStart(i)
    BY <1>1, <2>1 DEF Starts, AtStart
  <2> QED BY <2>1, <2>2 DEF Marked
<1> QED BY <1>1, <1>2 DEF Marks

LEMMA MarksNext ==
  ASSUME Base, Marks, [Next]_vars
  PROVE  Marks'
<1>0. frags' = frags /\ Base' /\ Turns /\ \A i \in DOMAIN frags : Audio(i)' = Audio(i)
  BY BaseKeeps, BaseNext DEF Audio, Base, IInv
<1>a. ASSUME NEW i \in DOMAIN frags, Audio(i), ~ AtStart(i),
             write_packet(i, streams[i].dts, streams[i].pts, streams[i].index,
                          streams[i].pieces, back')
      PROVE  Stamped(pes.stream, pes.pieces, pes.dts, pes.pts)'
  <2>1. Stamped(i, streams[i].pieces, Delayed(streams[i].dts), Delayed(streams[i].pts))
    BY <1>a, MarkedStamps
  <2>2. /\ pes'.stream = i /\ pes'.pieces = streams[i].pieces
        /\ pes'.dts = Delayed(streams[i].dts) /\ pes'.pts = Delayed(streams[i].pts)
    BY <1>a DEF write_packet
  <2> QED BY <1>0, <2>1, <2>2 DEF Stamped
<1>b. ASSUME UNCHANGED <<first, streams>>, \A i \in DOMAIN frags : AtStart(i)' <=> AtStart(i)
      PROVE  \A i \in DOMAIN frags : Audio(i) => Marked(i)'
  BY <1>0, <1>b, MarkedStays DEF Marks
<1>1. ASSUME NEW i \in DOMAIN frags, Pick(i) PROVE Marks'
  <2>1. UNCHANGED <<first, streams>> /\ pc = "pick" /\ pc' \in {"packets", "sample"}
    BY <1>1 DEF Pick, Flush, write_packet, Go
  <2>2. \A j \in DOMAIN frags : Audio(j) => Marked(j)'
    BY <1>b, <2>1 DEF AtStart
  <2>3. CASE FlushNow(i)
    <3>1. order \in DOMAIN frags /\ Audio(order)
      BY <1>0, <2>3 DEF FlushNow, Turns
    <3>2. write_packet(order, streams[order].dts, streams[order].pts, streams[order].index,
                       streams[order].pieces, back')
      BY <1>1, <2>3 DEF Pick, Flush, write_packet
    <3>3. ~ AtStart(order)
      BY <2>1 DEF AtStart
    <3> QED BY <1>0, <1>a, <2>2, <3>1, <3>2, <3>3 DEF Marks
  <2>4. CASE ~ FlushNow(i)
    BY <1>0, <1>1, <2>2, <2>4 DEF Pick, Go, Marks
  <2> QED BY <2>3, <2>4
<1>2. CASE StartAudio
  <2>1. /\ UNCHANGED <<frags, first, order>> /\ pc = "sample" /\ pc' = "copy"
        /\ rest' = AdtsSize /\ stage' = "header"
    BY <1>2 DEF StartAudio, Go
  <2>2. /\ order \in DOMAIN frags
        /\ Head1(order).dts \in Nat /\ Head1(order)' = Head1(order)
    BY <2>1, AtHand DEF Head1
  <2>3. ASSUME NEW i \in DOMAIN frags, Audio(i) PROVE Marked(i)'
    <3>1. Marked(i) /\ ~ AtStart(i) /\ streams'[i].pieces = streams[i].pieces
      BY <1>2, <2>1, <2>3, FieldsStartAudio DEF Marks, AtStart
    <3>2. CASE i # order
      <4>1. ~ AtStart(i)' /\ streams'[i].dts = streams[i].dts /\ streams'[i].pts = streams[i].pts
        BY <1>2, <2>1, <2>3, <3>2, FieldsStartAudio DEF AtStart
      <4> QED BY <2>1, <2>3, <3>1, <4>1, MarkedStays
    <3>3. CASE i = order
      <4>1. AtStart(i)'
        BY <2>1, <3>3 DEF AtStart
      <4>2. CASE Starts(streams[i].pieces) = {}
        <5>1. streams[i].dts = NOPTS_VALUE
          BY <3>1, <4>2 DEF Marked
        <5>2. streams'[i].dts = Head1(i).dts /\ streams'[i].pts = Head1(i).pts /\ Head1(i)' = Head1(i)
          BY <1>2, <2>1, <2>2, <2>3, <3>3, <5>1, FieldsStartAudio DEF Head1
        <5>3. Starts(streams'[i].pieces) = {}
          BY <3>1, <4>2
        <5> QED BY <2>1, <3>1, <4>1, <5>2, <5>3 DEF Marked
      <4>3. CASE Starts(streams[i].pieces) # {}
        <5>1. streams[i].dts # NOPTS_VALUE
          BY <3>1, <4>3 DEF Marked
        <5>2. streams'[i].dts = streams[i].dts /\ streams'[i].pts = streams[i].pts
          BY <1>2, <2>2, <2>3, <3>3, <5>1, FieldsStartAudio
        <5> QED BY <2>1, <3>1, <4>3, <5>1, <5>2 DEF Marked
      <4> QED BY <4>2, <4>3
    <3> QED BY <3>2, <3>3
  <2> QED BY <1>0, <2>1, <2>3 DEF Marks
<1>3. CASE Copy
  <2>1. Marked(order)' /\ Audio(order) /\ order \in DOMAIN frags
    BY <1>3, MarkedCopied
  <2>2. /\ \A j \in DOMAIN frags \ {order} : streams'[j] = streams[j]
        /\ UNCHANGED <<frags, first, order, stage>> /\ pc = "copy"
        /\ \/ Flush(order, streams'[order], "copy")
           \/ UNCHANGED <<out, pes, next_pat, back, pc>>
    BY <1>3, FieldsCopy
  <2>3. \A i \in DOMAIN frags : Audio(i) => Marked(i)'
    <3> SUFFICES ASSUME NEW i \in DOMAIN frags, Audio(i) PROVE Marked(i)'
      OBVIOUS
    <3>1. CASE i = order
      BY <2>1, <2>2, <3>1 DEF Marked, AtStart, Head1
    <3>2. CASE i # order
      <4>1. AtStart(i)' <=> AtStart(i)
        BY <2>2, <3>2 DEF AtStart
      <4> QED BY <2>2, <3>2, <4>1, MarkedStays DEF Marks
    <3> QED BY <3>1, <3>2
  <2>4. CASE Flush(order, streams'[order], "copy")
    <3>1. /\ pes'.stream = order /\ pes'.pieces = streams'[order].pieces /\ pc' = "packets"
          /\ pes'.dts = Delayed(streams'[order].dts) /\ pes'.pts = Delayed(streams'[order].pts)
      BY <2>4 DEF Flush, write_packet
    <3>2. (\A i \in DOMAIN frags : Audio(i) => Marked(i))'
      BY <1>0, <2>3
    <3>3. ~ AtStart(order)'
      BY <3>1 DEF AtStart
    <3>4. Stamped(order, streams[order].pieces, Delayed(streams[order].dts),
                  Delayed(streams[order].pts))'
      <4>1. Starts(streams'[order].pieces) = {} =>
              streams'[order].dts = NOPTS_VALUE /\ streams'[order].pts = NOPTS_VALUE
        BY <2>1, <2>2, <3>3 DEF Marked
      <4>2. ASSUME NEW n \in Starts(streams'[order].pieces),
                   \A m \in Starts(streams'[order].pieces) : n <= m
            PROVE  LET s == frags[order].samples[streams'[order].pieces[n].sample]
                   IN  /\ Delayed(streams'[order].dts) = s.dts + max_delay
                       /\ Delayed(streams'[order].pts) = s.pts + max_delay
        <5> DEFINE s == frags[order].samples[streams'[order].pieces[n].sample]
        <5>1. n \in DOMAIN streams'[order].pieces
          BY <4>2 DEF Starts
        <5>2. streams'[order].pieces[n].sample \in 1 .. Len(frags[order].samples)
          BY <2>1, <2>2, <5>1 DEF Marked
        <5>3. s.dts \in Nat /\ s.pts \in Nat
          BY <2>1, <5>2 DEF Base, TimesTyped
        <5>4. streams'[order].dts = s.dts /\ streams'[order].pts = s.pts
          BY <2>1, <2>2, <4>2 DEF Marked
        <5> HIDE DEF s
        <5> QED BY <5>3, <5>4, DelayedNat DEF s
      <4>3. /\ Delayed(NOPTS_VALUE) = NOPTS_VALUE /\ frags' = frags
            /\ Delayed(streams[order].dts)' = Delayed(streams'[order].dts)
            /\ Delayed(streams[order].pts)' = Delayed(streams'[order].pts)
        BY <1>0, <2>2 DEF Delayed
      <4>4. order' = order
        BY <2>2
      <4> QED BY <4>1, <4>2, <4>3, <4>4 DEF Stamped, Starts
    <3>5. Stamped(pes.stream, pes.pieces, pes.dts, pes.pts)'
      BY <2>2, <3>1, <3>4, SMTT(60) DEF Stamped, Delayed
    <3> QED BY <3>2, <3>5 DEF Marks
  <2>5. CASE UNCHANGED <<out, pes, next_pat, back, pc>>
    BY <1>0, <2>2, <2>3, <2>5 DEF Marks
  <2> QED BY <2>2, <2>4, <2>5
<1>4. CASE CopyData
  <2>1. /\ UNCHANGED <<first, streams, pc>> /\ rest = 0 /\ stage' = "data" /\ pc = "copy"
    BY <1>4 DEF CopyData
  <2>2. \A j \in DOMAIN frags : Audio(j) => Marked(j)'
    BY <1>b, <2>1 DEF AtStart, AdtsSize
  <2> QED BY <1>0, <2>1, <2>2 DEF Marks
<1>5. CASE AudioCopied
  <2>1. /\ UNCHANGED <<first, streams>> /\ pc = "copy" /\ stage = "data"
        /\ pc' \in {"advance", "packets"}
    BY <1>5 DEF AudioCopied, Flush, write_packet, Go
  <2>2. order \in DOMAIN frags /\ Audio(order)
    BY <1>0, <2>1, AtHand DEF Turns
  <2>3. \A j \in DOMAIN frags : Audio(j) => Marked(j)'
    BY <1>b, <2>1 DEF AtStart
  <2>4. CASE LastSample /\ streams[order].index > 0
    <3>1. write_packet(order, streams[order].dts, streams[order].pts, streams[order].index,
                       streams[order].pieces, back')
      BY <1>5, <2>4 DEF AudioCopied, Flush, write_packet
    <3>2. ~ AtStart(order)
      BY <2>1 DEF AtStart
    <3> QED BY <1>0, <1>a, <2>2, <2>3, <3>1, <3>2 DEF Marks
  <2>5. CASE ~ (LastSample /\ streams[order].index > 0)
    BY <1>0, <1>5, <2>3, <2>5 DEF AudioCopied, Go, Marks
  <2> QED BY <2>4, <2>5
<1>6. CASE WriteVideo
  <2> DEFINE s    == Head1(order)
             size == s.size + AudNal
             sets == IF streams[order].packets = 0 THEN ParameterSets ELSE 0
             all  == <<[sample |-> first[order], from |-> 0, to |-> s.size]>>
  <2>1. /\ pc = "sample" /\ UNCHANGED <<first, streams>> /\ ~ Audio(order)
        /\ \/ Go("advance")
           \/ write_packet(order, s.dts, s.pts, size + sets, all, "advance")
    BY <1>6 DEF WriteVideo
  <2>2. /\ s = frags[order].samples[first[order]] /\ s.dts \in Nat /\ s.pts \in Nat
    BY <2>1, AtHand
  <2>3. \A j \in DOMAIN frags : Audio(j) => Marked(j)'
    <3>1. pc' \in {"advance", "packets"}
      BY <2>1 DEF write_packet, Go
    <3> QED BY <1>b, <2>1, <3>1 DEF AtStart
  <2>4. CASE Go("advance")
    BY <1>0, <2>3, <2>4 DEF Go, Marks
  <2>5. CASE write_packet(order, s.dts, s.pts, size + sets, all, "advance")
    <3>1. /\ pes'.stream = order /\ pes'.pieces = all
          /\ pes'.dts = Delayed(s.dts) /\ pes'.pts = Delayed(s.pts)
      BY <2>5 DEF write_packet
    <3>2. Delayed(s.dts) = s.dts + max_delay /\ Delayed(s.pts) = s.pts + max_delay
      BY <2>2, DelayedNat
    <3>3. DOMAIN all = {1} /\ all[1].from = 0 /\ all[1].sample = first[order]
      OBVIOUS
    <3> HIDE DEF all
    <3>4. Starts(all) = {1}
      BY <3>3 DEF Starts
    <3>5. Stamped(pes.stream, pes.pieces, pes.dts, pes.pts)'
      BY <1>0, <2>2, <3>1, <3>2, <3>3, <3>4 DEF Stamped
    <3> QED BY <1>0, <2>3, <3>5 DEF Marks
  <2> QED BY <2>1, <2>4, <2>5
<1>7. CASE WritePacket
  <2>1. /\ \A j \in DOMAIN frags :
             /\ streams'[j].pieces = streams[j].pieces
             /\ streams'[j].dts = streams[j].dts /\ streams'[j].pts = streams[j].pts
        /\ pes'.stream = pes.stream /\ pes'.pieces = pes.pieces
        /\ pes'.dts = pes.dts /\ pes'.pts = pes.pts
    BY <1>7, FieldsWritePacket
  <2>2. UNCHANGED <<first, order, rest, stage, pc>> /\ pc = "packets"
    BY <1>7 DEF WritePacket
  <2>3. \A j \in DOMAIN frags : Audio(j) => Marked(j)'
    BY <1>0, <2>1, <2>2, MarkedStays DEF AtStart, Marks
  <2> QED BY <1>0, <2>1, <2>2, <2>3 DEF Marks, Stamped
<1>8. CASE PacketWritten
  <2>1. /\ pc = "packets" /\ pc' = back /\ UNCHANGED <<first, order, rest, stage>>
        /\ \A j \in DOMAIN frags :
              IF Audio(j) /\ j = pes.stream
              THEN /\ streams'[j].pieces = <<>>
                   /\ streams'[j].dts = NOPTS_VALUE /\ streams'[j].pts = NOPTS_VALUE
              ELSE streams'[j] = streams[j]
    BY <1>8, FieldsPacketWritten
  <2>2. pc' # "packets"
    BY <1>0, <2>1 DEF Turns
  <2>3. \A j \in DOMAIN frags : ~ AtStart(j) /\ ~ AtStart(j)'
    BY <2>1 DEF AtStart, Base, Copying, Writes, Done1, AdtsSize
  <2>4. \A j \in DOMAIN frags : Audio(j) => Marked(j)'
    BY <1>0, <2>1, <2>3, MarkedStays, MarkedEmptied DEF Marks
  <2> QED BY <1>0, <2>2, <2>4 DEF Marks
<1>9. CASE Advance
  <2>1. /\ pc = "advance" /\ pc' = "pick" /\ streams' = streams
    BY <1>9 DEF Advance, Go
  <2>2. \A j \in DOMAIN frags : ~ AtStart(j) /\ ~ AtStart(j)'
    BY <2>1 DEF AtStart
  <2>3. \A j \in DOMAIN frags : Audio(j) => Marked(j)'
    BY <1>0, <2>1, <2>2, SMTT(60) DEF Marks, Marked
  <2> QED BY <1>0, <2>1, <2>3 DEF Marks
<1>10. CASE Finish
  <2>1. /\ UNCHANGED <<first, streams>> /\ pc = "pick" /\ pc' = "done"
    BY <1>10 DEF Finish, Go
  <2>2. \A j \in DOMAIN frags : Audio(j) => Marked(j)'
    BY <1>b, <2>1 DEF AtStart
  <2> QED BY <1>0, <2>1, <2>2 DEF Marks
<1>11. CASE UNCHANGED vars
  <2>1. UNCHANGED <<first, streams, pc, order, stage, rest, pes>>
    BY <1>11 DEF vars
  <2>2. \A j \in DOMAIN frags : Audio(j) => Marked(j)'
    BY <1>b, <2>1 DEF AtStart
  <2> QED BY <1>0, <2>1, <2>2 DEF Marks, Stamped
<1> QED BY <1>1, <1>2, <1>3, <1>4, <1>5, <1>6, <1>7, <1>8, <1>9, <1>10, <1>11 DEF Next

\* write_audio_packet and write_video_packet: every PES packet that is sent
\* bears the times of the first sample that starts in it, however often a
\* payload fills up within a sample or is cut off by another track, and none
\* if it holds but the rest of a sample.
THEOREM StampsAreRight == Spec => []StampedByFirst
<1>1. Base /\ Marks /\ StampedByFirst /\ [Next]_vars => StampedByFirst'
  <2> SUFFICES ASSUME Base, Marks, StampedByFirst, [Next]_vars,
                      NEW k \in DOMAIN out', out'[k].stream # 0
               PROVE  Stamped(out[k].stream, out[k].pieces, out[k].dts, out[k].pts)'
    BY DEF StampedByFirst
  <2>1. frags' = frags /\ out \in Seq(Unit)
    BY BaseKeeps DEF Base, Typed
  <2>2. \A j \in DOMAIN out : out[j].stream # 0 =>
          Stamped(out[j].stream, out[j].pieces, out[j].dts, out[j].pts)
    BY DEF StampedByFirst
  <2>3. CASE out' = out
    BY <2>1, <2>2, <2>3 DEF Stamped
  <2>4. CASE out' = Append(out, Tables)
    <3>1. k \in DOMAIN out /\ out'[k] = out[k]
      BY <2>1, <2>4, TablesUnit, BucketGrows
    <3> QED BY <2>1, <2>2, <3>1, ZenonT(60) DEF Stamped
  <2>5. CASE Sends
    <3>1. PICK u \in Unit : /\ out' = Append(out, u)
                            /\ u.stream = pes.stream /\ u.pieces = pes.pieces
                            /\ u.dts = pes.dts /\ u.pts = pes.pts
      BY <2>5 DEF Sends
    <3>2. Stamped(pes.stream, pes.pieces, pes.dts, pes.pts)
      BY <2>5 DEF Sends, Marks
    <3>3. out'[k] = u \/ (k \in DOMAIN out /\ out'[k] = out[k])
      BY <2>1, <3>1, BucketGrows
    <3>4. CASE out'[k] = u
      BY <2>1, <3>1, <3>2, <3>4 DEF Stamped
    <3>5. CASE k \in DOMAIN out /\ out'[k] = out[k]
      BY <2>1, <2>2, <3>5, ZenonT(60) DEF Stamped
    <3> QED BY <3>3, <3>4, <3>5
  <2> QED BY <2>3, <2>4, <2>5, BucketSteps DEF Rests, Begins
<1>2. Init => StampedByFirst
  <2> SUFFICES ASSUME Init PROVE StampedByFirst
    OBVIOUS
  <2>1. DOMAIN out = {}
    BY DEF Init
  <2> QED BY <2>1 DEF StampedByFirst
<1>3. Base /\ Marks /\ [Next]_vars => Marks'
  BY MarksNext
<1> QED BY <1>1, <1>2, <1>3, MarksInit, BaseAlways, PTL DEF Spec

-----------------------------------------------------------------------------
(* What is held back and what is sent                                      *)

\* write_video_packet passes over the sample at hand of a track or not.
Playable(i) == Head1(i).size + AudNal >= 50 /\ Head1(i).ok

\* The bytes of its sample at hand that fragment i has in hand or has sent.
Copied(i) ==
  IF i # order THEN 0
  ELSE IF pc = "copy" \/ Writes("copy") THEN Done1
  ELSE IF (pc = "advance" \/ Writes("advance")) /\ (Audio(i) \/ Playable(i))
       THEN Bytes(i, first[i]) ELSE 0

\* The kinds of step, as pieces see them: nothing moves but tables; a piece is
\* taken; what is in hand is sent; the turn goes on.
Same(i) == InHand(i)' = InHand(i) /\ Copied(i)' = Copied(i)
Spread  == out' = out \/ out' = Append(out, Tables)
Quiet   == Spread /\ first' = first /\ \A i \in DOMAIN frags : Same(i)
Fills ==
  /\ Spread /\ first' = first /\ order' = order /\ order \in DOMAIN frags
  /\ \A i \in DOMAIN frags \ {order} : Same(i)
  /\ \E p \in Piece :
       /\ p.sample = first[order] /\ p.from = Copied(order) /\ p.to = Copied(order)'
       /\ p.from < p.to
       /\ InHand(order)' = Append(InHand(order), p)
Moves ==
  /\ first' = first /\ order' = order
  /\ \A i \in DOMAIN frags : Copied(i)' = Copied(i)
  /\ \E u \in Unit :
       /\ out' = Append(out, u) /\ u.stream \in DOMAIN frags
       /\ u.pieces = InHand(u.stream) /\ u.pieces # <<>>
       /\ \A i \in DOMAIN frags : /\ InHand(i)' = <<>>
                                  /\ i # u.stream => InHand(i) = <<>>
Takes ==
  /\ Advance /\ out' = out
  /\ \A i \in DOMAIN frags : InHand(i)' = InHand(i) /\ Copied(i)' = 0

LEMMA HandNow ==
  Base => \A i \in DOMAIN frags :
            InHand(i) = IF pc = "packets" /\ pes.stream = i THEN pes.pieces
                                                            ELSE streams[i].pieces
<1> SUFFICES ASSUME Base, NEW i \in DOMAIN frags
             PROVE  InHand(i) = IF pc = "packets" /\ pes.stream = i THEN pes.pieces
                                                                    ELSE streams[i].pieces
  OBVIOUS
<1>1. i # 0
  BY DEF Base, TimesTyped
<1>2. pc # "packets" => pes.stream = 0
  BY DEF Base, Hands, NoPes
<1> QED BY <1>1, <1>2 DEF Base, Hands, InHand

\* Where nothing is copied, nothing of the sample at hand is taken.
LEMMA CopiedNone ==
  ASSUME pc \in {"pick", "sample", "done"} \/ Writes("sample")
  PROVE  \A i : Copied(i) = 0
BY DEF Copied, Writes

LEMMA QuietSteps ==
  ASSUME Base, [Next]_vars,
         \/ \E i \in DOMAIN frags : Pick(i)
         \/ StartAudio \/ CopyData \/ AudioCopied \/ WritePacket \/ Finish \/ UNCHANGED vars
         \/ WriteVideo /\ ~ Playable(order)
  PROVE  Quiet
<1>0. frags' = frags /\ Base' /\ Turns /\ Hands /\ \A i \in DOMAIN frags : Audio(i)' = Audio(i)
  BY BaseKeeps, BaseNext DEF Audio, Base, IInv
<1>h. /\ \A i \in DOMAIN frags :
           InHand(i) = IF pc = "packets" /\ pes.stream = i THEN pes.pieces
                                                           ELSE streams[i].pieces
      /\ \A i \in DOMAIN frags :
           InHand(i)' = IF pc' = "packets" /\ pes'.stream = i THEN pes'.pieces
                                                              ELSE streams'[i].pieces
  <2>1. (\A i \in DOMAIN frags :
           InHand(i) = IF pc = "packets" /\ pes.stream = i THEN pes.pieces
                                                           ELSE streams[i].pieces)'
    BY <1>0, HandNow, PTL
  <2> QED BY <1>0, <2>1, HandNow
<1>s. Spread
  BY BucketSteps DEF Rests, Begins, Sends, Spread, Pick, StartAudio, CopyData, AudioCopied,
                     WritePacket, Finish, vars, WriteVideo, Go, Flush, write_packet, write_tables,
                     BucketInsert
<1>1. ASSUME NEW i \in DOMAIN frags, Pick(i) PROVE Quiet
  <2>1. /\ UNCHANGED <<first, streams>> /\ pc = "pick"
        /\ pc' = "sample" \/ Writes("sample")'
    BY <1>1 DEF Pick, Flush, write_packet, Go, Writes
  <2>2. \A j : Copied(j) = 0
    BY <2>1, CopiedNone
  <2>3. \A j \in DOMAIN frags : Copied(j)' = 0
    BY <2>1 DEF Copied, Writes
  <2>4. \A j \in DOMAIN frags : InHand(j)' = InHand(j)
    <3>1. CASE FlushNow(i)
      <4>1. pes'.stream = order /\ pes'.pieces = streams[order].pieces
        BY <1>1, <3>1 DEF Pick, Flush, write_packet
      <4> QED BY <1>h, <2>1, <4>1
    <3>2. CASE ~ FlushNow(i)
      <4>1. pc' = "sample"
        BY <1>1, <3>2 DEF Pick, Go
      <4> QED BY <1>h, <2>1, <4>1
    <3> QED BY <3>1, <3>2
  <2> QED BY <1>s, <2>1, <2>2, <2>3, <2>4 DEF Quiet, Same
<1>2. CASE StartAudio
  <2>1. /\ UNCHANGED <<first, order>> /\ pc = "sample" /\ pc' = "copy"
        /\ rest' = AdtsSize /\ stage' = "header"
    BY <1>2 DEF StartAudio, Go
  <2>2. \A j : Copied(j) = 0
    BY <2>1, CopiedNone
  <2>3. \A j \in DOMAIN frags : Copied(j)' = 0
    BY <2>1 DEF Copied, Done1, AdtsSize
  <2>4. \A j \in DOMAIN frags : InHand(j)' = InHand(j)
    BY <1>2, <1>h, <2>1, FieldsStartAudio
  <2> QED BY <1>s, <2>1, <2>2, <2>3, <2>4 DEF Quiet, Same
<1>3. CASE CopyData
  <2>1. /\ UNCHANGED <<first, order, streams, pc>> /\ pc = "copy"
        /\ rest = 0 /\ stage = "header" /\ rest' = Head1(order).size /\ stage' = "data"
    BY <1>3 DEF CopyData
  <2>2. Head1(order)' = Head1(order) /\ Head1(order).size \in Nat
    BY <1>0, <2>1, AtHand DEF Head1
  <2>3. \A j \in DOMAIN frags : Copied(j)' = Copied(j)
    BY <2>1, <2>2 DEF Copied, Done1, AdtsSize
  <2>4. \A j \in DOMAIN frags : InHand(j)' = InHand(j)
    BY <1>h, <2>1
  <2> QED BY <1>s, <2>1, <2>3, <2>4 DEF Quiet, Same
<1>4. CASE AudioCopied
  <2>1. /\ UNCHANGED <<first, order, streams>> /\ pc = "copy" /\ rest = 0 /\ stage = "data"
        /\ pc' = "advance" \/ Writes("advance")'
    BY <1>4 DEF AudioCopied, Flush, write_packet, Go, Writes
  <2>2. /\ order \in DOMAIN frags /\ Audio(order)
        /\ Head1(order) = frags[order].samples[first[order]] /\ Head1(order).size \in Nat
    BY <1>0, <2>1, AtHand DEF Turns
  <2>3. \A j \in DOMAIN frags : Copied(j)' = Copied(j)
    <3>1. \A j \in DOMAIN frags \ {order} : Copied(j)' = 0 /\ Copied(j) = 0
      BY <2>1 DEF Copied
    <3>2. Copied(order) = AdtsSize + Head1(order).size
      BY <2>1, <2>2 DEF Copied, Done1, AdtsSize
    <3>3. \A j : j = order => Copied(j)' = Bytes(order, first[order])
      BY <1>0, <2>1, <2>2 DEF Copied, Writes, Bytes, Audio
    <3>4. Bytes(order, first[order]) = Head1(order).size + AdtsSize
      BY <2>2 DEF Bytes
    <3>5. Copied(order) = Bytes(order, first[order])
      BY <2>2, <3>2, <3>4 DEF AdtsSize
    <3> QED BY <3>1, <3>3, <3>5
  <2>4. \A j \in DOMAIN frags : InHand(j)' = InHand(j)
    <3>1. CASE LastSample /\ streams[order].index > 0
      <4>1. pes'.stream = order /\ pes'.pieces = streams[order].pieces
        BY <1>4, <3>1 DEF AudioCopied, Flush, write_packet
      <4> QED BY <1>h, <2>1, <4>1
    <3>2. CASE ~ (LastSample /\ streams[order].index > 0)
      <4>1. pc' = "advance"
        BY <1>4, <3>2 DEF AudioCopied, Go
      <4> QED BY <1>h, <2>1, <4>1
    <3> QED BY <3>1, <3>2
  <2> QED BY <1>s, <2>1, <2>3, <2>4 DEF Quiet, Same
<1>5. CASE WritePacket
  <2>1. UNCHANGED <<first, order, rest, stage, pc, back>> /\ pc = "packets"
    BY <1>5 DEF WritePacket
  <2>2. \A j \in DOMAIN frags : InHand(j)' = InHand(j)
    BY <1>5, <1>h, <2>1, FieldsWritePacket
  <2>3. \A j \in DOMAIN frags : Copied(j)' = Copied(j)
    BY <1>0, <2>1 DEF Copied, Writes, Done1, Head1, Playable, Bytes, Audio
  <2> QED BY <1>s, <2>1, <2>2, <2>3 DEF Quiet, Same
<1>6. CASE Finish
  <2>1. UNCHANGED <<first, order, streams>> /\ pc = "pick" /\ pc' = "done"
    BY <1>6 DEF Finish, Go
  <2>2. \A j \in DOMAIN frags : Copied(j) = 0 /\ Copied(j)' = 0
    BY <2>1 DEF Copied, Writes
  <2>3. \A j \in DOMAIN frags : InHand(j)' = InHand(j)
    BY <1>h, <2>1
  <2> QED BY <1>s, <2>1, <2>2, <2>3 DEF Quiet, Same
<1>7. CASE UNCHANGED vars
  <2>1. UNCHANGED <<first, order, streams, pes, rest, stage, pc, back>>
    BY <1>7 DEF vars
  <2>2. \A j \in DOMAIN frags : Copied(j)' = Copied(j)
    BY <1>0, <2>1 DEF Copied, Writes, Done1, Head1, Playable, Bytes, Audio
  <2>3. \A j \in DOMAIN frags : InHand(j)' = InHand(j)
    BY <1>h, <2>1
  <2> QED BY <1>s, <2>1, <2>2, <2>3 DEF Quiet, Same
<1>8. CASE WriteVideo /\ ~ Playable(order)
  <2>1. pc = "sample" /\ ~ Audio(order) /\ UNCHANGED <<first, order, streams>>
    BY <1>8 DEF WriteVideo
  <2>2. order \in DOMAIN frags /\ Head1(order).size \in Nat
    BY <2>1, AtHand
  <2>3. Head1(order).size + AudNal < 50 \/ ~ Head1(order).ok
    BY <1>8, <2>2 DEF Playable, AudNal
  <2>4. pc' = "advance"
    BY <1>8, <2>3 DEF WriteVideo, Go
  <2>5. \A j \in DOMAIN frags : Copied(j) = 0
    BY <2>1, CopiedNone
  <2>6. \A j \in DOMAIN frags : Copied(j)' = 0
    BY <1>0, <1>8, <2>1, <2>2, <2>4 DEF Copied, Writes, Playable, Head1
  <2>7. \A j \in DOMAIN frags : InHand(j)' = InHand(j)
    BY <1>h, <2>1, <2>4
  <2> QED BY <1>s, <2>1, <2>5, <2>6, <2>7 DEF Quiet, Same
<1> QED BY <1>1, <1>2, <1>3, <1>4, <1>5, <1>6, <1>7, <1>8

LEMMA HandsBoth ==
  ASSUME Base, [Next]_vars
  PROVE  /\ \A i \in DOMAIN frags :
              InHand(i) = IF pc = "packets" /\ pes.stream = i THEN pes.pieces
                                                              ELSE streams[i].pieces
         /\ \A i \in DOMAIN frags :
              InHand(i)' = IF pc' = "packets" /\ pes'.stream = i THEN pes'.pieces
                                                                 ELSE streams'[i].pieces
<1>1. frags' = frags /\ Base'
  BY BaseKeeps, BaseNext
<1>2. (\A i \in DOMAIN frags :
         InHand(i) = IF pc = "packets" /\ pes.stream = i THEN pes.pieces
                                                         ELSE streams[i].pieces)'
  BY <1>1, HandNow, PTL
<1> QED BY <1>1, <1>2, HandNow

LEMMA CopyFills ==
  ASSUME Base, [Next]_vars, Copy
  PROVE  Fills
<1>1. /\ \A j \in DOMAIN frags \ {order} : streams'[j] = streams[j]
      /\ streams'[order].pieces = Append(streams[order].pieces, NewPiece)
      /\ UNCHANGED <<frags, first, order, stage>> /\ pc = "copy"
      /\ \/ Flush(order, streams'[order], "copy")
         \/ UNCHANGED <<out, pes, next_pat, back, pc>>
  BY FieldsCopy
<1>2. order \in DOMAIN frags /\ first[order] \in Nat
  BY <1>1, AtHand
<1>3. \/ /\ pc' = "packets" /\ back' = "copy" /\ pes'.stream = order
         /\ pes'.pieces = streams'[order].pieces
      \/ pc' = "copy"
  BY <1>1 DEF Flush, write_packet
<1>4. Copied(order) = Done1 /\ Copied(order)' = Done1'
  BY <1>1, <1>3 DEF Copied, Writes
<1>5. \A j \in DOMAIN frags \ {order} : Copied(j)' = Copied(j)
  BY <1>1 DEF Copied
<1>6. \A j \in DOMAIN frags \ {order} : InHand(j)' = InHand(j)
  BY <1>1, <1>3, HandsBoth
<1>7. InHand(order)' = Append(InHand(order), NewPiece)
  BY <1>1, <1>2, <1>3, HandsBoth
<1>8. /\ NewPiece \in Piece /\ NewPiece.sample = first[order] /\ NewPiece.from = Done1
      /\ NewPiece.to = Done1' /\ NewPiece.from < NewPiece.to
  BY <1>2, CopySize DEF NewPiece, Piece
<1>9. Spread
  BY <1>1 DEF Spread, Flush, write_packet, write_tables, BucketInsert
<1> QED BY <1>1, <1>2, <1>4, <1>5, <1>6, <1>7, <1>8, <1>9 DEF Fills, Same

LEMMA VideoFills ==
  ASSUME Base, [Next]_vars, WriteVideo, Playable(order)
  PROVE  Fills
<1> DEFINE s    == Head1(order)
           size == s.size + AudNal
           sets == IF streams[order].packets = 0 THEN ParameterSets ELSE 0
           one  == [sample |-> first[order], from |-> 0, to |-> s.size]
           all  == <<one>>
<1>1. /\ pc = "sample" /\ UNCHANGED <<frags, first, order, streams>> /\ ~ Audio(order)
      /\ IF size < 50 \/ ~ s.ok THEN Go("advance")
         ELSE write_packet(order, s.dts, s.pts, size + sets, all, "advance")
  BY DEF WriteVideo
<1>2. /\ order \in DOMAIN frags /\ first[order] \in Nat /\ s.size \in Nat \ {0}
      /\ s = frags[order].samples[first[order]]
  BY <1>1, AtHand
<1>3. ~ (size < 50 \/ ~ s.ok)
  BY <1>2 DEF Playable, AudNal
<1>4. write_packet(order, s.dts, s.pts, size + sets, all, "advance")
  BY <1>1, <1>3
<1>5. pc' = "packets" /\ back' = "advance" /\ pes'.stream = order /\ pes'.pieces = all
  BY <1>4 DEF write_packet
<1>6. one \in Piece /\ one.sample = first[order] /\ one.from = 0 /\ one.to = s.size /\ one.from < one.to
  BY <1>2 DEF Piece
<1>7. streams[order].pieces = <<>>
  BY <1>1, <1>2 DEF Base, Hands
<1>8. Copied(order) = 0 /\ \A j \in DOMAIN frags \ {order} : Copied(j)' = Copied(j)
  BY <1>1 DEF Copied, Writes
<1>9. Copied(order)' = s.size
  <2>1. Playable(order)' /\ Bytes(order, first[order])' = s.size
    BY <1>1, <1>2 DEF Playable, Head1, Bytes, Audio
  <2> QED BY <1>1, <1>5, <2>1 DEF Copied, Writes
<1>10. \A j \in DOMAIN frags \ {order} : InHand(j)' = InHand(j)
  BY <1>1, <1>5, HandsBoth
<1>11. InHand(order)' = all /\ InHand(order) = <<>>
  BY <1>1, <1>2, <1>5, <1>7, HandsBoth
<1>12. all = Append(<<>>, one)
  OBVIOUS
<1>13. Spread
  BY <1>4 DEF Spread, write_packet, write_tables, BucketInsert
<1> HIDE DEF s, size, sets, one, all
<1> QED BY <1>1, <1>2, <1>6, <1>8, <1>9, <1>10, <1>11, <1>12, <1>13 DEF Fills, Same

LEMMA WrittenMoves ==
  ASSUME Base, [Next]_vars, PacketWritten
  PROVE  Moves
<1>1. /\ pc = "packets" /\ pes.stream \in DOMAIN frags
      /\ \A j \in DOMAIN frags :
           IF Audio(j) /\ j = pes.stream THEN streams'[j].pieces = <<>>
                                         ELSE streams'[j] = streams[j]
      /\ pes' = NoPes /\ pc' = back
      /\ UNCHANGED <<frags, first, order, rest, stage, back>>
  BY FieldsPacketWritten
<1>2. PICK u \in Unit : /\ out' = Append(out, u)
                        /\ u.stream = pes.stream /\ u.pieces = pes.pieces
  BY FieldsPacketWritten
<1>3. pc' \in {"sample", "copy", "advance"}
  BY <1>1 DEF Base, IInv, Turns
<1>4. \A j \in DOMAIN frags : Copied(j)' = Copied(j)
  BY <1>1, <1>3 DEF Copied, Writes, Done1, Head1, Playable, Bytes, Audio
<1>5. \A j \in DOMAIN frags : streams[j].pieces # <<>> => Audio(j) /\ j = pes.stream
  BY <1>1 DEF Base, Hands, Writes, IInv, Turns
<1>6. \A j \in DOMAIN frags : /\ InHand(j)' = <<>>
                              /\ j # pes.stream => InHand(j) = <<>>
  BY <1>1, <1>3, <1>5, HandsBoth
<1>7. InHand(pes.stream) = pes.pieces /\ pes.pieces # <<>>
  BY <1>1, HandsBoth DEF Base, Hands
<1> QED BY <1>1, <1>2, <1>4, <1>6, <1>7 DEF Moves

LEMMA AdvanceTakes ==
  ASSUME Base, [Next]_vars, Advance
  PROVE  Takes
<1>1. pc = "advance" /\ pc' = "pick" /\ UNCHANGED <<out, streams>>
  BY DEF Advance, Go
<1>2. \A j \in DOMAIN frags : Copied(j)' = 0
  BY <1>1 DEF Copied, Writes
<1>3. \A j \in DOMAIN frags : InHand(j)' = InHand(j)
  BY <1>1, HandsBoth
<1> QED BY <1>1, <1>2, <1>3 DEF Takes

LEMMA PieceSteps ==
  ASSUME Base, [Next]_vars
  PROVE  Quiet \/ Fills \/ Moves \/ Takes
BY QuietSteps, CopyFills, VideoFills, WrittenMoves, AdvanceTakes DEF Next

-----------------------------------------------------------------------------
(* The units of a track                                                    *)

\* Unit k is the last of fragment i in the bucket; fragment i has none.
Latest(i, k) ==
  /\ k \in DOMAIN out /\ out[k].stream = i
  /\ \A m \in DOMAIN out : out[m].stream = i => m <= k
Without(i) == \A m \in DOMAIN out : out[m].stream # i

\* Unit k follows unit j of the same track.
Successive(j, k) ==
  /\ j \in DOMAIN out /\ k \in DOMAIN out /\ j < k
  /\ out[j].stream = out[k].stream
  /\ \A m \in DOMAIN out : j < m /\ m < k => out[m].stream # out[k].stream
Earliest(k) == \A m \in DOMAIN out : m < k => out[m].stream # out[k].stream

\* More tables do not matter to the tracks.
LEMMA SpreadKeeps ==
  ASSUME Base, Spread, NEW i \in DOMAIN frags
  PROVE  /\ \A k : Latest(i, k)' <=> Latest(i, k)
         /\ Without(i)' <=> Without(i)
         /\ \A k \in DOMAIN out : k \in DOMAIN out' /\ out'[k] = out[k]
         /\ \A k \in DOMAIN out' : out'[k].stream # 0 => k \in DOMAIN out
         /\ \A j, k : out'[k].stream # 0 => (Successive(j, k)' <=> Successive(j, k))
         /\ \A k \in DOMAIN out : Earliest(k)' <=> Earliest(k)
<1>1. i # 0 /\ out \in Seq(Unit) /\ Len(out) \in Nat /\ DOMAIN out = 1 .. Len(out)
  BY LenProperties DEF Base, TimesTyped, Typed
<1>2. CASE out' = out
  BY <1>2 DEF Latest, Without, Successive, Earliest
<1>3. CASE out' = Append(out, Tables)
  <2>1. /\ DOMAIN out' = 1 .. Len(out) + 1 /\ \A k \in 1 .. Len(out) : out'[k] = out[k]
        /\ out'[Len(out) + 1] = Tables
    BY <1>1, <1>3, TablesUnit, BucketGrows
  <2>2. \A k \in DOMAIN out' : k \in DOMAIN out \/ (k = Len(out) + 1 /\ out'[k].stream = 0)
    BY <1>1, <2>1, TablesUnit
  <2>3. \A k \in DOMAIN out : k \in DOMAIN out' /\ out'[k] = out[k] /\ k < Len(out) + 1
    BY <1>1, <2>1
  <2>4. \A k : Latest(i, k)' <=> Latest(i, k)
    BY <1>1, <2>2, <2>3 DEF Latest
  <2>5. Without(i)' <=> Without(i)
    BY <1>1, <2>2, <2>3 DEF Without
  <2>6. \A j, k : out'[k].stream # 0 => (Successive(j, k)' <=> Successive(j, k))
    BY <1>1, <2>2, <2>3 DEF Successive
  <2>7. \A k \in DOMAIN out : Earliest(k)' <=> Earliest(k)
    BY <1>1, <2>2, <2>3 DEF Earliest
  <2> QED BY <2>2, <2>3, <2>4, <2>5, <2>6, <2>7
<1> QED BY <1>2, <1>3 DEF Spread

\* A unit of fragment s is sent.
LEMMA SendingChanges ==
  ASSUME Base, NEW u \in Unit, u.stream \in DOMAIN frags, out' = Append(out, u)
  PROVE  LET n == Len(out) + 1
         IN  /\ \A i, k : Latest(i, k)' <=> IF i = u.stream THEN k = n ELSE Latest(i, k)
             /\ \A i : Without(i)' <=> Without(i) /\ i # u.stream
             /\ \A k \in DOMAIN out : k \in DOMAIN out' /\ out'[k] = out[k] /\ k < n
             /\ \A k \in DOMAIN out' : k \in DOMAIN out \/ k = n
             /\ n \in DOMAIN out' /\ out'[n] = u /\ n \notin DOMAIN out
             /\ \A j : \A k \in DOMAIN out : Successive(j, k)' <=> Successive(j, k)
             /\ \A k \in DOMAIN out : Earliest(k)' <=> Earliest(k)
             /\ \A j, k : k = n => (Successive(j, k)' <=> Latest(u.stream, j))
             /\ \A k : k = n => (Earliest(k)' <=> Without(u.stream))
<1> DEFINE n == Len(out) + 1
<1>1. out \in Seq(Unit) /\ Len(out) \in Nat /\ DOMAIN out = 1 .. Len(out)
  BY LenProperties DEF Base, Typed
<1>2. DOMAIN out' = 1 .. n /\ (\A k \in 1 .. Len(out) : out'[k] = out[k]) /\ out'[n] = u
  BY <1>1, BucketGrows
<1>3. /\ \A k \in DOMAIN out : k \in DOMAIN out' /\ out'[k] = out[k] /\ k < n /\ k \in Int
      /\ \A k \in DOMAIN out' : k \in DOMAIN out \/ k = n
      /\ n \in DOMAIN out' /\ n \notin DOMAIN out /\ n \in Int
  BY <1>1, <1>2
<1> HIDE DEF n
<1>4. \A i, k : Latest(i, k)' <=> IF i = u.stream THEN k = n ELSE Latest(i, k)
  BY <1>2, <1>3 DEF Latest
<1>5. \A i : Without(i)' <=> Without(i) /\ i # u.stream
  BY <1>2, <1>3 DEF Without
<1>6. \A j : \A k \in DOMAIN out : Successive(j, k)' <=> Successive(j, k)
  BY <1>2, <1>3 DEF Successive
<1>7. \A k \in DOMAIN out : Earliest(k)' <=> Earliest(k)
  BY <1>2, <1>3 DEF Earliest
<1>8. \A j, k : k = n => (Successive(j, k)' <=> Latest(u.stream, j))
  BY <1>2, <1>3 DEF Successive, Latest
<1>9. \A k : k = n => (Earliest(k)' <=> Without(u.stream))
  BY <1>2, <1>3 DEF Earliest, Without
<1> QED BY <1>2, <1>3, <1>4, <1>5, <1>6, <1>7, <1>8, <1>9 DEF n

-----------------------------------------------------------------------------
(* The pieces of a track, one after the other                              *)

Linked(i, pieces) == \A n \in 2 .. Len(pieces) : Follows(i, pieces[n - 1], pieces[n])
Opening(i, p)     == p.from = 0 /\ (Audio(i) => p.sample = 1)

\* The last piece of fragment i ends where the copy of its sample at hand has
\* come to, or with the sample that was taken last.
Ending(i, p) ==
  IF Copied(i) # 0 THEN p.sample = first[i] /\ p.to = Copied(i)
  ELSE /\ p.sample < first[i] /\ p.to = Bytes(i, p.sample)
       /\ Audio(i) => p.sample = first[i] - 1

\* The other pieces end before that.
Earlier(i, p) == p.sample < first[i] \/ (p.sample = first[i] /\ p.to < Copied(i))

Joined(i) ==
  /\ Linked(i, InHand(i))
  /\ InHand(i) # <<>> =>
       /\ Without(i) => Opening(i, InHand(i)[1])
       /\ \A k : Latest(i, k) => Follows(i, Last(out[k].pieces), InHand(i)[1])
Closed(i) ==
  /\ InHand(i) # <<>> => Ending(i, Last(InHand(i)))
  /\ InHand(i) = <<>> =>
       /\ \A k : Latest(i, k) => Ending(i, Last(out[k].pieces))
       /\ Without(i) => Copied(i) = 0 /\ (Audio(i) => first[i] = 1)
Begun(i) ==
  /\ \A n \in DOMAIN InHand(i) : Earlier(i, InHand(i)[n]) \/ n = Len(InHand(i))
  /\ \A k \in DOMAIN out : out[k].stream = i => \A n \in DOMAIN out[k].pieces :
       \/ Earlier(i, out[k].pieces[n])
       \/ Latest(i, k) /\ n = Len(out[k].pieces) /\ InHand(i) = <<>>
Told(k) ==
  LET i == out[k].stream
  IN  i # 0 => /\ Linked(i, out[k].pieces)
               /\ Earliest(k) => Opening(i, out[k].pieces[1])
               /\ \A j : Successive(j, k) => Follows(i, Last(out[j].pieces), out[k].pieces[1])

Story == /\ \A i \in DOMAIN frags : Joined(i) /\ Closed(i) /\ Begun(i)
         /\ \A k \in DOMAIN out : Told(k)

LEMMA HandTyped ==
  ASSUME Base
  PROVE  /\ \A i \in DOMAIN frags : /\ InHand(i) \in Seq(Piece) /\ first[i] \in Nat
                                    /\ Len(InHand(i)) \in Nat
                                    /\ DOMAIN InHand(i) = 1 .. Len(InHand(i))
                                    /\ InHand(i) # <<>> => Len(InHand(i)) >= 1
         /\ \A k \in DOMAIN out : /\ out[k].pieces \in Seq(Piece)
                                  /\ Len(out[k].pieces) \in Nat
                                  /\ DOMAIN out[k].pieces = 1 .. Len(out[k].pieces)
                                  /\ out[k].pieces # <<>> => Len(out[k].pieces) >= 1
<1>1. \A i \in DOMAIN frags : InHand(i) \in Seq(Piece) /\ first[i] \in Nat
  BY HandNow, SMTT(60) DEF Base, Typed, IInv, Turns, FragsTyped
<1>2. \A k \in DOMAIN out : out[k].pieces \in Seq(Piece)
  <2>1. \A k \in DOMAIN out : out[k] \in Unit
    BY DEF Base, Typed
  <2> QED BY <2>1 DEF Unit
<1>3. \A q \in Seq(Piece) : /\ Len(q) \in Nat /\ DOMAIN q = 1 .. Len(q)
                            /\ q # <<>> => Len(q) >= 1
  BY EmptySeq, LenProperties
<1> QED BY <1>1, <1>2, <1>3

\* A track that is not touched while tables are written at most.
LEMMA TrackKeeps ==
  ASSUME Base, Story, [Next]_vars, Spread, first' = first, NEW i \in DOMAIN frags, Same(i)
  PROVE  Joined(i)' /\ Closed(i)' /\ Begun(i)'
<1>1. frags' = frags /\ Audio(i)' = Audio(i)
  BY BaseKeeps DEF Audio
<1>2. /\ \A k : Latest(i, k)' <=> Latest(i, k)
      /\ Without(i)' <=> Without(i)
      /\ \A k \in DOMAIN out : k \in DOMAIN out' /\ out'[k] = out[k]
      /\ \A k \in DOMAIN out' : out'[k].stream # 0 => k \in DOMAIN out
  BY SpreadKeeps
<1>3. \A k : Latest(i, k) => k \in DOMAIN out /\ out'[k] = out[k]
  BY <1>2 DEF Latest
<1>4. InHand(i)' = InHand(i) /\ Copied(i)' = Copied(i) /\ i # 0
  BY DEF Same, Base, TimesTyped
<1>5. Joined(i) /\ Closed(i) /\ Begun(i)
  BY DEF Story
<1>6. Joined(i)'
  BY <1>1, <1>2, <1>3, <1>4, <1>5 DEF Joined, Linked, Opening, Follows, Bytes
<1>7. Closed(i)'
  BY <1>1, <1>2, <1>3, <1>4, <1>5 DEF Closed, Ending, Bytes
<1>8. Begun(i)'
  BY <1>1, <1>2, <1>3, <1>4, <1>5 DEF Begun, Earlier
<1> QED BY <1>6, <1>7, <1>8

\* Tables do not disturb what was sent.
LEMMA ToldKeeps ==
  ASSUME Base, Story, [Next]_vars, Spread
  PROVE  \A k \in DOMAIN out' : Told(k)'
<1>1. frags' = frags /\ \A i : Audio(i)' = Audio(i)
  BY BaseKeeps DEF Audio
<1>2. ASSUME NEW k \in DOMAIN out', out'[k].stream # 0 PROVE Told(k)'
  <2>0. PICK i \in DOMAIN frags : TRUE
    BY <1>1, <1>2, BaseNext DEF Base, Typed
  <2>1. k \in DOMAIN out /\ out'[k] = out[k]
    BY <1>2, <2>0, SpreadKeeps
  <2>2. Told(k)
    BY <2>1 DEF Story
  <2>3. /\ Earliest(k)' <=> Earliest(k)
        /\ \A j : Successive(j, k)' <=> Successive(j, k)
        /\ \A j : Successive(j, k) => out'[j] = out[j]
    BY <1>2, <2>0, <2>1, SpreadKeeps DEF Successive
  <2> QED BY <1>1, <1>2, <2>1, <2>2, <2>3, SMTT(60) DEF Told, Linked, Opening, Follows, Bytes
<1>3. ASSUME NEW k \in DOMAIN out', out'[k].stream = 0 PROVE Told(k)'
  BY <1>3 DEF Told
<1> QED BY <1>2, <1>3

LEMMA QuietStory ==
  ASSUME Base, Story, [Next]_vars, Quiet
  PROVE  Story'
<1>1. frags' = frags
  BY BaseKeeps
<1> QED BY <1>1, TrackKeeps, ToldKeeps DEF Quiet, Story

\* The new piece goes on where the pieces of its track end.
LEMMA FillsTrack ==
  ASSUME Base, Story, [Next]_vars, Fills
  PROVE  Joined(order)' /\ Closed(order)' /\ Begun(order)'
<1> DEFINE i == order
           h == InHand(i)
<1>0. /\ frags' = frags /\ first' = first /\ Spread /\ order' = order /\ i \in DOMAIN frags
      /\ \A j : Audio(j)' = Audio(j)
  BY BaseKeeps DEF Fills, Audio
<1>1. PICK p \in Piece : /\ p.sample = first[i] /\ p.from = Copied(i) /\ p.to = Copied(i)'
                         /\ p.from < p.to /\ InHand(i)' = Append(h, p)
  BY DEF Fills
<1>2. p.sample \in Nat /\ p.from \in Nat /\ p.to \in Nat /\ p.to # 0
  BY <1>1 DEF Piece
<1>3. h \in Seq(Piece) /\ Len(h) \in Nat /\ DOMAIN h = 1 .. Len(h) /\ (h # <<>> => Len(h) >= 1)
  BY <1>0, HandTyped
<1>4. /\ \A k : Latest(i, k)' <=> Latest(i, k)
      /\ Without(i)' <=> Without(i)
      /\ \A k \in DOMAIN out : k \in DOMAIN out' /\ out'[k] = out[k]
      /\ \A k \in DOMAIN out' : out'[k].stream # 0 => k \in DOMAIN out
  BY <1>0, SpreadKeeps
<1>5. \A k : Latest(i, k) => k \in DOMAIN out /\ out'[k] = out[k]
  BY <1>4 DEF Latest
<1>6. Joined(i) /\ Closed(i) /\ Begun(i)
  BY <1>0 DEF Story
<1>7. PICK g : g = InHand(i)'
  OBVIOUS
<1>8. /\ Len(g) = Len(h) + 1 /\ DOMAIN g = 1 .. Len(h) + 1 /\ g # <<>>
      /\ \A n \in 1 .. Len(h) : g[n] = h[n]
      /\ g[Len(h) + 1] = p /\ Last(g) = p
  <2>1. g = Append(h, p)
    BY <1>1, <1>7
  <2> HIDE DEF h
  <2>2. g \in Seq(Piece) /\ Len(g) = Len(h) + 1 /\ g[Len(h) + 1] = p
        /\ \A n \in 1 .. Len(h) : g[n] = h[n]
    BY <1>3, <2>1, AppendProperties
  <2> QED BY <1>3, <2>2, LenProperties, EmptySeq DEF Last
<1>9. \A q : Ending(i, q) /\ q.sample \in Int => Follows(i, q, p)
  <2> SUFFICES ASSUME NEW q, Ending(i, q), q.sample \in Int PROVE Follows(i, q, p)
    OBVIOUS
  <2>1. CASE Copied(i) # 0
    BY <1>1, <2>1 DEF Ending, Follows
  <2>2. CASE Copied(i) = 0
    BY <1>1, <1>2, <2>2 DEF Ending, Follows
  <2> QED BY <2>1, <2>2
<1>10. Joined(i)'
  <2>1. Linked(i, g)
    <3> SUFFICES ASSUME NEW n \in 2 .. Len(g) PROVE Follows(i, g[n - 1], g[n])
      BY DEF Linked
    <3>1. CASE n = Len(h) + 1
      <4>1. h # <<>>
        BY <1>3, <3>1
      <4>2. Ending(i, Last(h)) /\ g[n - 1] = Last(h) /\ Last(h) \in Piece
        BY <1>3, <1>6, <1>8, <3>1, <4>1 DEF Closed, Last
      <4> QED BY <1>8, <1>9, <3>1, <4>2 DEF Piece
    <3>2. CASE n # Len(h) + 1
      <4>1. n \in 2 .. Len(h) /\ n - 1 \in 1 .. Len(h) /\ n \in 1 .. Len(h)
        BY <1>3, <1>8, <3>2
      <4> QED BY <1>6, <1>8, <4>1 DEF Joined, Linked
    <3> QED BY <3>1, <3>2
  <2>2. CASE h # <<>>
    <3>1. g[1] = h[1]
      BY <1>3, <1>8, <2>2
    <3> QED BY <1>0, <1>4, <1>5, <1>6, <1>7, <2>1, <2>2, <3>1 DEF Joined, Linked, Opening, Follows, Bytes
  <2>3. CASE h = <<>>
    <3>1. g[1] = p
      BY <1>8, <2>3
    <3>2. Without(i) => Opening(i, p)
      BY <1>1, <1>6, <2>3 DEF Closed, Opening
    <3>3. \A k : Latest(i, k) => Follows(i, Last(out[k].pieces), p)
      <4> SUFFICES ASSUME NEW k, Latest(i, k) PROVE Follows(i, Last(out[k].pieces), p)
        OBVIOUS
      <4>1. Ending(i, Last(out[k].pieces)) /\ k \in DOMAIN out /\ out[k].stream # 0
        BY <1>0, <1>6, <2>3 DEF Closed, Latest, Base, TimesTyped
      <4>2. Last(out[k].pieces) \in Piece
        BY <4>1, HandTyped DEF Base, Typed, Last
      <4> QED BY <1>9, <4>1, <4>2 DEF Piece
    <3> QED BY <1>0, <1>4, <1>5, <1>7, <2>1, <3>1, <3>2, <3>3 DEF Joined, Linked, Opening, Follows, Bytes
  <2> QED BY <2>2, <2>3
<1>11. Closed(i)'
  BY <1>0, <1>1, <1>2, <1>7, <1>8 DEF Closed, Ending
<1>12. \A q \in Piece : Earlier(i, q) \/ Ending(i, q) => Earlier(i, q)'
  <2> SUFFICES ASSUME NEW q \in Piece, Earlier(i, q) \/ Ending(i, q)
               PROVE  q.sample < first[i] \/ (q.sample = first[i] /\ q.to < p.to)
    BY <1>0, <1>1 DEF Earlier
  <2>1. q.to \in Nat /\ (q.sample = first[i] => q.to <= p.from)
    BY <1>1, <1>2 DEF Earlier, Ending, Piece
  <2> QED BY <1>1, <1>2, <2>1 DEF Earlier, Ending, Piece
<1>13. Begun(i)'
  <2>1. ASSUME NEW n \in DOMAIN g, n # Len(g) PROVE Earlier(i, g[n])'
    <3>1. n \in DOMAIN h /\ g[n] = h[n] /\ h[n] \in Piece
      BY <1>3, <1>8, <2>1
    <3>2. Earlier(i, h[n]) \/ Ending(i, h[n])
      <4>1. CASE n = Len(h)
        BY <1>3, <1>6, <3>1, <4>1 DEF Closed, Last
      <4>2. CASE n # Len(h)
        BY <1>6, <3>1, <4>2 DEF Begun
      <4> QED BY <4>1, <4>2
    <3> QED BY <1>12, <3>1, <3>2
  <2>2. ASSUME NEW k \in DOMAIN out', out'[k].stream = i, NEW n \in DOMAIN out'[k].pieces
        PROVE  Earlier(i, out[k].pieces[n])'
    <3>1. k \in DOMAIN out /\ out'[k] = out[k] /\ i # 0
      BY <1>0, <1>4, <2>2 DEF Base, TimesTyped
    <3>2. out[k].pieces[n] \in Piece
      BY <2>2, <3>1, HandTyped
    <3>3. Earlier(i, out[k].pieces[n]) \/ Ending(i, out[k].pieces[n])
      <4>1. CASE Earlier(i, out[k].pieces[n])
        BY <4>1
      <4>2. CASE Latest(i, k) /\ n = Len(out[k].pieces) /\ h = <<>>
        BY <1>6, <4>2 DEF Closed, Last
      <4> QED BY <1>6, <2>2, <3>1, <4>1, <4>2 DEF Begun
    <3> QED BY <1>12, <3>1, <3>2, <3>3
  <2> QED BY <1>0, <1>7, <2>1, <2>2 DEF Begun, Earlier
<1> QED BY <1>0, <1>10, <1>11, <1>13

LEMMA FillsStory ==
  ASSUME Base, Story, [Next]_vars, Fills
  PROVE  Story'
<1>1. frags' = frags /\ order' = order
  BY BaseKeeps DEF Fills
<1>2. \A i \in DOMAIN frags : Joined(i)' /\ Closed(i)' /\ Begun(i)'
  <2> SUFFICES ASSUME NEW i \in DOMAIN frags PROVE Joined(i)' /\ Closed(i)' /\ Begun(i)'
    OBVIOUS
  <2>1. CASE i = order
    <3>1. Joined(order)' /\ Closed(order)' /\ Begun(order)'
      BY FillsTrack
    <3> QED BY <1>1, <2>1, <3>1 DEF Joined, Closed, Begun, Linked, Opening, Follows, Bytes, Audio,
              Ending, Earlier, Latest, Without
  <2>2. CASE i # order
    BY <2>2, TrackKeeps DEF Fills
  <2> QED BY <2>1, <2>2
<1> QED BY <1>1, <1>2, ToldKeeps DEF Story, Fills

LEMMA MovesStory ==
  ASSUME Base, Story, [Next]_vars, Moves
  PROVE  Story'
<1>0. /\ frags' = frags /\ first' = first /\ order' = order
      /\ \A j : Audio(j)' = Audio(j)
      /\ \A j \in DOMAIN frags : Copied(j)' = Copied(j)
  BY BaseKeeps DEF Moves, Audio
<1>1. PICK u \in Unit : /\ out' = Append(out, u) /\ u.stream \in DOMAIN frags
                        /\ u.pieces = InHand(u.stream) /\ u.pieces # <<>>
                        /\ \A i \in DOMAIN frags : /\ InHand(i)' = <<>>
                                                   /\ i # u.stream => InHand(i) = <<>>
  BY DEF Moves
<1> DEFINE s == u.stream
           N == Len(out) + 1
<1>2. /\ \A i, k : Latest(i, k)' <=> IF i = s THEN k = N ELSE Latest(i, k)
      /\ \A i : Without(i)' <=> Without(i) /\ i # s
      /\ \A k \in DOMAIN out : k \in DOMAIN out' /\ out'[k] = out[k] /\ k < N
      /\ \A k \in DOMAIN out' : k \in DOMAIN out \/ k = N
      /\ N \in DOMAIN out' /\ out'[N] = u /\ N \notin DOMAIN out
      /\ \A j : \A k \in DOMAIN out : Successive(j, k)' <=> Successive(j, k)
      /\ \A k \in DOMAIN out : Earliest(k)' <=> Earliest(k)
      /\ \A j, k : k = N => (Successive(j, k)' <=> Latest(s, j))
      /\ \A k : k = N => (Earliest(k)' <=> Without(s))
  BY <1>1, SendingChanges
<1> HIDE DEF N
<1>3. s \in DOMAIN frags /\ s # 0 /\ out'[N].stream = s /\ out'[N].pieces = u.pieces
  BY <1>1, <1>2 DEF Base, TimesTyped
<1>4. \A i \in DOMAIN frags : Joined(i) /\ Closed(i) /\ Begun(i)
  BY DEF Story
<1>5. \A i, k : Latest(i, k) => k \in DOMAIN out /\ out'[k] = out[k]
  BY <1>2 DEF Latest
<1>6. ASSUME NEW i \in DOMAIN frags PROVE Joined(i)' /\ Closed(i)' /\ Begun(i)'
  <2>1. InHand(i)' = <<>> /\ Copied(i)' = Copied(i) /\ i # 0
    BY <1>0, <1>1 DEF Base, TimesTyped
  <2>2. Len(<<>>) = 0 /\ DOMAIN <<>> = {}
    OBVIOUS
  <2>3. Joined(i)'
    BY <1>0, <2>1, <2>2 DEF Joined, Linked
  <2>4. CASE i = s
    <3>1. Ending(i, Last(u.pieces))
      BY <1>1, <1>4, <2>4 DEF Closed
    <3>2. Closed(i)'
      BY <1>0, <1>2, <1>3, <2>1, <2>4, <3>1 DEF Closed, Ending, Bytes
    <3>3. \A k \in DOMAIN out : out[k].stream = i =>
            \A n \in DOMAIN out[k].pieces : Earlier(i, out[k].pieces[n])
      BY <1>1, <1>4, <2>4 DEF Begun
    <3>4. \A n \in DOMAIN u.pieces : Earlier(i, u.pieces[n]) \/ n = Len(u.pieces)
      BY <1>1, <1>4, <2>4 DEF Begun
    <3>5. \A k \in DOMAIN out' : out'[k].stream = i => \A n \in DOMAIN out'[k].pieces :
            \/ Earlier(i, out'[k].pieces[n])
            \/ k = N /\ n = Len(out'[k].pieces)
      BY <1>2, <1>3, <3>3, <3>4
    <3>6. Begun(i)'
      BY <1>0, <1>2, <2>1, <2>2, <2>4, <3>5 DEF Begun, Earlier
    <3> QED BY <2>3, <3>2, <3>6
  <2>5. CASE i # s
    <3>1. InHand(i) = <<>>
      BY <1>1, <1>6, <2>5
    <3>2. /\ \A k : Latest(i, k) => Ending(i, Last(out[k].pieces))
          /\ Without(i) => Copied(i) = 0 /\ (Audio(i) => first[i] = 1)
      BY <1>4, <3>1 DEF Closed
    <3>3. Closed(i)'
      BY <1>0, <1>2, <1>5, <2>1, <2>5, <3>2 DEF Closed, Ending, Bytes
    <3>4. \A k \in DOMAIN out' : out'[k].stream = i => k \in DOMAIN out /\ out'[k] = out[k]
      BY <1>2, <1>3, <2>5
    <3>5. \A k \in DOMAIN out : out[k].stream = i => \A n \in DOMAIN out[k].pieces :
            \/ Earlier(i, out[k].pieces[n])
            \/ Latest(i, k) /\ n = Len(out[k].pieces)
      BY <1>4, <3>1 DEF Begun
    <3>6. Begun(i)'
      BY <1>0, <1>2, <2>1, <2>2, <2>5, <3>4, <3>5 DEF Begun, Earlier
    <3> QED BY <2>3, <3>3, <3>6
  <2> QED BY <2>4, <2>5
<1>7. ASSUME NEW k \in DOMAIN out' PROVE Told(k)'
  <2>1. CASE k \in DOMAIN out
    <3>1. out'[k] = out[k] /\ Told(k)
      BY <1>2, <2>1 DEF Story
    <3>2. \A j : Successive(j, k) => out'[j] = out[j]
      BY <1>2 DEF Successive
    <3> QED BY <1>0, <1>2, <2>1, <3>1, <3>2, SMTT(60) DEF Told, Linked, Opening, Follows, Bytes
  <2>2. CASE k = N
    <3>1. /\ Linked(s, u.pieces)
          /\ Without(s) => Opening(s, u.pieces[1])
          /\ \A j : Latest(s, j) => Follows(s, Last(out[j].pieces), u.pieces[1])
      BY <1>1, <1>4 DEF Joined
    <3> QED BY <1>0, <1>2, <1>3, <1>5, <2>2, <3>1, SMTT(60) DEF Told, Linked, Opening, Follows, Bytes
  <2> QED BY <1>2, <1>7, <2>1, <2>2
<1> QED BY <1>0, <1>6, <1>7 DEF Story

LEMMA TakesStory ==
  ASSUME Base, Story, [Next]_vars, Takes
  PROVE  Story'
<1>0. /\ frags' = frags /\ out' = out /\ pc = "advance" /\ order \in DOMAIN frags
      /\ \A j : Audio(j)' = Audio(j)
      /\ \A j \in DOMAIN frags : InHand(j)' = InHand(j) /\ Copied(j)' = 0
  BY BaseKeeps, AtHand DEF Takes, Audio, Advance
<1>1. \A j \in DOMAIN frags : /\ first[j] \in Nat
                              /\ first'[j] = IF j = order THEN first[j] + 1 ELSE first[j]
  BY HandTyped DEF Takes, Advance, Base, IInv, Turns
<1>2. \A j \in DOMAIN frags : Joined(j) /\ Closed(j) /\ Begun(j)
  BY DEF Story
<1>3. ASSUME NEW k \in DOMAIN out PROVE Told(k)'
  <2>1. Told(k)
    BY <1>3 DEF Story
  <2>2. (Earliest(k)' <=> Earliest(k)) /\ \A j : Successive(j, k)' <=> Successive(j, k)
    BY <1>0 DEF Earliest, Successive
  <2> QED BY <1>0, <2>1, <2>2 DEF Told, Linked, Opening, Follows, Bytes
<1>4. ASSUME NEW i \in DOMAIN frags PROVE Joined(i)' /\ Closed(i)' /\ Begun(i)'
  <2>1. InHand(i)' = InHand(i) /\ Copied(i)' = 0 /\ first[i] \in Nat
    BY <1>0, <1>1
  <2>2. \A k : Latest(i, k)' <=> Latest(i, k)
    BY <1>0 DEF Latest
  <2>3. Without(i)' <=> Without(i)
    BY <1>0 DEF Without
  <2>4. Joined(i)'
    BY <1>0, <1>2, <2>1, <2>2, <2>3 DEF Joined, Linked, Opening, Follows, Bytes
  <2>5. Copied(i) # 0 => i = order /\ Copied(i) = Bytes(i, first[i])
    BY <1>0 DEF Copied, Writes
  <2>6. Audio(i) /\ i = order => Copied(i) # 0
    BY <1>0, AtHand DEF Copied, Bytes, AdtsSize, Head1, Writes
  <2>7. \A q : Ending(i, q) => Ending(i, q)' \/ q.sample \notin Int
    <3> SUFFICES ASSUME NEW q, Ending(i, q), q.sample \in Int
                 PROVE  /\ q.sample < first'[i] /\ q.to = Bytes(i, q.sample)
                        /\ Audio(i) => q.sample = first'[i] - 1
      BY <1>0, <2>1 DEF Ending, Bytes
    <3>1. CASE Copied(i) # 0
      BY <1>1, <2>1, <2>5, <3>1 DEF Ending
    <3>2. CASE Copied(i) = 0
      BY <1>1, <2>1, <2>6, <3>2 DEF Ending
    <3> QED BY <3>1, <3>2
  <2>8. InHand(i) # <<>> => Last(InHand(i)).sample \in Int
    <3>1. InHand(i) # <<>> => Last(InHand(i)) \in Piece
      BY HandTyped DEF Last
    <3> QED BY <3>1 DEF Piece
  <2>9. \A k : Latest(i, k) => Last(out[k].pieces).sample \in Int
    <3> SUFFICES ASSUME NEW k, Latest(i, k) PROVE Last(out[k].pieces).sample \in Int
      OBVIOUS
    <3>1. k \in DOMAIN out /\ out[k].stream # 0
      BY DEF Latest, Base, TimesTyped
    <3>2. Last(out[k].pieces) \in Piece
      BY <3>1, HandTyped DEF Last, Base, Typed
    <3> QED BY <3>2 DEF Piece
  <2>10. Closed(i)'
    <3>1. ASSUME InHand(i) # <<>> PROVE Ending(i, Last(InHand(i)))'
      <4>1. PICK q : q = Last(InHand(i))
        OBVIOUS
      <4>2. Ending(i, q)'
        BY <1>2, <2>7, <2>8, <3>1, <4>1 DEF Closed
      <4> QED BY <2>1, <4>1, <4>2 DEF Ending
    <3>2. ASSUME InHand(i) = <<>>, NEW k, Latest(i, k) PROVE Ending(i, Last(out[k].pieces))'
      <4>1. PICK q : q = Last(out[k].pieces)
        OBVIOUS
      <4>2. Ending(i, q)'
        BY <1>2, <2>7, <2>9, <3>2, <4>1 DEF Closed
      <4> QED BY <1>0, <4>1, <4>2 DEF Ending
    <3>3. ASSUME InHand(i) = <<>>, Without(i) PROVE Audio(i) => first'[i] = 1
      BY <1>1, <1>2, <2>6, <3>3 DEF Closed
    <3> QED BY <1>0, <2>1, <2>2, <2>3, <3>1, <3>2, <3>3 DEF Closed
  <2>11. \A q \in Piece : Earlier(i, q) => Earlier(i, q)'
    BY <1>1, <2>1, <2>5 DEF Earlier, Piece
  <2>12. Begun(i)'
    <3>1. ASSUME NEW n \in DOMAIN InHand(i) PROVE Earlier(i, InHand(i)[n])' \/ n = Len(InHand(i))
      <4>1. PICK q : q = InHand(i)[n]
        OBVIOUS
      <4>2. q \in Piece
        BY <3>1, <4>1, HandTyped
      <4> QED BY <1>2, <2>1, <2>11, <4>1, <4>2 DEF Begun, Earlier
    <3>2. ASSUME NEW k \in DOMAIN out, out[k].stream = i, NEW n \in DOMAIN out[k].pieces
          PROVE  \/ Earlier(i, out[k].pieces[n])'
                 \/ Latest(i, k) /\ n = Len(out[k].pieces) /\ InHand(i) = <<>>
      <4>1. PICK q : q = out[k].pieces[n]
        OBVIOUS
      <4>2. q \in Piece
        BY <3>2, <4>1, HandTyped
      <4> QED BY <1>0, <1>2, <2>11, <3>2, <4>1, <4>2 DEF Begun, Earlier
    <3> QED BY <1>0, <2>1, <2>2, <3>1, <3>2 DEF Begun
  <2> QED BY <2>4, <2>10, <2>12
<1> QED BY <1>0, <1>3, <1>4 DEF Story

LEMMA StoryInit == Init => Story
<1> SUFFICES ASSUME Init PROVE Story
  OBVIOUS
<1>1. /\ streams = [i \in DOMAIN frags |-> mpegts_stream_init] /\ pc = "pick" /\ out = <<>>
      /\ first = [i \in DOMAIN frags |-> 1] /\ pes = NoPes /\ DOMAIN out = {}
  BY DEF Init
<1>2. ASSUME NEW i \in DOMAIN frags PROVE Joined(i) /\ Closed(i) /\ Begun(i)
  <2>1. InHand(i) = <<>>
    BY <1>1, <1>2, BaseInit, HandNow DEF mpegts_stream_init
  <2>2. Copied(i) = 0 /\ first[i] = 1
    BY <1>1, <1>2 DEF Copied, Writes
  <2>3. Len(<<>>) = 0 /\ DOMAIN <<>> = {}
    OBVIOUS
  <2> QED BY <1>1, <2>1, <2>2, <2>3 DEF Joined, Closed, Begun, Linked, Latest
<1> QED BY <1>1, <1>2 DEF Story

LEMMA StoryNext ==
  ASSUME Base, Story, [Next]_vars
  PROVE  Story'
BY PieceSteps, QuietStory, FillsStory, MovesStory, TakesStory

LEMMA StoryAlways == Spec => []Story
<1>1. Base /\ Story /\ [Next]_vars => Story'
  BY StoryNext
<1> QED BY <1>1, StoryInit, BaseAlways, PTL DEF Spec

LEMMA NatMin ==
  ASSUME NEW A, NEW x \in A, A \subseteq Nat
  PROVE  \E n \in A : \A m \in A : n <= m
<1>1. PICK n \in A : \A m \in A : ~ (<<m, n>> \in OpToRel(<, Nat))
  BY WFMin, NatLessThanWellFounded
<1>2. \A m \in A : ~ (m < n)
  BY <1>1 DEF OpToRel
<1> QED BY <1>2

LEMMA SomeLatest ==
  ASSUME Base, NEW i, ~ Without(i)
  PROVE  \E k : Latest(i, k)
<1>1. out \in Seq(Unit) /\ Len(out) \in Nat /\ DOMAIN out = 1 .. Len(out)
  BY LenProperties DEF Base, Typed
<1> DEFINE A == {d \in Nat : \E k \in DOMAIN out : out[k].stream = i /\ d = Len(out) - k}
<1>2. PICK k0 \in DOMAIN out : out[k0].stream = i
  BY DEF Without
<1>3. Len(out) - k0 \in A
  BY <1>1, <1>2
<1>4. PICK d \in A : \A m \in A : d <= m
  <2> HIDE DEF A
  <2> QED BY <1>3, NatMin DEF A
<1>5. PICK k \in DOMAIN out : out[k].stream = i /\ d = Len(out) - k
  BY <1>4
<1>6. ASSUME NEW m \in DOMAIN out, out[m].stream = i PROVE m <= k
  <2>1. Len(out) - m \in A
    BY <1>1, <1>6
  <2>2. d <= Len(out) - m
    BY <1>4, <2>1
  <2> QED BY <1>1, <1>5, <2>2
<1> QED BY <1>5, <1>6 DEF Latest

\* Every track has a sample, and the end is reached when none is left.
Over ==
  /\ \A i \in DOMAIN frags : Len(frags[i].samples) > 0
  /\ pc = "done" => \A i \in DOMAIN frags : ~ Left(i)

LEMMA OverInit == Init => Over
<1> SUFFICES ASSUME Init, NEW i \in DOMAIN frags PROVE Len(frags[i].samples) > 0
  BY DEF Init, Over
<1> DEFINE Sample == [dts : Nat, cto : Nat, size : Nat \ {0}, ok : BOOLEAN]
<1>1. PICK sg \in Segments : frags = [j \in DOMAIN sg |-> Converted(sg[j])]
  BY DEF Init
<1>2. i \in DOMAIN sg /\ frags[i] = Converted(sg[i])
  BY <1>1
<1> DEFINE q == sg[i].samples
           s(k) == [dts |-> Clock(q[k].dts, sg[i].scale),
                    pts |-> Clock(q[k].dts, sg[i].scale) + Clock(q[k].cto, sg[i].scale),
                    size |-> q[k].size, ok |-> q[k].ok]
<1>3. q \in Seq(Sample) /\ q # <<>>
  BY <1>2, TsMuxAssumption DEF IsSegment
<1>4. frags[i].samples = [k \in DOMAIN q |-> s(k)]
  BY <1>2 DEF Converted
<1> HIDE DEF Sample, q, s
<1>5. Len(q) \in Nat /\ DOMAIN q = 1 .. Len(q) /\ Len(q) > 0
  BY <1>3, EmptySeq, LenProperties
<1> QED BY <1>4, <1>5

LEMMA OverNext ==
  ASSUME Base, Over, [Next]_vars
  PROVE  Over'
<1>1. frags' = frags
  BY BaseKeeps
<1>2. CASE pc = "done"
  <2>1. UNCHANGED <<first, pc>>
    BY <1>2 DEF Next, vars, Pick, StartAudio, Copy, CopyData, AudioCopied, WriteVideo, WritePacket,
                PacketWritten, Advance, Finish
  <2> QED BY <1>1, <2>1 DEF Over, Left
<1>3. CASE Finish
  BY <1>1, <1>3 DEF Over, Finish, Left
<1>4. CASE pc # "done" /\ ~ Finish
  <2>1. pc' # "done"
    <3>1. CASE PacketWritten
      BY <3>1 DEF PacketWritten, Base, IInv, Turns
    <3>2. CASE ~ PacketWritten
      BY <1>4, <3>2 DEF Next, vars, Pick, StartAudio, Copy, CopyData, AudioCopied, WriteVideo,
                WritePacket, Advance, Go, Flush, write_packet
    <3> QED BY <3>1, <3>2
  <2> QED BY <1>1, <2>1 DEF Over
<1> QED BY <1>2, <1>3, <1>4

\* The story of the pieces is what NothingTorn says of the bucket.
LEMMA StoryGoesOn ==
  ASSUME Base, Story
  PROVE  /\ \A i \in DOMAIN frags : GoesOn(i, InHand(i), Len(out) + 1)
         /\ \A k \in DOMAIN out : out[k].stream # 0 => GoesOn(out[k].stream, out[k].pieces, k)
<1>1. Len(out) \in Nat /\ DOMAIN out = 1 .. Len(out)
  BY LenProperties DEF Base, Typed
<1>2. ASSUME NEW i \in DOMAIN frags PROVE GoesOn(i, InHand(i), Len(out) + 1)
  <2> DEFINE mine == {j \in 1 .. (Len(out) + 1) - 1 : out[j].stream = i}
  <2>1. mine = {j \in DOMAIN out : out[j].stream = i}
    BY <1>1
  <2>2. mine = {} => Without(i)
    BY <2>1 DEF Without
  <2>3. \A j \in mine : (\A m \in mine : m <= j) => Latest(i, j)
    BY <2>1 DEF Latest
  <2>4. Joined(i)
    BY <1>2 DEF Story
  <2> HIDE DEF mine
  <2> QED BY <2>2, <2>3, <2>4 DEF GoesOn, Joined, Linked, Opening, mine
<1>3. ASSUME NEW k \in DOMAIN out, out[k].stream # 0
      PROVE  GoesOn(out[k].stream, out[k].pieces, k)
  <2> DEFINE i == out[k].stream
             mine == {j \in 1 .. k - 1 : out[j].stream = i}
  <2>1. mine = {j \in DOMAIN out : j < k /\ out[j].stream = i}
    BY <1>1, <1>3
  <2>2. mine = {} => Earliest(k)
    BY <2>1 DEF Earliest
  <2>3. ASSUME NEW j \in mine, \A m \in mine : m <= j PROVE Successive(j, k)
    <3>1. j \in DOMAIN out /\ j < k /\ out[j].stream = i
      BY <2>1
    <3>2. \A m \in DOMAIN out : j < m /\ m < k => out[m].stream # i
      BY <1>1, <2>1, <2>3, <3>1
    <3> QED BY <1>3, <3>1, <3>2 DEF Successive
  <2>4. Told(k)
    BY <1>3 DEF Story
  <2> HIDE DEF mine
  <2> QED BY <1>3, <2>2, <2>3, <2>4 DEF GoesOn, Told, Linked, Opening, mine
<1> QED BY <1>2, <1>3

\* write_audio_packet, write_video_packet: whatever the sizes of the samples
\* and the turns of the tracks, payloads that fill up, are flushed early or
\* begin in the middle of a sample neither lose nor double a byte, and at the
\* end all sound has been sent.
THEOREM NothingIsTorn == Spec => []NothingTorn
<1>1. Base /\ Story /\ Over => NothingTorn
  <2> SUFFICES ASSUME Base, Story, Over PROVE NothingTorn
    OBVIOUS
  <2>1. \A k \in DOMAIN out : out[k].stream # 0 => out[k].pieces # <<>>
    BY DEF Base, Typed
  <2>2. ASSUME pc = "done", NEW i \in DOMAIN frags
        PROVE  /\ InHand(i) = <<>>
               /\ Audio(i) => \E k \in DOMAIN out :
                    /\ out[k].stream = i
                    /\ Last(out[k].pieces).sample = Len(frags[i].samples)
                    /\ Last(out[k].pieces).to = Bytes(i, Len(frags[i].samples))
    <3>1. ~ Left(i) /\ Len(frags[i].samples) > 0 /\ Len(frags[i].samples) \in Nat
      BY <2>2 DEF Over, Base, IInv, FragsTyped
    <3>2. first[i] = Len(frags[i].samples) + 1
      BY <3>1, <2>2 DEF Left, Base, IInv, Turns
    <3>3. InHand(i) = <<>>
      BY <2>2, <3>1, HandNow DEF Base, Hands
    <3>4. Copied(i) = 0
      BY <2>2, CopiedNone
    <3>5. ASSUME Audio(i)
          PROVE  \E k \in DOMAIN out :
                    /\ out[k].stream = i
                    /\ Last(out[k].pieces).sample = Len(frags[i].samples)
                    /\ Last(out[k].pieces).to = Bytes(i, Len(frags[i].samples))
      <4>1. ~ Without(i)
        BY <2>2, <3>1, <3>2, <3>3, <3>5 DEF Story, Closed
      <4>2. PICK k : Latest(i, k)
        BY <4>1, SomeLatest
      <4>3. Ending(i, Last(out[k].pieces))
        BY <2>2, <3>3, <4>2 DEF Story, Closed
      <4>4. /\ Last(out[k].pieces).sample = first[i] - 1
            /\ Last(out[k].pieces).to = Bytes(i, Last(out[k].pieces).sample)
        BY <3>4, <3>5, <4>3 DEF Ending
      <4> QED BY <3>1, <3>2, <4>2, <4>4 DEF Latest
    <3> QED BY <3>3, <3>5
  <2> QED BY <2>1, <2>2, StoryGoesOn DEF NothingTorn
<1>2. Base /\ Over /\ [Next]_vars => Over'
  BY OverNext
<1> QED BY <1>1, <1>2, OverInit, StoryAlways, BaseAlways, PTL DEF Spec

-----------------------------------------------------------------------------
(* The merge by decoding time                                              *)

\* What is copied is in hand, or was sent last.
Newest ==
  pc \in {"copy", "advance"} /\ Copied(order) # 0 /\ InHand(order) = <<>> =>
    out # <<>> /\ out[Len(out)].stream = order

LEMMA NewestNext ==
  ASSUME Base, Newest, [Next]_vars
  PROVE  Newest'
<1> SUFFICES ASSUME pc' \in {"copy", "advance"}, Copied(order)' # 0, InHand(order)' = <<>>
             PROVE  out' # <<>> /\ out'[Len(out')].stream = order'
  BY DEF Newest
<1>0. out \in Seq(Unit) /\ Turns /\ Hands /\ frags' = frags
  BY BaseKeeps DEF Base, Typed, IInv
<1>1. CASE Moves
  <2>1. PICK u \in Unit : /\ out' = Append(out, u) /\ u.stream \in DOMAIN frags
                          /\ InHand(u.stream) # <<>>
    BY <1>1 DEF Moves
  <2>2. Len(out') = Len(out) + 1 /\ out'[Len(out) + 1] = u /\ out' \in Seq(Unit) /\ Len(out) \in Nat
    BY <1>0, <2>1, BucketGrows
  <2>3. out' # <<>>
    BY <2>2, EmptySeq
  <2>4. pc = "packets" /\ pc' = back /\ order' = order /\ pes.stream = u.stream
    <3>1. ~ Rests /\ ~ Begins
      BY <1>0, <2>1, <2>2, TablesUnit, BucketGrows DEF Rests, Begins, Base, TimesTyped
    <3>2. PICK v \in Unit : out' = Append(out, v) /\ v.stream = pes.stream /\ pc = "packets"
      BY <3>1, BucketSteps DEF Sends
    <3>3. v = u
      BY <1>0, <2>2, <3>2, BucketGrows
    <3>4. PacketWritten
      BY <1>0, <3>2, <2>2 DEF Next, vars, Pick, StartAudio, Copy, CopyData, AudioCopied, WriteVideo,
         WritePacket, Advance, Finish
    <3> QED BY <1>1, <3>2, <3>3, <3>4 DEF Moves, PacketWritten
  <2>5. u.stream = order
    BY <1>0, <2>4 DEF Hands
  <2> QED BY <2>2, <2>3, <2>4, <2>5
<1>2. CASE Quiet
  <2>1. pc # "packets" => out' = out
    BY <1>2, BucketSteps DEF Rests, Begins, Sends
  <2>2. pc # "packets"
    <3> SUFFICES ASSUME pc = "packets" PROVE FALSE
      OBVIOUS
    <3>1. PacketWritten
      BY DEF Next, vars, Pick, StartAudio, Copy, CopyData, AudioCopied, WriteVideo,
         WritePacket, Advance, Finish
    <3>2. PICK v \in Unit : out' = Append(out, v) /\ v.stream = pes.stream /\ pes.stream # 0
      BY <3>1, FieldsPacketWritten
    <3>3. Len(out') = Len(out) + 1 /\ out'[Len(out) + 1] = v /\ Len(out) \in Nat
      BY <1>0, <3>2, BucketGrows
    <3>4. out' = Append(out, Tables)
      BY <1>2, <3>3 DEF Quiet, Spread
    <3> QED BY <1>0, <3>2, <3>3, <3>4, TablesUnit, BucketGrows
  <2>3. order' = order /\ pc \notin {"pick", "done", "packets"}
    BY <1>0, <2>2 DEF Next, vars, Pick, StartAudio, Copy, CopyData, AudioCopied, WriteVideo,
         WritePacket, PacketWritten, Advance, Finish, Go, Flush, write_packet, Turns
  <2>4. order \in DOMAIN frags
    BY <2>3, AtHand
  <2>5. Copied(order)' = Copied(order) /\ InHand(order)' = InHand(order)
    <3>1. Same(order)
      BY <1>2, <2>4 DEF Quiet
    <3> QED BY <3>1 DEF Same
  <2>6. pc # "sample"
    BY <2>5, CopiedNone
  <2>7. pc \in {"copy", "advance"}
    BY <1>0, <2>3, <2>6 DEF Turns
  <2> QED BY <2>1, <2>2, <2>3, <2>5, <2>7 DEF Newest
<1>3. CASE Fills
  <2>1. \E p \in Piece : InHand(order)' = Append(InHand(order), p)
    BY <1>3 DEF Fills
  <2>2. InHand(order)' # <<>>
    <3>1. PICK p \in Piece : InHand(order)' = Append(InHand(order), p)
      BY <2>1
    <3>2. InHand(order) \in Seq(Piece) /\ Len(InHand(order)) \in Nat
      BY <1>3, HandTyped DEF Fills
    <3>3. Len(Append(InHand(order), p)) = Len(InHand(order)) + 1
      BY <3>1, <3>2, AppendProperties
    <3>4. Append(InHand(order), p) # <<>>
      BY <3>2, <3>3, EmptySeq
    <3> QED BY <3>1, <3>4
  <2> QED BY <2>2
<1>4. CASE Takes
  BY <1>4 DEF Takes, Advance, Go
<1> QED BY <1>1, <1>2, <1>3, <1>4, PieceSteps

\* Piece n of unit k ends sample x; the unit after the last is what is in hand.
IsEnd(x, p) == p.sample = x[2] /\ p.to = Bytes(x[1], x[2])
EndsAt(x, k, n) ==
  \/ /\ k \in DOMAIN out /\ out[k].stream = x[1]
     /\ n \in DOMAIN out[k].pieces /\ IsEnd(x, out[k].pieces[n])
  \/ k = Len(out) + 1 /\ n \in DOMAIN InHand(x[1]) /\ IsEnd(x, InHand(x[1])[n])
Ordered(x, y) ==
  \E k, l, n, m : EndsAt(x, k, n) /\ EndsAt(y, l, m) /\ (k < l \/ (k = l /\ n <= m))

LEMMA BeforeOrdered ==
  Base => \A x, y : x[1] \in DOMAIN frags /\ y[1] \in DOMAIN frags =>
                      (Before(x, y) <=> Ordered(x, y))
<1> SUFFICES ASSUME Base, NEW x, NEW y, x[1] \in DOMAIN frags, y[1] \in DOMAIN frags
             PROVE  Before(x, y) <=> Ordered(x, y)
  OBVIOUS
<1>1. out \in Seq(Unit) /\ Len(out) \in Nat /\ DOMAIN out = 1 .. Len(out)
  BY LenProperties DEF Base, Typed
<1>2. ASSUME NEW i
      PROVE  \A k \in 1 .. Len(out) + 1 :
               Line(i)[k] = IF k \in DOMAIN out THEN out[k] ELSE [stream |-> i, pieces |-> InHand(i)]
  <2> DEFINE r == [stream |-> i, pieces |-> InHand(i)]
             S == Unit \cup {r}
  <2>1. out \in Seq(S) /\ r \in S
    BY <1>1, SeqMonotonic
  <2>2. Line(i) = Append(out, r)
    BY DEF Line
  <2> HIDE DEF r, S
  <2>3. /\ \A k \in 1 .. Len(out) : Line(i)[k] = out[k]
        /\ Line(i)[Len(out) + 1] = r
    BY <2>1, <2>2, AppendProperties
  <2> QED BY <1>1, <2>3 DEF r
<1>3. ASSUME NEW z, NEW k \in 1 .. Len(out) + 1, NEW n
      PROVE  Ends(z, k, n) <=> EndsAt(z, k, n)
  <2>1. CASE k \in DOMAIN out
    <3>0. k # Len(out) + 1
      BY <1>1, <2>1
    <3>1. Line(z[1])[k] = out[k] /\ k # Len(out) + 1
      BY <1>2, <2>1, <3>0
    <3> QED BY <2>1, <3>1 DEF Ends, EndsAt, IsEnd
  <2>2. CASE k \notin DOMAIN out
    <3>1. Line(z[1])[k] = [stream |-> z[1], pieces |-> InHand(z[1])] /\ k = Len(out) + 1
      BY <1>1, <1>2, <2>2
    <3> QED BY <2>2, <3>1 DEF Ends, EndsAt, IsEnd
  <2> QED BY <2>1, <2>2
<1>4. \A z, k, n : EndsAt(z, k, n) => k \in 1 .. Len(out) + 1
  BY <1>1 DEF EndsAt
<1>5. \A z, k, n : Ends(z, k, n) => n \in DOMAIN Line(z[1])[k].pieces
  BY DEF Ends
<1>6. Before(x, y) => Ordered(x, y)
  BY <1>3 DEF Before, Ordered
<1>7. Ordered(x, y) => Before(x, y)
  BY <1>3, <1>4, <1>5 DEF Before, Ordered
<1> QED BY <1>6, <1>7

\* The places of the samples that were taken do not change, or those in hand
\* move behind the tables.
LEMMA EndsKept ==
  ASSUME Base, Story, [Next]_vars, ~ Takes
  PROVE  \/ \A x \in Taken : \A k, n : EndsAt(x, k, n)' <=> EndsAt(x, k, n)
         \/ \A x \in Taken : \A k, n :
              EndsAt(x, k, n)' <=> \/ k \in DOMAIN out /\ EndsAt(x, k, n)
                                   \/ k = Len(out) + 2 /\ EndsAt(x, Len(out) + 1, n)
<1>0. /\ frags' = frags /\ \A j : Audio(j)' = Audio(j)
      /\ \A x \in Taken : x[1] \in DOMAIN frags /\ x[1] # 0 /\ x[2] < first[x[1]]
      /\ \A j \in DOMAIN frags : first[j] \in Nat
  BY BaseKeeps, HandTyped DEF Audio, Taken, Base, TimesTyped
<1>1. out \in Seq(Unit) /\ Len(out) \in Nat /\ DOMAIN out = 1 .. Len(out)
  BY LenProperties DEF Base, Typed
<1>2. \A x, k, n : EndsAt(x, k, n)' <=>
        \/ /\ k \in DOMAIN out' /\ out'[k].stream = x[1]
           /\ n \in DOMAIN out'[k].pieces /\ IsEnd(x, out'[k].pieces[n])
        \/ k = Len(out') + 1 /\ n \in DOMAIN InHand(x[1])' /\ IsEnd(x, InHand(x[1])'[n])
  BY <1>0 DEF EndsAt, IsEnd, Bytes
<1>3. ASSUME Spread,
             \A x \in Taken : \A n :
               (n \in DOMAIN InHand(x[1])' /\ IsEnd(x, InHand(x[1])'[n]))
               <=> (n \in DOMAIN InHand(x[1]) /\ IsEnd(x, InHand(x[1])[n]))
      PROVE  \/ \A x \in Taken : \A k, n : EndsAt(x, k, n)' <=> EndsAt(x, k, n)
             \/ \A x \in Taken : \A k, n :
                  EndsAt(x, k, n)' <=> \/ k \in DOMAIN out /\ EndsAt(x, k, n)
                                       \/ k = Len(out) + 2 /\ EndsAt(x, Len(out) + 1, n)
  <2>1. CASE out' = out
    <3> SUFFICES ASSUME NEW x \in Taken, NEW k, NEW n
                 PROVE  EndsAt(x, k, n)' <=> EndsAt(x, k, n)
      OBVIOUS
    <3>1. (n \in DOMAIN InHand(x[1])' /\ IsEnd(x, InHand(x[1])'[n]))
          <=> (n \in DOMAIN InHand(x[1]) /\ IsEnd(x, InHand(x[1])[n]))
      BY <1>3
    <3>2. EndsAt(x, k, n)' <=>
        \/ /\ k \in DOMAIN out /\ out[k].stream = x[1]
           /\ n \in DOMAIN out[k].pieces /\ IsEnd(x, out[k].pieces[n])
        \/ k = Len(out) + 1 /\ n \in DOMAIN InHand(x[1])' /\ IsEnd(x, InHand(x[1])'[n])
      BY <1>2, <2>1
    <3> QED BY <3>1, <3>2 DEF EndsAt
  <2>2. CASE out' = Append(out, Tables)
    <3>1. /\ DOMAIN out' = 1 .. Len(out) + 1 /\ Len(out') = Len(out) + 1
          /\ \A k \in 1 .. Len(out) : out'[k] = out[k]
          /\ out'[Len(out) + 1] = Tables
      BY <1>1, <2>2, TablesUnit, BucketGrows
    <3> SUFFICES ASSUME NEW x \in Taken, NEW k, NEW n
                 PROVE  EndsAt(x, k, n)' <=> \/ k \in DOMAIN out /\ EndsAt(x, k, n)
                                             \/ k = Len(out) + 2 /\ EndsAt(x, Len(out) + 1, n)
      OBVIOUS
    <3>2. x[1] # 0
      BY <1>0
    <3>3. (k \in DOMAIN out' /\ out'[k].stream = x[1])
          <=> (k \in DOMAIN out /\ out'[k] = out[k] /\ out[k].stream = x[1])
      BY <1>1, <3>1, <3>2, TablesUnit
    <3>4. Len(out') + 1 = Len(out) + 2 /\ Len(out) + 1 \notin DOMAIN out
          /\ (k = Len(out) + 1 => k \notin DOMAIN out)
      BY <1>1, <3>1
    <3>5. EndsAt(x, k, n)' <=>
            \/ k \in DOMAIN out /\ out[k].stream = x[1]
               /\ n \in DOMAIN out[k].pieces /\ IsEnd(x, out[k].pieces[n])
            \/ k = Len(out) + 2 /\ n \in DOMAIN InHand(x[1]) /\ IsEnd(x, InHand(x[1])[n])
      <4>1. (n \in DOMAIN InHand(x[1])' /\ IsEnd(x, InHand(x[1])'[n]))
            <=> (n \in DOMAIN InHand(x[1]) /\ IsEnd(x, InHand(x[1])[n]))
        BY <1>3
      <4>2. Len(out') + 1 = Len(out) + 2
        BY <3>4
      <4>3. EndsAt(x, k, n)' <=>
        \/ /\ k \in DOMAIN out' /\ out'[k].stream = x[1]
           /\ n \in DOMAIN out'[k].pieces /\ IsEnd(x, out'[k].pieces[n])
        \/ k = Len(out') + 1 /\ n \in DOMAIN InHand(x[1])' /\ IsEnd(x, InHand(x[1])'[n])
        BY <1>2
      <4>4. CASE k \in DOMAIN out' /\ out'[k].stream = x[1]
        <5>1. out'[k] = out[k] /\ k \in DOMAIN out /\ out[k].stream = x[1]
          BY <3>3, <4>4
        <5> QED BY <4>1, <4>2, <4>3, <4>4, <5>1
      <4>5. CASE ~ (k \in DOMAIN out' /\ out'[k].stream = x[1])
        <5>1. ~ (k \in DOMAIN out /\ out[k].stream = x[1])
          BY <3>1, <3>3, <4>5, <1>1
        <5> QED BY <4>1, <4>2, <4>3, <4>5, <5>1
      <4> QED BY <4>4, <4>5
    <3>6. EndsAt(x, k, n) <=>
            \/ k \in DOMAIN out /\ out[k].stream = x[1]
               /\ n \in DOMAIN out[k].pieces /\ IsEnd(x, out[k].pieces[n])
            \/ k = Len(out) + 1 /\ n \in DOMAIN InHand(x[1]) /\ IsEnd(x, InHand(x[1])[n])
      BY DEF EndsAt
    <3>7. EndsAt(x, Len(out) + 1, n) <=> n \in DOMAIN InHand(x[1]) /\ IsEnd(x, InHand(x[1])[n])
      BY <3>4 DEF EndsAt
    <3>8. k = Len(out) + 2 => k \notin DOMAIN out /\ k # Len(out) + 1
      BY <1>1
    <3> QED BY <3>4, <3>5, <3>6, <3>7, <3>8
  <2> QED BY <1>3, <2>1, <2>2 DEF Spread
<1>4. CASE Quiet
  <2>1. \A j \in DOMAIN frags : InHand(j)' = InHand(j)
    BY <1>4 DEF Quiet, Same
  <2> QED BY <1>0, <1>3, <1>4, <2>1 DEF Quiet
<1>5. CASE Fills
  <2>1. \A x \in Taken : \A n :
               (n \in DOMAIN InHand(x[1])' /\ IsEnd(x, InHand(x[1])'[n]))
               <=> (n \in DOMAIN InHand(x[1]) /\ IsEnd(x, InHand(x[1])[n]))
    <3> SUFFICES ASSUME NEW x \in Taken, NEW n
                 PROVE  (n \in DOMAIN InHand(x[1])' /\ IsEnd(x, InHand(x[1])'[n]))
                        <=> (n \in DOMAIN InHand(x[1]) /\ IsEnd(x, InHand(x[1])[n]))
      OBVIOUS
    <3>1. CASE x[1] # order
      <4>1. InHand(x[1])' = InHand(x[1])
        BY <1>0, <1>5, <3>1 DEF Fills, Same
      <4> QED BY <4>1
    <3>2. CASE x[1] = order
      <4>1. PICK p \in Piece : p.sample = first[order] /\ InHand(order)' = Append(InHand(order), p)
        BY <1>5 DEF Fills
      <4>2. PICK g, h, i : g = InHand(order)' /\ h = InHand(order) /\ i = order
        OBVIOUS
      <4>3. i \in DOMAIN frags /\ h \in Seq(Piece) /\ Len(h) \in Nat /\ DOMAIN h = 1 .. Len(h)
        BY <1>0, <3>2, <4>2, HandTyped
      <4>4. /\ g \in Seq(Piece) /\ Len(g) = Len(h) + 1 /\ g[Len(h) + 1] = p
            /\ \A l \in 1 .. Len(h) : g[l] = h[l]
        BY <4>1, <4>2, <4>3, AppendProperties
      <4>5. DOMAIN g = 1 .. Len(h) + 1
        BY <4>4, LenProperties
      <4>6. ~ IsEnd(x, p)
        BY <1>0, <3>2, <4>1 DEF IsEnd
      <4>7. InHand(x[1])' = g /\ InHand(x[1]) = h
        BY <1>5, <3>2, <4>2 DEF Fills
      <4> QED BY <4>3, <4>4, <4>5, <4>6, <4>7
    <3> QED BY <3>1, <3>2
  <2> QED BY <1>3, <1>5, <2>1 DEF Fills
<1>6. CASE Moves
  <2>1. PICK u \in Unit : /\ out' = Append(out, u) /\ u.stream \in DOMAIN frags
                          /\ u.pieces = InHand(u.stream)
                          /\ \A i \in DOMAIN frags : /\ InHand(i)' = <<>>
                                                     /\ i # u.stream => InHand(i) = <<>>
    BY <1>6 DEF Moves
  <2>2. /\ DOMAIN out' = 1 .. Len(out) + 1 /\ Len(out') = Len(out) + 1
        /\ \A k \in 1 .. Len(out) : out'[k] = out[k]
        /\ out'[Len(out) + 1] = u
    BY <1>1, <2>1, BucketGrows
  <2> SUFFICES ASSUME NEW x \in Taken, NEW k, NEW n
               PROVE  EndsAt(x, k, n)' <=> EndsAt(x, k, n)
    OBVIOUS
  <2>3. DOMAIN <<>> = {}
    OBVIOUS
  <2>4. x[1] \in DOMAIN frags /\ InHand(x[1])' = <<>>
    BY <1>0, <2>1
  <2>5. CASE k = Len(out) + 1
    <3>1. k \in DOMAIN out' /\ out'[k] = u /\ k \notin DOMAIN out
      BY <1>1, <2>2, <2>5
    <3>2. CASE x[1] = u.stream
      BY <1>2, <2>1, <2>3, <2>4, <2>5, <3>1, <3>2 DEF EndsAt
    <3>3. CASE x[1] # u.stream
      <4>1. InHand(x[1]) = <<>>
        BY <2>1, <2>4, <3>3
      <4> QED BY <1>2, <2>3, <2>4, <2>5, <3>1, <3>3, <4>1 DEF EndsAt
    <3> QED BY <3>2, <3>3
  <2>6. CASE k # Len(out) + 1
    <3>1. (k \in DOMAIN out' <=> k \in DOMAIN out) /\ (k \in DOMAIN out => out'[k] = out[k])
      BY <1>1, <2>2, <2>6
    <3> QED BY <1>2, <2>3, <2>4, <2>6, <3>1 DEF EndsAt
  <2> QED BY <2>5, <2>6
<1> QED BY <1>4, <1>5, <1>6, PieceSteps

LEMMA OrderedKept ==
  ASSUME Base, Story, [Next]_vars, ~ Takes, NEW x \in Taken, NEW y \in Taken
  PROVE  Ordered(x, y)' <=> Ordered(x, y)
<1>1. Len(out) \in Nat /\ DOMAIN out = 1 .. Len(out)
  BY LenProperties DEF Base, Typed
<1>2. CASE \A z \in Taken : \A k, n : EndsAt(z, k, n)' <=> EndsAt(z, k, n)
  BY <1>2 DEF Ordered
<1>3. CASE \A z \in Taken : \A k, n :
             EndsAt(z, k, n)' <=> \/ k \in DOMAIN out /\ EndsAt(z, k, n)
                                  \/ k = Len(out) + 2 /\ EndsAt(z, Len(out) + 1, n)
  <2>1. \A z, k, n : EndsAt(z, k, n) => k \in DOMAIN out \/ k = Len(out) + 1
    BY DEF EndsAt
  <2>2. ASSUME Ordered(x, y)' PROVE Ordered(x, y)
    <3>1. PICK k, l, n, m : /\ EndsAt(x, k, n)' /\ EndsAt(y, l, m)'
                            /\ k < l \/ (k = l /\ n <= m)
      BY <2>2 DEF Ordered
    <3> DEFINE k0 == IF k \in DOMAIN out THEN k ELSE Len(out) + 1
               l0 == IF l \in DOMAIN out THEN l ELSE Len(out) + 1
    <3>2. EndsAt(x, k0, n) /\ (k \in DOMAIN out \/ k = Len(out) + 2)
      BY <1>3, <3>1
    <3>3. EndsAt(y, l0, m) /\ (l \in DOMAIN out \/ l = Len(out) + 2)
      BY <1>3, <3>1
    <3>4. k0 < l0 \/ (k0 = l0 /\ n <= m)
      BY <1>1, <3>1, <3>2, <3>3
    <3> HIDE DEF k0, l0
    <3> QED BY <3>2, <3>3, <3>4 DEF Ordered
  <2>3. ASSUME Ordered(x, y) PROVE Ordered(x, y)'
    <3>1. PICK k, l, n, m : /\ EndsAt(x, k, n) /\ EndsAt(y, l, m)
                            /\ k < l \/ (k = l /\ n <= m)
      BY <2>3 DEF Ordered
    <3>2. PICK k0, l0 : /\ k0 = IF k \in DOMAIN out THEN k ELSE Len(out) + 2
                        /\ l0 = IF l \in DOMAIN out THEN l ELSE Len(out) + 2
      OBVIOUS
    <3>3. EndsAt(x, k0, n)' /\ EndsAt(y, l0, m)'
      BY <1>3, <2>1, <3>1, <3>2
    <3>4. k0 < l0 \/ (k0 = l0 /\ n <= m)
      BY <1>1, <2>1, <3>1, <3>2
    <3> QED BY <3>3, <3>4 DEF Ordered
  <2> QED BY <2>2, <2>3
<1> QED BY <1>2, <1>3, EndsKept

LEMMA NewestInit == Init => Newest
BY DEF Init, Newest

\* Everything the merge needs of a state.
Tale == Base /\ Story /\ Newest

LEMMA TaleAlways == Spec => []Tale
<1>1. Init => Tale
  BY BaseInit, StoryInit, NewestInit DEF Tale
<1>2. Tale /\ [Next]_vars => Tale'
  BY BaseNext, StoryNext, NewestNext DEF Tale
<1> QED BY <1>1, <1>2, PTL DEF Spec

LEMMA PlayedOrdered ==
  Base => Played = {p \in Taken \X Taken : Ordered(p[1], p[2])}
<1> SUFFICES ASSUME Base PROVE Played = {p \in Taken \X Taken : Ordered(p[1], p[2])}
  OBVIOUS
<1>1. \A x \in Taken : x[1] \in DOMAIN frags
  BY DEF Taken
<1>2. \A p \in Taken \X Taken : Before(p[1], p[2]) <=> Ordered(p[1], p[2])
  BY <1>1, BeforeOrdered
<1> QED BY <1>2 DEF Played

LEMMA WaitsStutters ==
  ASSUME Tale, [Next]_vars, ~ Takes
  PROVE  UNCHANGED <<frags, first, Played>>
<1>1. Base /\ Base' /\ Story
  BY BaseNext DEF Tale
<1>2. first' = first /\ frags' = frags
  BY <1>1, PieceSteps, BaseKeeps DEF Quiet, Fills, Moves
<1>3. Taken' = Taken
  BY <1>2 DEF Taken
<1>4. Played = {p \in Taken \X Taken : Ordered(p[1], p[2])}
  BY <1>1, PlayedOrdered
<1>5. Played' = {p \in Taken' \X Taken' : Ordered(p[1], p[2])'}
  <2>1. (Base => Played = {p \in Taken \X Taken : Ordered(p[1], p[2])})'
    BY PlayedOrdered, PTL
  <2> QED BY <1>1, <2>1
<1>6. \A p \in Taken \X Taken : Ordered(p[1], p[2])' <=> Ordered(p[1], p[2])
  <2> TAKE p \in Taken \X Taken
  <2>1. p[1] \in Taken /\ p[2] \in Taken
    OBVIOUS
  <2> QED BY <1>1, <2>1, OrderedKept
<1>7. Played' = Played
  BY <1>1, <1>3, <1>4, <1>5, <1>6
<1> QED BY <1>2, <1>7

\* The sample that is at hand.
New == <<order, first[order]>>

LEMMA HandsAtAdvance ==
  ASSUME Base, Advance
  PROVE  /\ order \in DOMAIN frags /\ order # 0 /\ first[order] \in Nat
         /\ Bytes(order, first[order]) \in Nat \ {0}
         /\ Copied(order) = IF Audio(order) \/ Playable(order)
                            THEN Bytes(order, first[order]) ELSE 0
         /\ \A i \in DOMAIN frags \ {order} : InHand(i) = <<>>
         /\ \A x \in Taken : x[1] \in DOMAIN frags /\ (x[1] = order => x[2] < first[order])
<1>1. pc = "advance" /\ ~ Writes("sample") /\ ~ Writes("copy")
  BY DEF Advance, Writes
<1>2. /\ order \in DOMAIN frags /\ order # 0 /\ first[order] \in Nat
      /\ frags[order].samples[first[order]].size \in Nat \ {0}
  BY <1>1, AtHand
<1>3. Bytes(order, first[order]) \in Nat \ {0}
  BY <1>2 DEF Bytes, AdtsSize
<1>4. Copied(order) = IF Audio(order) \/ Playable(order)
                      THEN Bytes(order, first[order]) ELSE 0
  BY <1>1 DEF Copied
<1>5. \A i \in DOMAIN frags \ {order} : InHand(i) = <<>>
  <2> TAKE i \in DOMAIN frags \ {order}
  <2>1. InHand(i) = streams[i].pieces
    BY <1>1, HandNow
  <2>2. streams[i].pieces = <<>>
    BY <1>1 DEF Base, Hands
  <2> QED BY <2>1, <2>2
<1>6. \A x \in Taken : x[1] \in DOMAIN frags /\ (x[1] = order => x[2] < first[order])
  BY <1>2 DEF Taken
<1> QED BY <1>2, <1>3, <1>4, <1>5, <1>6

\* What was copied of the sample at hand ends behind everything else.
LEMMA NewEndsLast ==
  ASSUME Tale, Advance, Copied(order) # 0
  PROVE  \E k \in Nat, n \in Nat :
           /\ EndsAt(New, k, n)
           /\ \A x \in Taken \cup {New} : \A l, m : EndsAt(x, l, m) =>
                l \in Nat /\ m \in Nat /\ (l < k \/ (l = k /\ m <= n))
           /\ \A l, m : EndsAt(New, l, m) => l = k /\ m = n
<1>0. Base /\ Story /\ Newest /\ pc = "advance" /\ New[1] = order /\ New[2] = first[order]
  BY DEF Tale, Advance, New
<1>1. /\ order \in DOMAIN frags /\ order # 0 /\ first[order] \in Nat
      /\ Copied(order) = Bytes(order, first[order])
      /\ \A i \in DOMAIN frags \ {order} : InHand(i) = <<>>
      /\ \A x \in Taken \cup {New} : x[1] \in DOMAIN frags
  BY <1>0, HandsAtAdvance DEF Tale
<1>2. out \in Seq(Unit) /\ Len(out) \in Nat /\ DOMAIN out = 1 .. Len(out)
  BY <1>0, LenProperties DEF Base, Typed
<1>3. \A k \in DOMAIN out : DOMAIN out[k].pieces = 1 .. Len(out[k].pieces) /\ Len(out[k].pieces) \in Nat
  BY <1>0, HandTyped
<1>4. InHand(order) \in Seq(Piece) /\ Len(InHand(order)) \in Nat
      /\ DOMAIN InHand(order) = 1 .. Len(InHand(order))
  BY <1>0, <1>1, HandTyped
<1>5. DOMAIN <<>> = {} /\ \A x, k, n : EndsAt(x, k, n) => k \in 1 .. Len(out) + 1
  BY <1>2 DEF EndsAt
<1>6. \A x, p : Earlier(order, p) /\ p \in Piece => ~ IsEnd(New, p)
  BY <1>0, <1>1 DEF Earlier, IsEnd, Piece
<1>7. Closed(order) /\ Begun(order)
  BY <1>0, <1>1 DEF Story
<1>8. CASE InHand(order) # <<>>
  <2> DEFINE k == Len(out) + 1
             n == Len(InHand(order))
  <2>1. k \in Nat /\ n \in Nat /\ n \in DOMAIN InHand(order) /\ k \notin DOMAIN out
    BY <1>0, <1>1, <1>2, <1>4, <1>8, HandTyped
  <2>2. IsEnd(New, InHand(order)[n])
    BY <1>0, <1>1, <1>7, <1>8 DEF Closed, Ending, IsEnd, Last
  <2>3. EndsAt(New, k, n)
    BY <1>0, <2>1, <2>2 DEF EndsAt
  <2>4. ASSUME NEW x \in Taken \cup {New}, NEW l, NEW m, EndsAt(x, l, m)
        PROVE  l \in Nat /\ m \in Nat /\ (l < k \/ (l = k /\ m <= n))
    <3>1. CASE l \in DOMAIN out
      BY <1>2, <1>3, <2>4, <3>1 DEF EndsAt
    <3>2. CASE l \notin DOMAIN out
      <4>1. l = Len(out) + 1 /\ m \in DOMAIN InHand(x[1])
        BY <2>4, <3>2 DEF EndsAt
      <4>2. x[1] = order
        BY <1>1, <1>5, <4>1
      <4> QED BY <1>2, <1>4, <4>1, <4>2
    <3> QED BY <3>1, <3>2
  <2>5. ASSUME NEW l, NEW m, EndsAt(New, l, m)
        PROVE  l = k /\ m = n
    <3>1. CASE l \in DOMAIN out
      <4>1. /\ out[l].stream = order /\ m \in DOMAIN out[l].pieces
            /\ IsEnd(New, out[l].pieces[m]) /\ out[l].pieces \in Seq(Piece)
        BY <1>0, <1>2, <2>5, <3>1, HandTyped DEF EndsAt
      <4>2. Earlier(order, out[l].pieces[m])
        BY <1>7, <1>8, <3>1, <4>1 DEF Begun
      <4>3. out[l].pieces[m] \in Piece
        BY <4>1
      <4> QED BY <1>6, <4>1, <4>2, <4>3
    <3>2. CASE l \notin DOMAIN out
      <4>1. l = Len(out) + 1 /\ m \in DOMAIN InHand(order) /\ IsEnd(New, InHand(order)[m])
        BY <1>0, <2>5, <3>2 DEF EndsAt
      <4>2. InHand(order)[m] \in Piece
        BY <1>4, <4>1
      <4>3. ~ Earlier(order, InHand(order)[m])
        BY <1>6, <4>1, <4>2
      <4> QED BY <1>7, <4>1, <4>3 DEF Begun
    <3> QED BY <3>1, <3>2
  <2> HIDE DEF k, n
  <2> QED BY <2>1, <2>3, <2>4, <2>5
<1>9. CASE InHand(order) = <<>>
  <2> DEFINE k == Len(out)
             n == Len(out[k].pieces)
  <2>1. out # <<>> /\ out[k].stream = order
    BY <1>0, <1>9 DEF Newest
  <2>2. k \in DOMAIN out /\ k \in Nat
    BY <1>2, <2>1, EmptySeq
  <2>3. out[k].pieces # <<>> /\ Latest(order, k)
    BY <1>0, <1>1, <1>2, <2>1, <2>2 DEF Base, Typed, Latest
  <2>4. n \in DOMAIN out[k].pieces /\ n \in Nat
    BY <1>0, <1>3, <2>2, <2>3, HandTyped
  <2>5. IsEnd(New, out[k].pieces[n])
    BY <1>0, <1>1, <1>7, <1>9, <2>3 DEF Closed, Ending, IsEnd, Last
  <2>6. EndsAt(New, k, n)
    BY <1>0, <2>1, <2>2, <2>4, <2>5 DEF EndsAt
  <2>7. ASSUME NEW x \in Taken \cup {New}, NEW l, NEW m, EndsAt(x, l, m)
        PROVE  l \in DOMAIN out /\ m \in DOMAIN out[l].pieces
    BY <1>1, <1>5, <1>9, <2>7 DEF EndsAt
  <2>8. ASSUME NEW x \in Taken \cup {New}, NEW l, NEW m, EndsAt(x, l, m)
        PROVE  l \in Nat /\ m \in Nat /\ (l < k \/ (l = k /\ m <= n))
    BY <1>2, <1>3, <2>7, <2>8
  <2>9. ASSUME NEW l, NEW m, EndsAt(New, l, m)
        PROVE  l = k /\ m = n
    <3>1. l \in DOMAIN out /\ m \in DOMAIN out[l].pieces
      BY <2>7, <2>9
    <3>2. out[l].stream = order /\ IsEnd(New, out[l].pieces[m]) /\ out[l].pieces \in Seq(Piece)
      BY <1>0, <1>1, <1>5, <1>9, <2>9, HandTyped DEF EndsAt
    <3>3. ~ Earlier(order, out[l].pieces[m])
      BY <1>6, <3>1, <3>2
    <3>4. Latest(order, l) /\ m = Len(out[l].pieces)
      BY <1>7, <3>1, <3>2, <3>3 DEF Begun
    <3>5. l <= k /\ k <= l
      BY <1>2, <2>1, <2>2, <3>1, <3>2, <3>4 DEF Latest
    <3> QED BY <1>2, <2>2, <3>1, <3>4, <3>5
  <2> HIDE DEF k, n
  <2> QED BY <2>2, <2>4, <2>6, <2>8, <2>9
<1> QED BY <1>8, <1>9

\* Nothing that was sent or is held back ends a sample that was passed over.
LEMMA PassedOver ==
  ASSUME Tale, Advance, Copied(order) = 0
  PROVE  \A k, n : ~ EndsAt(New, k, n)
<1>0. Base /\ Story /\ New[1] = order /\ New[2] = first[order]
  BY DEF Tale, New
<1>1. order \in DOMAIN frags /\ first[order] \in Nat /\ Bytes(order, first[order]) \in Nat \ {0}
  BY <1>0, HandsAtAdvance
<1>2. Closed(order) /\ Begun(order)
  BY <1>0, <1>1 DEF Story
<1>3. \A p \in Piece : Earlier(order, p) => ~ IsEnd(New, p)
  BY <1>0, <1>1 DEF Earlier, IsEnd, Piece
<1>4. \A p \in Piece : Ending(order, p) => ~ IsEnd(New, p)
  BY <1>0, <1>1 DEF Ending, IsEnd, Piece
<1> SUFFICES ASSUME NEW k, NEW n, EndsAt(New, k, n) PROVE FALSE
  OBVIOUS
<1>5. CASE k \in DOMAIN out /\ out[k].stream = order /\ n \in DOMAIN out[k].pieces
           /\ IsEnd(New, out[k].pieces[n])
  <2>1. out[k].pieces \in Seq(Piece) /\ out[k].pieces[n] \in Piece
    BY <1>0, <1>5, HandTyped
  <2>2. Latest(order, k) /\ n = Len(out[k].pieces) /\ InHand(order) = <<>>
    BY <1>2, <1>3, <1>5, <2>1 DEF Begun
  <2>3. Ending(order, out[k].pieces[n])
    BY <1>2, <2>2 DEF Closed, Last
  <2> QED BY <1>4, <1>5, <2>1, <2>3
<1>6. CASE n \in DOMAIN InHand(order) /\ IsEnd(New, InHand(order)[n])
  <2>1. InHand(order) \in Seq(Piece) /\ InHand(order)[n] \in Piece /\ InHand(order) # <<>>
    BY <1>0, <1>1, <1>6, HandTyped
  <2>2. n = Len(InHand(order))
    BY <1>2, <1>3, <1>6, <2>1 DEF Begun
  <2>3. Ending(order, InHand(order)[n])
    BY <1>2, <2>1, <2>2 DEF Closed, Last
  <2> QED BY <1>4, <1>6, <2>1, <2>3
<1> QED BY <1>0, <1>5, <1>6 DEF EndsAt

LEMMA AdvanceAdds ==
  ASSUME Tale, [Next]_vars, Takes
  PROVE  /\ Taken' = Taken \cup {New}
         /\ first' = [first EXCEPT ![order] = @ + 1]
         /\ \A x, y \in Taken \cup {New} : Ordered(x, y)' <=> Ordered(x, y)
         /\ New \notin Taken
<1>0. Base /\ Advance
  BY DEF Tale, Takes
<1>1. /\ order \in DOMAIN frags /\ first[order] \in Nat
      /\ \A x \in Taken : x[1] \in DOMAIN frags /\ (x[1] = order => x[2] < first[order])
  BY <1>0, HandsAtAdvance
<1>2. /\ first' = [first EXCEPT ![order] = @ + 1] /\ DOMAIN first = DOMAIN frags
      /\ frags' = frags /\ out' = out
      /\ \A i \in DOMAIN frags : InHand(i)' = InHand(i) /\ first[i] \in Nat \ {0}
  BY <1>0, AtHand, BaseKeeps, HandTyped DEF Advance, Takes, Base, IInv, Turns
<1>3. \A i \in DOMAIN frags : first'[i] = IF i = order THEN first[i] + 1 ELSE first[i]
  BY <1>1, <1>2
<1>4. Taken' = Taken \cup {New}
  <2>1. \A i \in DOMAIN frags :
          1 .. first'[i] - 1 = (1 .. first[i] - 1) \cup (IF i = order THEN {first[i]} ELSE {})
    BY <1>2, <1>3
  <2>2. \A x : x \in Taken' <=> \E i \in DOMAIN frags : \E s \in 1 .. first'[i] - 1 : x = <<i, s>>
    BY <1>2 DEF Taken
  <2>3. \A x : x \in Taken <=> \E i \in DOMAIN frags : \E s \in 1 .. first[i] - 1 : x = <<i, s>>
    BY DEF Taken
  <2>4. \A x : x \in Taken' <=> x \in Taken \/ x = New
    BY <1>1, <2>1, <2>2, <2>3 DEF New
  <2> QED BY <2>4
<1>5. New \notin Taken
  BY <1>1 DEF New
<1>6. \A x \in Taken \cup {New} : \A k, n : EndsAt(x, k, n)' <=> EndsAt(x, k, n)
  <2> TAKE x \in Taken \cup {New}
  <2>1. x[1] \in DOMAIN frags /\ InHand(x[1])' = InHand(x[1])
    BY <1>1, <1>2 DEF New
  <2>2. \A p : IsEnd(x, p)' <=> IsEnd(x, p)
    BY <1>2 DEF IsEnd, Bytes, Audio
  <2> QED BY <1>2, <2>1, <2>2 DEF EndsAt
<1>7. \A x, y \in Taken \cup {New} : Ordered(x, y)' <=> Ordered(x, y)
  BY <1>6 DEF Ordered
<1> QED BY <1>2, <1>4, <1>5, <1>7

LEMMA TakesPlays ==
  ASSUME Tale, [Next]_vars, Takes
  PROVE  Played' = IF Copied(order) = 0 THEN Played
                   ELSE Played \cup {<<x, New>> : x \in {p[2] : p \in Played} \cup {New}}
<1>0. Base /\ Base' /\ Advance
  BY BaseNext DEF Tale, Takes
<1> DEFINE T == Taken
           O(x, y) == Ordered(x, y)
           S == {p[2] : p \in Played}
<1>1. /\ Taken' = T \cup {New} /\ New \notin T
      /\ \A x, y \in T \cup {New} : Ordered(x, y)' <=> O(x, y)
  BY AdvanceAdds
<1>2. Played = {p \in T \X T : O(p[1], p[2])}
  BY <1>0, PlayedOrdered
<1>3. Played' = {p \in (T \cup {New}) \X (T \cup {New}) : O(p[1], p[2])}
  <2>1. (Base => Played = {p \in Taken \X Taken : Ordered(p[1], p[2])})'
    BY PlayedOrdered, PTL
  <2>2. Played' = {p \in Taken' \X Taken' : Ordered(p[1], p[2])'}
    BY <1>0, <2>1
  <2>3. \A p \in Taken' \X Taken' : Ordered(p[1], p[2])' <=> O(p[1], p[2])
    <3> TAKE p \in Taken' \X Taken'
    <3>1. p[1] \in T \cup {New} /\ p[2] \in T \cup {New}
      BY <1>1
    <3> HIDE DEF O, T
    <3> QED BY <1>1, <3>1
  <2>4. Played' = {p \in Taken' \X Taken' : O(p[1], p[2])}
    BY <2>2, <2>3
  <2> QED BY <1>1, <2>4
<1>4. CASE Copied(order) = 0
  <2>1. \A k, n : ~ EndsAt(New, k, n)
    BY <1>0, <1>4, PassedOver
  <2>2. \A x : ~ O(x, New) /\ ~ O(New, x)
    BY <2>1 DEF Ordered
  <2> HIDE DEF O, T
  <2>3. Played' = Played
    BY <1>2, <1>3, <2>2
  <2> QED BY <1>4, <2>3
<1>5. CASE Copied(order) # 0
  <2>1. PICK k \in Nat, n \in Nat :
           /\ EndsAt(New, k, n)
           /\ \A x \in Taken \cup {New} : \A l, m : EndsAt(x, l, m) =>
                l \in Nat /\ m \in Nat /\ (l < k \/ (l = k /\ m <= n))
           /\ \A l, m : EndsAt(New, l, m) => l = k /\ m = n
    BY <1>0, <1>5, NewEndsLast
  <2>2. \A x \in T : \A l, m : EndsAt(x, l, m) => ~ (l = k /\ m = n)
    <3> SUFFICES ASSUME NEW x \in T, EndsAt(x, k, n) PROVE FALSE
      OBVIOUS
    <3>1. x[1] \in DOMAIN frags /\ (x[1] = order => x[2] < first[order])
          /\ New[1] = order /\ New[2] = first[order] /\ first[order] \in Nat
          /\ \A i \in DOMAIN frags \ {order} : InHand(i) = <<>>
      BY <1>0, HandsAtAdvance DEF New
    <3>2. DOMAIN <<>> = {}
      OBVIOUS
    <3>3. x[1] = order /\ x[2] = first[order]
      <4>1. Len(out) + 1 \notin DOMAIN out
        BY <1>0, LenProperties DEF Base, Typed
      <4>2. CASE k \in DOMAIN out
        BY <2>1, <3>1, <4>1, <4>2 DEF EndsAt, IsEnd
      <4>3. CASE k \notin DOMAIN out
        <5>1. n \in DOMAIN InHand(x[1]) /\ IsEnd(x, InHand(x[1])[n])
          BY <4>3 DEF EndsAt
        <5>2. n \in DOMAIN InHand(order) /\ IsEnd(New, InHand(order)[n])
          BY <2>1, <3>1, <4>3 DEF EndsAt
        <5>3. x[1] = order
          BY <3>1, <3>2, <5>1
        <5> QED BY <3>1, <5>1, <5>2, <5>3 DEF IsEnd
      <4> QED BY <4>2, <4>3
    <3> QED BY <3>1, <3>3
  <2>3. \A x \in T \cup {New} : (\E l, m : EndsAt(x, l, m)) => O(x, New)
    BY <2>1 DEF Ordered
  <2>4. \A x, y : O(x, y) => (\E l, m : EndsAt(x, l, m)) /\ (\E l, m : EndsAt(y, l, m))
    BY DEF Ordered
  <2>5. \A y \in T : ~ O(New, y)
    <3> SUFFICES ASSUME NEW y \in T, O(New, y) PROVE FALSE
      OBVIOUS
    <3>1. PICK k1, l, n1, m : /\ EndsAt(New, k1, n1) /\ EndsAt(y, l, m)
                              /\ (k1 < l \/ (k1 = l /\ n1 <= m))
      BY DEF Ordered
    <3>2. k1 = k /\ n1 = n /\ l \in Nat /\ m \in Nat /\ (l < k \/ (l = k /\ m <= n))
      BY <2>1, <3>1
    <3>3. ~ (l = k /\ m = n)
      BY <2>2, <3>1
    <3> QED BY <3>1, <3>2, <3>3
  <2>6. \A x \in T : (\E l, m : EndsAt(x, l, m)) => O(x, x)
    <3> SUFFICES ASSUME NEW x \in T, NEW l, NEW m, EndsAt(x, l, m) PROVE O(x, x)
      OBVIOUS
    <3>1. m \in Nat
      BY <2>1
    <3>2. m <= m
      BY <3>1
    <3> QED BY <3>2 DEF Ordered
  <2>7. O(New, New)
    BY <2>1, <2>3
  <2> HIDE DEF O, T
  <2>8. \A x : x \in S <=> x \in T /\ \E l, m : EndsAt(x, l, m)
    <3>1. \A p \in Played : p[2] \in T /\ p[1] \in T /\ O(p[1], p[2])
      BY <1>2
    <3>2. ASSUME NEW x \in S PROVE x \in T /\ \E l, m : EndsAt(x, l, m)
      BY <2>4, <3>1
    <3>3. ASSUME NEW x \in T, \E l, m : EndsAt(x, l, m) PROVE x \in S
      <4>1. <<x, x>> \in Played
        BY <1>2, <2>6, <3>3
      <4>2. <<x, x>>[2] = x
        OBVIOUS
      <4> QED BY <4>1, <4>2
    <3> QED BY <3>2, <3>3
  <2> HIDE DEF S
  <2>9. \A x \in T \cup {New} : O(x, New) <=> x \in S \cup {New}
    BY <1>1, <2>3, <2>4, <2>7, <2>8
  <2>10. S \subseteq T
    BY <2>8
  <2>11. \A p : p \in Played' <=> p \in Played \/ \E x \in S \cup {New} : p = <<x, New>>
    <3>1. \A x, y : <<x, y>> \in Played' <=>
                      x \in T \cup {New} /\ y \in T \cup {New} /\ O(x, y)
      BY <1>3
    <3>2. \A x, y : <<x, y>> \in Played <=> x \in T /\ y \in T /\ O(x, y)
      BY <1>2
    <3>3. \A p \in Played' : \E x, y : p = <<x, y>>
      BY <1>3
    <3>4. \A p \in Played : \E x, y : p = <<x, y>>
      BY <1>2
    <3>5. \A x, y : <<x, y>> \in Played' <=>
                      <<x, y>> \in Played \/ (x \in S \cup {New} /\ y = New)
      BY <1>1, <2>5, <2>9, <2>10, <3>1, <3>2
    <3>6. \A x, y, z : <<x, y>> = <<z, New>> <=> x = z /\ y = New
      OBVIOUS
    <3> QED BY <3>3, <3>4, <3>5, <3>6
  <2>12. Played' = Played \cup {<<x, New>> : x \in S \cup {New}}
    BY <2>11
  <2> QED BY <1>5, <2>12 DEF S
<1> QED BY <1>4, <1>5

LEMMA TakesMerges ==
  ASSUME Tale, [Next]_vars, Takes
  PROVE  Merging!Next
<1>0. Base /\ Advance /\ pc = "advance"
  BY DEF Tale, Takes, Advance
<1>1. /\ order \in DOMAIN frags /\ first[order] \in 1 .. Len(frags[order].samples)
      /\ Len(frags[order].samples) \in Nat
      /\ Head1(order) = frags[order].samples[first[order]]
      /\ Head1(order).size \in Nat \ {0}
  BY <1>0, AtHand
<1>2. frags' = frags /\ first' = [first EXCEPT ![order] = @ + 1]
  BY <1>0, BaseKeeps, AdvanceAdds
<1>3. Merging!Left(order) /\ \A j \in DOMAIN frags : Merging!Left(j) <=> Left(j)
  BY <1>1 DEF Merging!Left, Left
<1>4. \A j \in DOMAIN frags : Merging!Left(j) =>
        frags[order].samples[first[order]].dts <= frags[j].samples[first[j]].dts
  BY <1>0, <1>1, <1>3 DEF Base, Chosen, Head1
<1>5. Merging!Unplayable(frags[order], frags[order].samples[first[order]]) <=> Copied(order) = 0
  <2>1. /\ Copied(order) = IF Audio(order) \/ Playable(order)
                           THEN Bytes(order, first[order]) ELSE 0
        /\ Bytes(order, first[order]) \in Nat \ {0}
    BY <1>0, HandsAtAdvance
  <2>2. frags[order].kind \in {"vide", "soun"}
    BY <1>0, <1>1 DEF Base, TimesTyped
  <2>3. Copied(order) = 0 <=> ~ (Audio(order) \/ Playable(order))
    BY <2>1
  <2>4. Playable(order) <=> ~ (Head1(order).size < 44 \/ ~ Head1(order).ok)
    BY <1>1 DEF Playable, AudNal
  <2>5. Audio(order) <=> frags[order].kind # "vide"
    BY <2>2 DEF Audio
  <2> QED BY <1>1, <2>3, <2>4, <2>5 DEF Merging!Unplayable
<1>6. Played' = IF Copied(order) = 0 THEN Played
                ELSE Played \cup {<<x, New>> : x \in {p[2] : p \in Played} \cup {New}}
  BY TakesPlays
<1>7. Merging!Take(order)
  <2>1. Merging!Sent = {p[2] : p \in Played}
    BY DEF Merging!Sent
  <2>2. Played' = IF Merging!Unplayable(frags[order], frags[order].samples[first[order]])
                  THEN Played
                  ELSE Played \cup {<<x, <<order, first[order]>>>> :
                                      x \in Merging!Sent \cup {<<order, first[order]>>}}
    BY <1>5, <1>6, <2>1 DEF New
  <2> QED BY <1>2, <1>3, <1>4, <2>2 DEF Merging!Take
<1> QED BY <1>1, <1>7 DEF Merging!Next

LEMMA StartsMerging == Init => Merging!Init
<1> SUFFICES ASSUME Init PROVE Merging!Init
  OBVIOUS
<1>1. first = [i \in DOMAIN frags |-> 1]
  BY DEF Init
<1>2. Taken = {}
  <2>1. \A i \in DOMAIN frags : 1 .. first[i] - 1 = {}
    BY <1>1
  <2> QED BY <2>1 DEF Taken
<1>3. Played = {}
  BY <1>2 DEF Played
<1> QED BY <1>1, <1>3 DEF Merging!Init

\* The transport stream is the merge by decoding time: whatever samples the
\* tracks of a segment have, however audio is gathered and cut, and whatever is
\* passed over, the ends of the samples reach the bucket in the order in which
\* the samples were due (the loop of output_ts, with write_audio_packet,
\* write_video_packet and flush_audio_packet under it).
THEOREM MergesByTime == Spec => ImplementsMerge
<1>1. Tale /\ [Next]_vars => [Merging!Next]_(Merging!vars)
  <2> SUFFICES ASSUME Tale, [Next]_vars PROVE [Merging!Next]_(Merging!vars)
    OBVIOUS
  <2>1. CASE Takes
    BY <2>1, TakesMerges
  <2>2. CASE ~ Takes
    BY <2>2, WaitsStutters DEF Merging!vars
  <2> QED BY <2>1, <2>2
<1> QED BY <1>1, TaleAlways, StartsMerging, PTL DEF Spec, ImplementsMerge, Merging!Spec
=============================================================================
