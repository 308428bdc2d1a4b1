------------------------------ MODULE Transcode ------------------------------
(***************************************************************************)
(* ngx_estreaming_adaptive_bitrate: one segment, as output_ts wrote it, is *)
(* demultiplexed, its video decoded, scaled, encoded again and multiplexed *)
(* with the untouched audio into destination.  The handler sends           *)
(* destination when 0 is returned and the segment as it was otherwise.     *)
(*                                                                         *)
(* The ffmpeg libraries are external.  Any call of theirs may fail; the    *)
(* decoder and the encoder keep back a fixed number of frames, and give    *)
(* them when they are called without input; av_read_frame leaves a packet  *)
(* without data, of stream 0, when there is nothing more to read.  Frames  *)
(* are the numbers of the packets they were decoded from.  pc "undefined"  *)
(* stands for everything that follows undefined behaviour; an encoder that *)
(* is not open and is used all the same is one kind of it.  What is        *)
(* given to av_interleaved_write_frame is taken to be written at once, and *)
(* that memory for a single AVFrame or AVPacket runs out is not modelled.  *)
(***************************************************************************)
EXTENDS Naturals, FiniteSets, SequencesExt

CONSTANTS
  Inputs,     \* segments: records of streams, packets, width, delay, hold
  Width,      \* the width that is asked for
  Capacity    \* what destination->data has room for

\* A packet names its stream (1 is the code's 0); a bad one cannot be decoded.
IsInput(in) ==
  /\ in.streams \in Seq({"vide", "soun", "unknown"})
  /\ Cardinality({s \in DOMAIN in.streams : in.streams[s] = "vide"}) <= 1
  /\ in.packets \in Seq([stream : DOMAIN in.streams, bad : BOOLEAN])
  /\ in.width \in Nat /\ in.delay \in Nat /\ in.hold \in Nat

ASSUME TranscodeAssumption == /\ \A in \in Inputs : IsInput(in)
                              /\ Width \in Nat /\ Capacity \in Nat

VARIABLES
  input,
  pc,        \* the stage ngx_estreaming_adaptive_bitrate is in
  ret,       \* "ok", "eof" (AVERROR_EOF) or "error" (any other negative)
  pos,       \* the packets av_read_frame has returned
  packet,    \* the packet: its stream and number, 0 for one without data
  skipped,
  held,      \* the frames the decoder keeps back
  kept,      \* the frames the encoder keeps back
  out,       \* the frames and packets in destination, by their numbers
  made,      \* the streams of ofmt_ctx
  encoder,   \* avcodec_open2 has opened the encoder there is to open
  graphs,    \* the streams with a filter graph
  i,         \* the loop variable of the last loop
  owned,     \* what has been allocated and not been freed
  closed     \* av_write_trailer has been called

vars == <<input, pc, ret, pos, packet, skipped, held, kept, out, made, encoder,
          graphs, i, owned, closed>>
stages == <<encoder, pos, packet, skipped, held, kept, out, graphs, i, closed>>

Kind(s) == input.streams[s]
Streams == DOMAIN input.streams
Videos == {s \in Streams : Kind(s) = "vide"}

Init ==
  /\ input \in Inputs
  /\ pc = "open" /\ ret = "ok" /\ pos = 0 /\ skipped = 0 /\ i = 1
  /\ packet = [stream |-> 1, number |-> 0]
  /\ held = <<>> /\ kept = <<>> /\ out = <<>>
  /\ made = 0 /\ encoder = FALSE /\ graphs = {} /\ closed = FALSE
  /\ owned = {"ifmt_ctx"}

-----------------------------------------------------------------------------
(* open_input_file, prepare_output_encoder, init_filters                   *)

Opened == {"ifmt_ctx", "io_read_context", "exchange_area_read"}
WasSet(option, streams) == IF \E s \in streams : Kind(s) = "vide" THEN {option} ELSE {}

\* avformat_open_input fails, and frees the context the caller still holds.
OpenFails ==
  /\ pc = "open"
  /\ pc' = "undefined" /\ ret' = "error" /\ owned' = Opened \ {"ifmt_ctx"}
  /\ UNCHANGED <<input, made, stages>>

\* The streams cannot be examined, or one of them has no decoder.
OpenStops ==
  /\ pc = "open"
  /\ \/ owned' = Opened
     \/ \E s \in Streams : owned' = Opened \cup WasSet("vdec_opt", 1..s)
  /\ pc' = "end" /\ ret' = "error"
  /\ UNCHANGED <<input, made, stages>>

TooNarrow == Videos # {} /\ input.width <= Width

\* Only a source that is wider than asked for is transcoded.
Refuse ==
  /\ pc = "open" /\ TooNarrow
  /\ pc' = "end" /\ ret' = "error" /\ owned' = Opened \cup {"vdec_opt"}
  /\ UNCHANGED <<input, made, stages>>

Open ==
  /\ pc = "open" /\ ~TooNarrow
  /\ pc' = "prepare" /\ ret' = "ok" /\ owned' = Opened
  /\ UNCHANGED <<input, made, stages>>

Prepared == owned \cup {"ofmt_ctx", "io_write_context", "exchange_area_write"}

\* The loop over the streams stops at stream s, which has been made or not.
PrepareStops ==
  /\ pc = "prepare"
  /\ \E s \in Streams :
       /\ \/ made' = s - 1
          \/ made' = s /\ Kind(s) # "vide"
       /\ owned' = Prepared \cup WasSet("option", 1..(s - 1))
  /\ pc' = "end" /\ ret' = "error"
  /\ UNCHANGED <<input, stages>>

\* avformat_write_header fails: so it does when there is no stream.
HeaderFails ==
  /\ pc = "prepare" /\ \A s \in Streams : Kind(s) # "unknown"
  /\ made' = Len(input.streams) /\ owned' = Prepared
  /\ pc' = "end" /\ ret' = "error"
  /\ UNCHANGED <<input, stages>>

\* Nobody looks at what avcodec_open2 answers for enc_ctx.
Prepare ==
  /\ pc = "prepare" /\ Streams # {} /\ \A s \in Streams : Kind(s) # "unknown"
  /\ made' = Len(input.streams) /\ owned' = Prepared
  /\ encoder' \in IF Videos = {} THEN {TRUE} ELSE BOOLEAN
  /\ pc' = "filters" /\ ret' = "ok"
  /\ UNCHANGED <<input, pos, packet, skipped, held, kept, out, graphs, i, closed>>

\* No graph for stream s: the graph made for it is not freed, and the entries
\* of the streams behind it have never been set.
FiltersFail ==
  /\ pc = "filters"
  /\ \E s \in Videos :
       /\ pc' \in IF s < Len(input.streams) THEN {"end", "undefined"} ELSE {"end"}
       /\ owned' = owned \cup {"filter_ctx", "filter_graph"}
  /\ ret' = "error"
  /\ UNCHANGED <<input, made, stages>>

\* Mutant of InitFilters: the entries of other streams are not set to NULL.
InitFiltersUnset ==
  /\ pc = "filters"
  /\ graphs' = Videos
  /\ owned' = owned \cup {"filter_ctx"}
  /\ pc' \in {"read"} \cup IF Videos = Streams THEN {} ELSE {"undefined"}
  /\ ret' = "ok"
  /\ UNCHANGED <<input, made, encoder, pos, packet, skipped, held, kept, out, i, closed>>

\* Only video is filtered.
InitFilters ==
  /\ pc = "filters"
  /\ graphs' = Videos
  /\ owned' = owned \cup {"filter_ctx"}
  /\ pc' = "read" /\ ret' = "ok"
  /\ UNCHANGED <<input, made, encoder, pos, packet, skipped, held, kept, out, i, closed>>

-----------------------------------------------------------------------------
(* Reading, decoding, encoding                                             *)

loops == <<input, made, encoder, graphs, owned, closed>>

\* write_adbr_packet: what comes is appended, and no room is asked for.
Written(items) == out' = out \o items
Roomy(items) == Len(out) + Len(items) <= Capacity

\* encode_write_frame: the encoder takes a frame and gives its oldest one when
\* it has more than it keeps back.
Encode(frame, next) ==
  /\ encoder
  /\ LET all == Append(kept, frame)
         given == IF Len(all) > input.hold THEN <<Head(all)>> ELSE <<>>
     IN  /\ Written(given) /\ kept' = IF given = <<>> THEN all ELSE Tail(all)
         /\ ret' = "ok" /\ pc' = IF Roomy(given) THEN next ELSE "undefined"

\* filter_encode_write_frame fails.
EncodeFails == /\ ret' = "error" /\ pc' = "end" /\ UNCHANGED <<kept, out>>

\* The frame is given to an encoder that could not be opened.
EncodeUnopened == /\ ~encoder /\ pc' = "undefined" /\ UNCHANGED <<ret, kept, out>>

\* Mutant of Decoded: a frame is taken from the wrong end of what is held.
DecodedNewest(all) == Len(all)

\* Which of the frames it has the decoder gives: they come in their order.
Decoded(all) == 1

Reading == pc = "read" /\ pos < Len(input.packets)
Next_ == input.packets[pos + 1]
Fetch == /\ pos' = pos + 1
         /\ packet' = [stream |-> Next_.stream, number |-> pos + 1]

\* Audio is written as it is.
Remux ==
  /\ Reading /\ Kind(Next_.stream) # "vide" /\ Fetch
  /\ \/ /\ Written(<<pos + 1>>) /\ ret' = "ok"
        /\ pc' = IF Roomy(<<pos + 1>>) THEN "read" ELSE "undefined"
     \/ ret' = "error" /\ pc' = "end" /\ UNCHANGED out
  /\ UNCHANGED <<loops, skipped, held, kept, i>>

VideoFetched == Reading /\ Kind(Next_.stream) = "vide" /\ Fetch
Full == Len(held) >= input.delay

\* Decoding fails: reading stops, and the packet stays where it is.
DecodeFails ==
  /\ VideoFetched /\ Next_.bad
  /\ pc' = "drain" /\ ret' = "error"
  /\ UNCHANGED <<loops, skipped, held, kept, out, i>>

\* Mutant of NoFrame: the frames kept back are not counted.
NoFrameUncounted ==
  /\ VideoFetched /\ ~Next_.bad /\ ~Full
  /\ held' = Append(held, pos + 1) /\ ret' = "ok"
  /\ UNCHANGED <<loops, pc, skipped, kept, out, i>>

\* The decoder keeps the frame back.
NoFrame ==
  /\ VideoFetched /\ ~Next_.bad /\ ~Full
  /\ held' = Append(held, pos + 1) /\ skipped' = skipped + 1 /\ ret' = "ok"
  /\ UNCHANGED <<loops, pc, kept, out, i>>

GotFrame ==
  /\ VideoFetched /\ ~Next_.bad /\ Full
  /\ LET all == Append(held, pos + 1)
     IN  /\ held' = RemoveAt(all, Decoded(all))
         /\ \/ Encode(all[Decoded(all)], "read")
            \/ EncodeFails \/ EncodeUnopened
  /\ UNCHANGED <<loops, skipped, i>>

\* The packet that is left has no data, and is of stream 0.
ReadEnds ==
  /\ pc = "read" /\ pos = Len(input.packets)
  /\ packet' = [stream |-> 1, number |-> 0]
  /\ pc' = "drain" /\ ret' = "eof"
  /\ UNCHANGED <<loops, pos, skipped, held, kept, out, i>>

-----------------------------------------------------------------------------
(* What the decoder still holds, the filters and the encoder               *)

Draining == pc = "drain" /\ skipped > 0
Drained == /\ skipped' = skipped - 1
           /\ UNCHANGED <<input, made, encoder, graphs, closed, pos, packet, i>>

\* The frames kept back are decoded with the last packet, if it is a video's.
DrainOther ==
  /\ Draining /\ Kind(packet.stream) # "vide" /\ Drained
  /\ UNCHANGED <<pc, ret, held, kept, out, owned>>

\* No frame comes: the one made for it is freed only if it is the last.
DrainNothing ==
  /\ Draining /\ Kind(packet.stream) = "vide" /\ Drained
  /\ packet.number # 0 \/ held = <<>>
  /\ ret' = IF packet.number # 0 THEN "error" ELSE "ok"
  /\ owned' = owned \cup (IF skipped > 1 THEN {"frame"} ELSE {})
  /\ UNCHANGED <<pc, held, kept, out>>

DrainFrame ==
  /\ Draining /\ Kind(packet.stream) = "vide" /\ Drained
  /\ packet.number = 0 /\ held # <<>>
  /\ held' = RemoveAt(held, Decoded(held))
  /\ \/ Encode(held[Decoded(held)], "drain")
     \/ EncodeFails \/ EncodeUnopened
  /\ UNCHANGED owned

DrainEnds ==
  /\ pc = "drain" /\ skipped = 0
  /\ pc' = "flush"
  /\ UNCHANGED <<loops, ret, pos, packet, skipped, held, kept, out, i>>

Flushing == pc = "flush" /\ i <= Len(input.streams)
Unread == UNCHANGED <<loops, pos, packet, skipped>>

FlushOther ==
  /\ Flushing /\ i \notin graphs /\ i' = i + 1
  /\ Unread /\ UNCHANGED <<pc, ret, held, kept, out>>

\* The filter is told that nothing more comes: it keeps nothing back.
FlushFilter ==
  /\ Flushing /\ i \in graphs
  /\ pc' = "flush_decoder" /\ ret' = "ok"
  /\ Unread /\ UNCHANGED <<held, kept, out, i>>

\* What the decoder still gives is thrown away, frame by frame.
FlushDecoder ==
  /\ pc = "flush_decoder" /\ held # <<>>
  /\ held' = RemoveAt(held, Decoded(held)) /\ ret' = "ok"
  /\ Unread /\ UNCHANGED <<pc, kept, out, i>>

\* Mutant of FlushDecoderEnds: that no frame came is not looked at.
FlushDecoderEndsNot ==
  /\ pc = "flush_decoder" /\ held = <<>>
  /\ ret' = "ok"
  /\ Unread /\ UNCHANGED <<pc, held, kept, out, i>>

FlushDecoderEnds ==
  /\ pc = "flush_decoder" /\ held = <<>>
  /\ pc' = "flush_encoder" /\ ret' = "ok"
  /\ Unread /\ UNCHANGED <<held, kept, out, i>>

\* What the encoder keeps back is written, frame by frame.
FlushEncoder ==
  /\ pc = "flush_encoder" /\ encoder /\ kept # <<>>
  /\ Written(<<Head(kept)>>) /\ kept' = Tail(kept) /\ ret' = "ok"
  /\ pc' = IF Roomy(<<Head(kept)>>) THEN "flush_encoder" ELSE "undefined"
  /\ Unread /\ UNCHANGED <<held, i>>

FlushEncoderEnds ==
  /\ pc = "flush_encoder" /\ encoder /\ kept = <<>>
  /\ pc' = "flush" /\ i' = i + 1 /\ ret' = "ok"
  /\ Unread /\ UNCHANGED <<held, kept, out>>

\* The capabilities of an encoder that is not open are looked at.
FlushUnopened ==
  /\ pc = "flush_encoder" /\ ~encoder
  /\ pc' = "undefined"
  /\ Unread /\ UNCHANGED <<ret, held, kept, out, i>>

\* The filter, the decoder or the encoder fails while it is flushed.
FlushFails ==
  /\ \/ Flushing /\ i \in graphs
     \/ pc = "flush_decoder"
     \/ pc = "flush_encoder" /\ encoder
  /\ pc' = "end" /\ ret' = "error"
  /\ Unread /\ UNCHANGED <<held, kept, out, i>>

Trailer ==
  /\ pc = "flush" /\ i > Len(input.streams)
  /\ pc' = "end" /\ closed' = TRUE
  /\ UNCHANGED <<input, ret, pos, packet, skipped, held, kept, out, made, encoder, graphs,
                 i, owned>>

-----------------------------------------------------------------------------
(* end:                                                                    *)

\* The loop that closes the codecs takes it that ofmt_ctx has as many streams
\* as ifmt_ctx.
CloseUndefined ==
  /\ pc = "end" /\ made < Len(input.streams)
  /\ pc' = "undefined"
  /\ UNCHANGED <<input, ret, made, owned, stages>>

\* Mutant of Close: ofmt_ctx is forgotten.
CloseInput ==
  /\ pc = "end" /\ made = Len(input.streams)
  /\ owned' = owned \ {"ifmt_ctx", "filter_ctx", "io_read_context", "io_write_context"}
  /\ graphs' = {} /\ pc' = "returned"
  /\ UNCHANGED <<input, ret, made, encoder, pos, packet, skipped, held, kept, out, i, closed>>

Close ==
  /\ pc = "end" /\ made = Len(input.streams)
  /\ owned' = owned \ ({"ifmt_ctx", "filter_ctx", "io_read_context", "io_write_context"}
                         \cup IF made > 0 THEN {"ofmt_ctx"} ELSE {})
  /\ graphs' = {} /\ pc' = "returned"
  /\ UNCHANGED <<input, ret, made, encoder, pos, packet, skipped, held, kept, out, i, closed>>

Terminated == pc \in {"returned", "undefined"} /\ UNCHANGED vars

Next ==
  \/ OpenFails \/ OpenStops \/ Refuse \/ Open
  \/ PrepareStops \/ HeaderFails \/ Prepare
  \/ FiltersFail \/ InitFilters
  \/ Remux \/ DecodeFails \/ NoFrame \/ GotFrame \/ ReadEnds
  \/ DrainOther \/ DrainNothing \/ DrainFrame \/ DrainEnds
  \/ FlushOther \/ FlushFilter \/ FlushDecoder \/ FlushDecoderEnds
  \/ FlushEncoder \/ FlushEncoderEnds \/ FlushUnopened \/ FlushFails \/ Trailer
  \/ CloseUndefined \/ Close \/ Terminated

Spec == Init /\ [][Next]_vars

\* The function goes on, without waiting for a flush to fail.
FairSpec == Spec /\ WF_vars(Next /\ ~FlushFails)

-----------------------------------------------------------------------------
IsVideo(k) == Kind(input.packets[k].stream) = "vide"
Flow == out \o kept \o held

\* What is in destination is the segment's audio up to where reading is, and
\* its video in its order, every frame at most once and none left out between
\* two others: so what the codecs keep back is what comes next.
OutputInOrder ==
  /\ pc = "read" => {k \in 1..pos : ~IsVideo(k)} \subseteq ToSet(out)
  /\ IsInjective(out)
  /\ pc \in {"read", "drain"} =>
       /\ {k \in ToSet(Flow) : IsVideo(k)}
            = {k \in 1..pos : IsVideo(k) /\ ~input.packets[k].bad}
       /\ \A j, k \in DOMAIN Flow :
            j < k /\ IsVideo(Flow[j]) /\ IsVideo(Flow[k]) => Flow[j] < Flow[k]
       /\ \A k \in ToSet(kept \o held) : IsVideo(k)

Answered == pc = "returned" /\ ret = "ok"

\* A segment that is sent as transcoded is closed by the muxer and has all of
\* the source's audio and video, although the codecs keep frames back: if no
\* packet is broken and stream 0, whose number the emptied packet has, is the
\* video.
NothingLost ==
  Answered /\ Kind(1) = "vide" /\ (\A k \in DOMAIN input.packets : ~input.packets[k].bad)
    => closed /\ ToSet(out) = DOMAIN input.packets

\* When it returns, everything is freed but the buffers of the two AVIOContexts,
\* and, after failures, an output context without streams, the graph that could
\* not be built, the options of a decoder or an encoder and the frames that
\* never came.  And it returns, unless the segment cannot be opened, the source
\* is not wider than what is asked for, its streams cannot be made, its filter
\* cannot be built, the encoder could not be opened, which nobody notices, or
\* the result is too large for destination: nothing else that fails, in the
\* loops or in flushing, leads to a crash.
ReleasesAll ==
  /\ pc = "returned" =>
       owned \subseteq {"exchange_area_read", "exchange_area_write"}
         \cup (IF made = 0 THEN {"ofmt_ctx", "vdec_opt"} ELSE {})
         \cup (IF closed THEN {} ELSE {"filter_graph", "option"})
         \cup (IF \E k \in 1..pos : input.packets[k].bad THEN {"frame"} ELSE {})
  /\ pc = "undefined" =>
       \/ "ifmt_ctx" \notin owned
       \/ made < Len(input.streams) /\ ret = "error"
       \/ graphs = {} /\ Videos # {} /\ ret = "error"
       \/ made = Len(input.streams) /\ ~encoder
       \/ Len(out) > Capacity

\* Each call comes to an end: so do the loops that flush the decoder and the
\* encoder until no frame comes.
Ends == <>(pc \in {"returned", "undefined"})
=============================================================================
