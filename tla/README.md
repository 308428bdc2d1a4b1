# Verification of ngx_http_estreaming_module

`ngx_http_estreaming_module` is an nginx module that serves mp4 files as HTTP
Live Streams.  It keeps no segments on disk: a playlist request computes where
the file is to be cut, and each segment request computes the same cuts again,
finds the samples that belong to its number and muxes them into an MPEG
transport stream.  It can also move the `moov` atom of a file to its front, in
place, the first time the file is asked for.

This directory holds TLA+ modules of that program, TLC configurations that
check them on small instances, and theorems about them that TLAPS has checked.
`PROJECT.json` lists the components, runs, mutants, findings, hazards and
theorems, and maps each definition to the source lines it stands for.  All
source paths below are relative to `src/src/`.

    tlc -workers 2 -config MCPlaylist.cfg MCPlaylist    # a run
    tlapm Playlist_proof.tla                            # proofs

## The system

nginx runs several worker processes.  Each handles its requests one after the
other: `ngx_estreaming_handler` does blocking reads and computes the whole
answer before it returns to the event loop, so two requests interleave only
when two workers run them.  Workers share the files, and nothing else; each has
a copy of the configuration.

| Component | Source | State | Operations |
|---|---|---|---|
| request handling | `ngx_http_estreaming_module.c`, `moov.h` 130-305 | `hls_conf_t` per worker and location (above all `length`); `mp4_split_options_t` per request | parse arguments, open the file (open file cache), fast start, read the moov atom, playlist / duration / segment / plain mp4, status |
| configuration | `ngx_http_estreaming_module.c` 17-69, `.h` | the location configuration | create, directives, merge, check |
| file access | `mp4_io.h` 617-810 | the moov buffer and the read buffer of an `mp4_context_t` | `mp4_open`, `mp4_read` |
| atom readers | `mp4_reader.h` 1-1592 | the `moov_t` tree | one reader per atom |
| sample index | `mp4_reader.h` 1594-1810 | `samples_` of every track | `trak_build_index`, copying of sync markers to audio, `moov_build_index` |
| media playlist | `output_m3u8.h` 198-230 | `cur`, `prev`, `i`, `prev_i`, the text | the loop of `mp4_create_m3u8` |
| master playlist, URLs | `output_m3u8.h` 44-197 | `extra`, `rewrite` | variants by width, rewriting of arguments |
| segment selection | `output_ts.h` 684-770 | `fragment[]`, `last_chunk`, `audio_tracks` | the walk of `output_ts`, `get_next` |
| ts muxer | `output_ts.h` 1-680, 772-885 | streams: continuity counters, audio payload and its times | tables, PES packets, interleaving by time, flushing of audio |
| transcoding | `ngx_http_adaptive_streaming.h` | ffmpeg contexts, output buffer | open input, filters, output; decode/encode loop; release |
| fast start | `ngx_http_mp4_faststart.h` | the file, the cached descriptor, two buffers | scan, patch, rewrite in place |
| mp4 pseudo streaming | `mp4_module.h` | a copy of nginx's own mp4 module: the sample tables of each track, and places in them | crop the tables to start/end, move the chunk places, send what is left |
| buckets | `output_bucket.h` | chain of buffers | insert |
| view count | `view_count.h` | none | a stub |

Interactions.  Playlist and segment requests never speak to each other: the
number in a segment's URL, the file and `conf->length` are all they have in
common.  The arguments of the playlist request are repeated in the URLs it
lists.  `mp4_split_options_set` writes the `length` argument into the
configuration of the worker.  Fast start changes the file under everybody.

What is hard here, and what makes each component correct:

* *Media playlist.* Entries tile the track, without gaps, overlap or empty
  entries; each is named by the number of the sync sample it starts at, a number
  the loop never computes but carries along in `prev_i`; the loop ends.
* *Segment selection.* For a number the playlist lists, the samples the playlist
  meant; for the audio, from marker to marker, so that consecutive segments
  leave no hole; every fragment the muxer is told of has been filled.
* *Request handling.* A client's segments fit its playlist whichever worker
  answers, in any order, after restarts; the service should be stateless.  A link
  gives what it stood for, although it travels through names, rewriting rules
  and arguments; whatever fails, what was opened is closed.
* *Fast start.* It reads and writes one file at once through two descriptors:
  it must never read what it has overwritten, and what it writes must be the
  file with moov moved to the front and its offsets patched.
* *File access.* Where the buffer begins in the file is not stored but computed
  from an offset and a size that other reads change; the scan of the top level
  atoms goes by another offset, which reads move as well.
* *Atom readers.* A failure deep within moov makes every reader around it fail;
  each frees what it has, once.
* *Sample index.* Run length coded tables become samples with their places and
  times; the bytes read for a segment hold all of its samples.
* *Muxer.* Every sample goes out once, in decoding order; room for transport
  packets is computed before they are written, and must be exact; no audio is
  left in the payload.
* *Transcoding.* Contexts are released once, also after an early failure; frames
  the codecs keep back are not forgotten.
* *Pseudo streaming.* Each table is cropped with what the one before it has left
  behind; together they must describe the samples asked for, where they are.

## The modules

| Module | Models | Kind |
|---|---|---|
| `Media` | the index as the other models use it: decoding times, sync samples, markers copied to audio, the end sample | definitions |
| `SampleIndex` | `trak_build_index`: from sample tables to samples | state machine; checked against `Media` |
| `Segmentation` | where segments begin and end: `Cut`, `PlaylistOf`, `GetNext`, `FragmentsOf` | definitions; the reference |
| `Tiling` | what a media playlist promises: a tiling of the track by segments that cannot be shorter | abstract specification |
| `Playlist` | the loop of `mp4_create_m3u8` | state machine; implements `Tiling` |
| `Segment` | the walks of `output_ts` and `get_next` | state machine; checked against `FragmentsOf` |
| `Merge` | what a segment promises: its samples, merged by decoding time | abstract specification |
| `TsMux` | the multiplexer of `output_ts`, and the bucket | state machine; implements `Merge` |
| `Vod` | the service as a stateless one | abstract specification |
| `Streaming` | clients and workers, composed from `Segmentation` | state machine; implements `Vod` for the clients nobody disturbs |
| `Handler` | a player that follows links, and the steps of `ngx_estreaming_handler` | state machine |
| `Transcode` | `ngx_estreaming_adaptive_bitrate` | state machine; the libraries external |
| `Mp4File` | `mp4_read`, `mp4_open`, the read of a segment | state machine |
| `AtomTree` | the readers within moov and their exit functions | state machine; checked against a reference on the atoms |
| `FastStart` | `ngx_http_enable_fast_start` with the file, crashes and further requests | state machine |
| `RunLength` | run length coded tables, and how one is cut | definitions |
| `Mp4Crop` | the cropping of tables in `mp4_module.h` | state machine; extends `SampleIndex`, and is checked against it |
| `MC*` | instances for TLC | |
| `*_proof` | theorems about `Segmentation`, `Playlist`, `SampleIndex` and `Mp4Crop`, `Streaming` and `Segment`, `FastStart`, `Mp4File` and `AtomTree`, `TsMux`, `Handler`, `Transcode` | |

How they fit together.  `Mp4File` ends where moov is in memory, `AtomTree` where
its tracks are, `SampleIndex` where they are indexed; that its index is the one
`Media` defines is the property `AgreesWithMedia`, and everything from
`Segmentation` on starts from `Media`.  `Streaming` uses the functions
`PlaylistOf` and `FragmentsOf` for the work of a request: that they are what the
loops compute is what `LoopInvariant` and `ChoosesFragments` say, which the runs
`playlist` and `segment` check and the theorems `LoopCorrect` and
`WalksChooseFragments` establish.  A request is one action there because nothing else
runs in its worker meanwhile; `Handler` takes it apart.  `TsMux` starts with the
fragments `Segment` ends with, and what it writes is the input of `Transcode`.

### Media and Segmentation

A track is a record of its kind, time scale, number of samples, decoding times
and sync samples.  `TrakBuildIndex` takes an stts table flattened to one
duration per sample; the end sample, one past the last, carries the end time
and always counts as a sync sample (`mp4_reader.h` 1729).  `MoovBuildIndex`
copies the markers of the last video track to every audio track that has no
stss of its own, or sets one about every two seconds when there is no video.

`LongEnough` is the comparison on which both loops cut: duration plus 0.0005
against the length.  The code computes it in `float`; the model computes it
exactly, by multiplying out.  The two differ only for durations within a float
rounding error of the boundary.

### SampleIndex

One step is one entry of a table or one chunk; `pc` names the table the function
is at; `j`, `s` and `pts` are its variables, `row` and `bound` its `i` and `last` of
the loop over stsc.  `MapChunks` walks the
chunk map from its last entry back, `Places` adds up the sizes within a chunk,
`EndPlace` gives the element behind the last sample the place where the last one
ends: `output_ts` subtracts two places to find out how much to read.  Chunk maps that
contradict the list of chunks (`Consistent`) make the code read what it has not
allocated, and are left out; tables of samples that are too long or too short
are not.

### Playlist

`cur`, `prev`, `i` and `prev_i` are the code's; `entries` stands for the text.
`SkipSample` is lines 208-211, `CutSegment` is an iteration that writes an
entry (213-224, and 226-227), `PassSync` one that does not.

### Segment

`pc = "track"` is the loop of `output_ts` over tracks and samples, `pc =
"next"` is `get_next`.  `BeginFragment` enters `get_next`, `NextStop` returns
from it, stores the fragment and leaves the track.  `NoRoom` is a third track
that matches: nothing is stored, but an audio track is counted.  The
request reaches this loop only when `moov_build_index` has succeeded; a file
without chunk offsets is refused before.

### TsMux and Merge

`Pick` is one turn of the loop of `output_ts`: the track whose next sample is due,
and, when audio of another track is held back, its payload first.  `write_packet`
is entered with a PES packet, and each transport packet it fills is a step
(`WritePacket`, `PacketWritten`), so that what was reserved can be compared with
what is written at every moment.  `Copy` is one turn of the loop of
`write_audio_packet`, in which a full payload is written and begun again.  Bytes are counted: a
piece is a range of bytes of one sample, and a PES packet a sequence of pieces.
`out` is the bucket, a chain to which `bucket_insert` only appends.  `Played`
maps this to `Merge`: of two samples that have been taken, sent or held back
whole, which one ended first.  Audio is held back while pictures go out, so a
PES packet that is sent later may move behind the tables, but never past the end
of another sample.

### Streaming and Vod

`length[w]` is `conf->length` in worker `w`, `arg[c]` the length argument of
client `c`, which its playlist repeats.  A request first applies its argument
(`SetOptions`), then reads the length in force.  `Respawn` is a worker replaced
by a fresh one, with the configured length.  `got[c][k]` is the answer client
`c` has for entry `k`, last fetched at any time.  A client fetches its playlist
once, as a player of recorded video does, and each segment any number of times.
A client is `Undisturbed` when it sends its own length with every request, or
when no client sends one.  `ImplementsVod` maps
the state to what the undisturbed clients see (`Seen`).

### Handler

A URL is a record of the directories the rewriting rules know, an extension, and
arguments; `Rewrite` is the rules of `README.rst` 83-87, `mp4_split_options_set` the
arguments, whose keys are compared up to the length of what is given.  `master`
and `media` are the two halves of `mp4_create_m3u8` that print links, with
`extra` and `rewrite`.  `links` is what the player may ask for, with what each link promised
when it was printed; `Follow` takes one of them.  `LinkDelivers` says what the answer is: what was
promised, or, where it is declined, why.  A link to a segment of the source
(`OfSource`) lies below `org/` and is declined always, by the rules of the
documentation; any other, when `hls_relative` is off.  Then
the handler goes step by step (`pc`), and each step has the ways it may fail as
actions of their own.  `open` counts what has been opened and not closed.

### Transcode

`pc` is the stage of the function: open, prepare, filters, read, drain, flush, end.
`held` and `kept` are the frames that decoder and encoder keep back; `owned` names
what is allocated.  Any call of the libraries may fail.  What `avcodec_open2` answers
for the encoder is not looked at (`ngx_http_adaptive_streaming.h` 285): `Prepare`
goes on with `encoder` as it comes, and the first frame that is given to an
encoder that is not open (`EncodeUnopened`), or the look at its capabilities when it
is flushed (`FlushUnopened`), is undefined.  Where a failure leads
to undefined behaviour (that one, a loop over streams that were never made, a graph of an
entry never set, a write beyond the buffer), `pc` becomes `"undefined"`, and
nothing follows: `ReleasesAll` says from where that can be reached.  Flushing goes frame
by frame, as its loops do: `FlushFilter` (the filter, which has one frame out for
each frame in, keeps nothing back), `FlushDecoder` until `FlushDecoderEnds`,
`FlushEncoder` until `FlushEncoderEnds`; each may fail (`FlushFails`).

### Mp4File

The bytes of the file are their positions, so a buffer is where it was read
from and how long it is.  `ReadHit`, `ReadBeyond`, `ReadUnallocated`, `ReadFails`
and `ReadFile` are the ways out of `mp4_read`; `WindowStart` is the place its
buffer is taken to begin at.  `pc = "header"`
is the loop of `mp4_open`; `ReadSamples` is the one read `output_ts` does with
the range of a segment.  Where a header is read that is none, any of
`GarbageSizes` may be found.

### AtomTree

The file is its atoms with their depths; `stack` is the calls of `atom_reader`,
each with its next child.  `Enter`, `Leaf`, `Unknown` and `BadHeader` are what
may come, `Store` and `AddTrack` the destinations, `Accept` and `Reject` the ends
of the reader around the loop.  Object *k* of the heap is what was built of atom
*k*, so that "freed twice" and "not reached" can be said.

### FastStart

A file is a sequence of cells that know their atom, their place in it and
whether they were patched; a size is a number of cells.  `pos` is the offset of
the descriptor that nginx keeps in its open file cache, and that therefore
outlives a request: the next scan starts wherever the last one ended.  `wpos`
is the offset of the descriptor the function opens to write.  `Load` takes
everything up to `open` in one step (none of it changes the file), and
`LoadFails` is that step broken off, with the offset at each place where it may
be left; each `write` and each `read` of the loop is an action of its own, so
that a crash or a failure may come between any two.  A read or a write may fail
(`IoFails`), and writes fail beyond `DiskCells`.  `last_offset` is unsigned and
wraps at `Modulus` (2^64 in the code).  Buffers come as they are allocated
(`Fresh`), and keep their old contents behind a short read (`Refill`); a file
may have lost cells at its end (`Truncations`).

The loop that scans ends only when `read` returns 0.  A read that fails (-1)
leaves the previous header in `atom_bytes`, and its size is skipped again
(`ScanUnread`); before the first header `atom_bytes` is not initialized, and
any type and size may be found there.  `HeaderReadsFail` says which of the two
happen in a run; `unread` remembers it, and bounds it to once a request (a disk
on which such reads fail for ever keeps the code in this loop for ever).

### Mp4Crop

The index is built first, as in `SampleIndex`; then a request with start and end
crops the same tables, one action per `ngx_http_mp4_update_*` function.  `mp4_trak`
holds the fields of `ngx_http_mp4_trak_t` by their names (it is the code's `trak`, and
`mp4_length` its `mp4->length`: the names differ because one proof module has
this module and `Playlist`).  Where the code moves the
beginning and the end of a buffer, the model takes the part of the table that
remains.  `Extents` is the loop over the tracks that finds the first and the last
byte to send, `Adjust` the moving of the chunk places.  Because both readers of
one file are in the module, `CropsExactly` can compare them.  A request is refused
(`phase = "error"`) when the first byte to send lies behind mdat: of a
range without samples, or of one whose first sample does.  `BytesFollow` supposes
that the last sample of the track begins in mdat (`samples[size].pos <= MdatEnd`); if not,
what is sent ends before it.

## The runs

| Run | States | Bounds | Shows |
|---|---|---|---|
| `playlist` | 21,908 | every track of up to 4 samples, three durations, every set of sync samples; two lengths; two time scales | the loop is correct, keeps its promise about the target duration, and implements `Tiling` |
| `segment` | 163,472 | 256 four-sample videos with each of four kinds of audio, and eight files with other orders and numbers of tracks; three numbers, two lengths | the walks choose what the playlist meant, fill every slot, and choose audio that joins up |
| `streaming` | 4,598 | 2 clients, 2 workers, two films with sound, lengths 1 and 2 or no argument | a client nobody can disturb gets what its playlist promised, in any order, with restarts, and sees a stateless service |
| `faststart` | 326,378 | 21 layouts, moov of 1 to 3 cells, bodies from as large as moov to seven times that; two requests, one crash, failing calls, a disk of 12 cells | reads stay ahead of writes; what is written is right; only files with moov last are touched, unless a header could not be read; requests end |
| `tsmux` | 25,552 | one or two tracks of two or three samples: audio that fills the payload exactly, overflows it, or does neither; pauses below and above half a second and a minute; video too small, broken, of one packet and of several | every byte once and in order, packets exactly as reserved, times those of the first sample, tables once a minute, no later and no sooner; implements `Merge` |
| `atomtree` | 30,979 | a full moov with one change anywhere, a small one with two, sequences of small tracks, more than fit | refused is what the reference refuses; nothing freed twice, little forgotten |
| `mp4file` | 270,971 | every file of up to three atoms of eight kinds, whole or cut off by 5 or 12 bytes; buffers outgrown by moov or large enough for some atoms; reads fail anywhere | the buffer is a window of the file; what is served are its bytes; whole files are opened; `mp4_open` returns |
| `sampleindex` | 323,850 | up to three chunks in any order, chunk maps of every shape, up to six samples, tables too long and too short; ranges that begin and end within, between and behind samples | samples are where the chunks are, and as the other models take them, and none is marked when stss is missing; segments' ranges hold their samples; cropped tables describe the same samples |
| `transcode` | 77,282 | six layouts of streams, up to four packets, one of them broken; two frames held back by the decoder, one by the encoder, which may not be open; three widths; room for three packets | output complete and in order; everything released; a failure is undefined only where `ReleasesAll` names it; the loops end |
| `handler` | 84,492 | files of every state and of widths on both sides of each limit; 14 URLs to start with; any step may fail | nothing stays open; links deliver what they stood for, but for segments of the source, which are declined; only widths the transcoder survives are offered |
| `streaming_configured`, `faststart_complete` | | two films; a body twice as large as moov | findings, see below |

Why the bounds are enough.  The playlist loop compares two samples at a time,
and the interesting cases (first sample not a sync sample, cut at the end,
cut skipped, two cuts in a row, a duration on the rounding boundary) need three
sync samples at most; four leave room for one more.  `segment` needs two sync
samples before the start, one inside, and audio samples finer and coarser than
the video's.  In `streaming`, two clients are one who disturbs and one who is
disturbed, and two workers are one that was reached by the argument and one
that was not; the films have segments with and without sync samples
inside.  The rewriting of `faststart` alternates two buffers: bodies of up to
seven moovs go round the loop three times, and leave every remainder.  In `tsmux` a payload
is flushed for each of its reasons and a sample goes through two of them.  In
`mp4file` moov comes before, between and behind other atoms, and with three atoms the scan
reads a header after each of the ways to move on.  `sampleindex` has entries of the
chunk map that are good for one chunk and for several, and ranges that split
none, one or two of them.  `transcode` has fewer packets, as many and more than the
codecs hold back, and an output that does and does not fit.

`Configured`, `LengthArgs`, `Films`, `Files`, `Layouts`, `Truncations`, `Tables`, `Segments`,
`Inputs`, `StartUrls`, `StartArgs`, `EndArgs`, `Others`, `GarbageSizes` are the
inputs.  `MaxRequests` and `MaxCrashes` bound the behaviours of `FastStart`;
`DiskCells` is the size of its disk, `Capacity` that of a transcoder's output.  The other state spaces are finite by
themselves.  Deadlock is not checked where a loop ends or the requests of a
behaviour are used up.

Fairness.  `Playlist`, `Segment`, `Mp4File` and `Transcode` assume that what can go on goes on
(`WF_vars(Next)`): they run in one thread, without waiting for anybody but a system
call.  That of `Transcode` leaves out the failures of flushing (`FlushFails`), so that
its loops have to end by themselves, and not because a call fails sooner or later.  `FastStart` assumes the same of the handler (`WF_vars(Handle)`), and not
of requests, which need not arrive, nor of crashes.  `Streaming` and `Handler` have no
liveness property and no fairness: clients need not ask.  The others
check safety only.

Every property of a passing run comes with a mutant of the model (the
definitions introduced by "Mutant of", listed in `PROJECT.json`) under which
TLC finds it violated.

## What the checks found

Two disagreements between the code and its documentation have runs of their own:

* `streaming_configured` (`moov.h` 219-220): the `length` argument of one
  client stays in the worker and changes the playlists and segments of all
  others it serves.  Because workers differ, a client without the argument may
  get segments that overlap or leave holes.
* `faststart_complete` (`ngx_http_mp4_faststart.h` 371-408): the loop stops when
  everything has been read; the last two buffers are never written.
  `WrittenIsRight` shows that all that was written is right: the end is missing.

Three more are in properties of the runs, which state what the code does and
hold, where a comment or the documentation says something else:

* `TablesInTime` (run `tsmux`): the comment at `output_ts.h` 26 says "resend PAT/PMT every
  100ms"; the value that would do so is commented out on line 27, and `PAT_DELTA` is a
  minute.  Tables come first, again as soon as a minute has passed, and two are never less than
  a minute apart: most segments have them once, at their start.
* `AgreesWithMedia` (run `sampleindex`): without stss every sample is a sync sample, by the
  comment at `mp4_io.h` 1223; in the index of such a track no sample is marked
  (`mp4_reader.h` 1721-1729), only its end.  Its playlist lists one segment, and that
  segment is answered with an error.
* `LinkDelivers` (run `handler`): the last entry of a master playlist is the source as it is, and the
  segments of its playlist lie below `org/`.  The rewriting rule for playlists
  there (`README.rst` 85) also matches segments, so the one meant for them (86)
  never applies, their number is lost, and they are declined; `README.rst` 107 says of that
  configuration that the module takes care of the rest.

Others were met while modelling, and show in the models, in the preconditions of
properties, or in what is left out:

* *Length.* The argument is not subject to the check the directive has
  (`ngx_http_estreaming_module.c` 63-66): 0 and negative numbers pass.
* *Markers.* An audio track whose markers coincide (two sync samples of the video within
  one audio sample) numbers its segments differently (`MarkersApart`); a segment
  without sync samples inside passes `last_chunk = 0`, "not known", to the audio
  (`AudioFollowsVideo`, `SoundWithoutHoles`: the audio may run on, but leaves no
  hole); a first sample that is no sync sample makes the first entry carry the
  number of another segment (`AnswersPlaylist`).
* *Track 0.* `output_m3u8.h` 198 takes `traks_[0]` without asking whether there is one, and
  `moov` can be accepted without (`PlaylistUndefined` in `Handler`).
* *Master playlist.* For widths from 854 to 1279 an argument of `ngx_sprintf` is
  missing (`output_m3u8.h` 110), so what follows the name is undefined.  With
  `hls_relative` off or a proxy configured, subdirectories are lost.
* *Arguments.* A key is compared up to its own length: `v=7` is `video=7`, `e` is `end`.
* *415.* `result` is never 0 where it is tested (`ngx_http_estreaming_module.c`
  302-304); only the length of the content decides.
* *fix_mp4* (`.h` 153-158): a flag setter expects NGX_CONF_UNSET in its slot, and
  `create_conf` leaves 0 there.
* *Fast start.* A body smaller than moov makes `last_offset` wrap, and the loop
  writes past the end of the file until a write fails (line 340).  The size in the
  header of moov is trusted: of a file cut off within moov the last `atom_size`
  bytes are patched and written behind ftyp (228).  A failing read of a header is
  not noticed: if moov came before, it is skipped twice, and a file that needs no
  fixing may be overwritten (130; `WritesOnlyWhenMoovLast` excepts it).  Two
  workers that fix one file at once read what the other has written.
* *dinf.* An unknown atom in dinf is stored as its `dref_` (`mp4_reader.h` 101;
  `Ordinary` in `AtomTree`).
* *Tables.* With fewer entries in ctts than samples, the index gives the last
  offset to one sample more.  A track without stco has an empty index, and stbl is
  accepted without stsc or stsz, which the index then needs.
* *Transcoding.* That an encoder could not be opened is not noticed
  (`ngx_http_adaptive_streaming.h` 285), and using it is undefined.  When the streams of the output cannot all be made, the loop at the end
  goes over streams there are none of (`CloseUndefined`); the same happens to
  a source that is not wider than what is asked for.  `write_adbr_packet` does
  not ask whether there is room.  Frames the decoder has kept back are fetched through the
  stream number of an emptied packet, and are lost when stream 0 is audio.
* *Cropping.* A range that begins in the middle of a chunk and ends in the same
  one leaves `end_chunk_samples` at 0 (`mp4_module.h` 2714), and the tables of the
  answer list samples whose bytes are not sent (`EndsWhereItBegins`).  A
  range within one sample is empty, and refused.

## What is proved

`Segmentation_proof` and `Playlist_proof` hold for every track and length that
satisfy `IsTrak`, and the theorems on `SampleIndex` and `Mp4Crop`, which `Playlist_proof` holds too, for
sample tables of any length and contents (`TablesAssumption`: numbers, a finite table of sync
samples, and a chunk map that fits the list of chunks) and any range (`CropAssumption`: numbers,
and a file that is longer than its mdat), `Streaming_proof` for segments of any file, with any number and
length, and for any clients, workers and films,
`FastStart_proof` and `Mp4File_proof` for files of any layout and size, the latter
(which holds the theorems of `Mp4File` and of `AtomTree`) for moovs of any atoms too,
`TsMux_proof` for segments of any tracks and samples, `Handler_proof` for any
files and links, `Transcode_proof` for any segments and codecs, not only for the
small instances.  The assumptions are those the modules name: `TraksAssumption`,
`LengthsAssumption`, `TablesAssumption`, `CropAssumption`, `FilesAssumption`, `ArgumentsAssumption`, `StreamingAssumption`, `FastStartAssumption`,
`Mp4FileAssumption`, `AtomTreeAssumption`, `TsMuxAssumption`, `HandlerAssumption`,
`TranscodeAssumption`, and `SizesAssumption`: no file, and nothing
the disk can hold, is as large as the number at which `last_offset` wraps.  TLC
evaluates each on the instance of the component's run.

* `NumberIdentifiesSync`: no two sync samples have one number.  It rests on
  lemmas about `Rank`, the number of sync samples before a sample: `RankStep`
  and `RankMonotone`, from the cardinality theorems of the library.
* `CutProperties`, `CutIsFirst`, `CutWithinGap`: what `Cut` returns, from
  `NatMin`, the well-ordering of the naturals.
* `Playlist_proof!TypeCorrect` and `LoopCorrect`: `Spec => []LoopInvariant`.
  `LoopInvariant` is inductive together with `TypeOK`.  Its part `EntriesAreCuts`
  alone is not, because whether the entry about to be written ends at the first
  possible cut depends on what has been passed over since `prev` (`NoCutMissed`),
  and whether its number is right depends on `i` and `prev_i` (`CountersAreRanks`).
* `PlaylistImplementsTiling`: each step of the loop is a step of `Tiling` or
  leaves its variables alone; the invariant supplies that the entry is minimal.
* `PlaylistCoversTrack`: when the loop has stopped, the entries end at the end.
* `TargetDurationHolds`: by `CutWithinGap`.
* `IndexPlacesSamples`, `IndexAgreesWithMedia`, `IndexRangesHold`: `IndexSpec =>
  []PlacedInChunks` and so on.  `IndexInv` says of each table what has been spread
  over chunks and samples so far: `ChunksMapped` (from the last entry of stsc down to
  `row`), `ChunksNumbered`, `SamplesSized`, `SamplesTimed` (up to `s`, with `pts` the time
  reached), `SamplesPlaced` (up to chunk `j`), `SamplesMarked`; it is kept by one lemma for
  each action.  The properties compare with definitions that recurse over the
  tables (`BytesOf`, `Pts`, the flattened stts, the first sample of each chunk).  That these
  are sums (`SumsUp`) is proved by giving a function that satisfies the recursion
  (`SumExists`, by the least length without one) and comparing the two up to the
  last place (`UpTo`): induction over one number, which needs no operator as
  parameter.  The ranges hold their samples because chunks that lie one behind the other
  make places rise at least as fast as bytes (`PlacesRise`).
* `CropIsMade`, `CropIsExact`, `CropBytesFollow`: `CropSpec => []CropInv`, and from it
  `CropsExactly` and `BytesFollow`.  Each table is cropped with numbers the ones before it have
  left, so the invariant has a stage for each phase of the request: the track is then
  exactly what the functions up to there make of the tables read (`TimesCropped`,
  `MarksCropped`, `OffsetsCropped`, `MapCropped`, `SizesCropped`, `PlacesCropped`), the extent of the bytes
  follows from that (`Extended`), and at the end the places are moved (`Moved`).  A lemma for
  each stage says which samples its table stands for.  The run length coded ones go by
  `Sum` and `FirstBeyond`: the item numbered *n* of what is cropped is the one
  numbered *n* plus the start of what was read, whatever entries both are in (the
  lemmas on such tables are in `Segmentation_proof`, which has what several proofs share).  The
  chunk map is the hard one: it is shown that every chunk sent has as many samples as it had,
  but for the first and the last, whose rest is what `start_chunk_samples` and
  `end_chunk_samples` say (`TablesSent`, `PlacesKept`); from that the places follow, by the sums
  over chunks, as in the index.
* `WalksChooseFragments`: `Spec => []ChoosesFragments` of `Segment`.  `SegmentInvariant`
  says where the walk over the samples stands (`WalkCounts`: nothing passed had
  the number), where `get_next` stands (`NextCounts`: it has counted the sync samples
  inside, and none passed was far enough), and that the fragments stored are those
  of the wanted tracks before `track_id` (`StoredFor`).  It is kept by one lemma
  for each action.  `FragmentsShape` unfolds the definition of a segment for
  none, one, and more wanted tracks.
* `PlaylistIsAnswered`: `ListsTheCuts` says what the playlist's recursive function
  lists, by the least entry at which that could fail (`MinIsLeast`); `EntryAnswered` that
  an entry is found by its number, by `NumberIdentifiesSync`.
* `SlotsAreFilled` and `AudioIsFollowing`: markers copied to an audio track are
  in the order of the video's sync samples (`ConvertMonotone`, `MarkerMonotone`),
  every one has one (`MarkersAre`), and where they do not coincide a marker has its sync
  sample's number (`MarkerNumber`).  A segment with a sync sample inside tells the audio
  where to stop; else the audio's own judgement is no earlier (`FarEnough`), and
  no later when there is a frame to spare (`Longer`).
* `PromisesAreKept` and `SoundIsWhole`: `AnswersRight`, an invariant of `Streaming`, says
  that what undisturbed clients have been given is the playlist of the length in
  force for them and the fragments of its numbers, whoever answered;
  `EntryAnswered` and `NoHole` say of these what the properties say.
* `UndisturbedClientsImplementVod`: `StreamingSpec => ImplementsVod`.  The invariant `Calm`
  says that where no client sends a length, all workers have the configured one
  (with `LengthsTyped`); with it `SetOptionsInForce` shows that after the options of
  a request are applied the worker has the length an undisturbed client expects,
  whatever was asked of it before.  Requests of others are stutters of what such
  clients see.  `Vod` is instantiated, and the `Same*` lemmas say that its copies of the definitions are those of
  `Segmentation`.
* `FastStart_proof!TypeCorrect`: lemmas about the operators on cells
  (`ReadAtFacts`, `OverwriteFacts`, `RefillFacts`, `PatchedFacts`), and
  `TypeInv`, which adds to `TypeOK` that both buffers are as large as moov and
  that the writer leaves no hole.  `CellsType`, about the recursive function
  that lays out a file, goes by the least atom at which it could fail (`UpTo`).
* `ReaderAhead`: `Spec => []ReadsAhead`.  `Ahead` is inductive with `TypeInv`
  and `Sizes`: before a write `wpos + moov_atom_size <= pos`, after it `wpos <=
  pos`; and the file is never smaller than it was, so that no read in the loop is
  short.  `Sizes` is what keeps `last_offset` from wrapping when it is set.
* `WriterRight`: `Spec => []WrittenIsRight`.  `Written` says what the two buffers
  hold at each point of the loop: the next two blocks of the file that is wanted
  (`Holds`), and that a block shorter than moov is the last.  That two buffers
  suffice is seen in it: what is read at `pos` is wanted one moov further on, and
  `pos` is at most one block ahead.
* `BufferIsWindow` and `ReadsTheFile`: `IInv`, the types of the places and what
  is known of buffer and reply, is kept by each way out of `mp4_read`; a hit
  in the buffer is then a part of the window, and so of the file.
* `WholeFilesOpen`: while nothing has failed, the scan of a whole file stands on the header of
  one of its atoms, behind everything it has found (`Opening`).  Atoms of a whole
  file lie apart and no two begin at one place (`AtomsApart`, `OneAtomThere`), by
  the least atom at which that could fail (`LeastIndex`): the sum that places them
  is a recursive function, which the provers can only unfold.
* `TreesOwnedOnce`: `TreeSpec => []OwnedOnce`.  `TreesSane` says that the open calls
  are nested as their atoms are, each at a child of its atom it has not got to
  (`Calls`, `Nesting`), and that the objects form a forest: each refers to atoms
  inside its own, nobody to an object twice, and no two to the same (`Forest`), nobody
  to the objects of the open calls and to the one just returned
  (`Unheld`, `Owners`).  What is reached from an object is then allocated, reached
  in one way, and apart from what is reached from another root (`RootIsTree`,
  `RootsApart`).  `Reached` recurses over the atoms; it is
  unfolded by well-founded induction over them, from the last to the first.
* `TreesLeakNothingElse`: `Accounted` says of each allocated object that it is the
  object of an open call, the one just returned, referred to by another, or
  may be forgotten, it or an atom around it (`Known`), and that what is in the lists and
  slots is of the kind that belongs there (`Sorted`), so that what `Store` overwrites
  is an earlier atom of that kind.  What is known to such an object is reached,
  by the least depth at which that could fail.
* `TreesAcceptExactly`: `Faithful` compares each open call with the definition on the
  atoms.  Of the children passed so far a slot holds the last one of its kind that
  can be read, and the list of tracks those that are played, in order (`ReadSoFar`);
  all of them could be read, and the tracks had room (`PassedBy`); an object
  referred to has been read to its end (`Chained`, `WholeRead`), so what the code finds through
  mdia, hdlr, minf, stbl and stsd is what the definition finds (`KindOf`).  When the
  loop ends its result says whether all were fine (`Ended`); what a reader returns is
  `Fine` of its atom (`AnsweredWell`).  The branch of `Break` in which an empty child is
  let off is the reason that the definition has that exception.
* `TsMux_proof!TypeCorrect`: `IInv` adds to `TypeOK` whose turn it is (`Turns`) and
  when a payload may be full (`Payloads`): only while it is being written.  That is
  why a sample larger than the payload cannot overflow it.
* `RoomIsExact`: `Room` relates the bytes left of a PES packet to the packets still
  reserved; `WritePacketFits` is the arithmetic of the first packet, which has the
  PES header and an adaptation field, against that of the count.
* `TablesAreInTime`: `Minute` says that there is a place of the tables in the bucket
  from whose time `next_pat` was computed, and that a packet that is being written
  is in time already; `Spaced`, that the tables in the bucket are a minute apart.  It needs `Base`, which types the bucket and says where
  pieces may be (`Hands`): in the payload of the fragment whose turn it is, in the
  PES packet at hand, nowhere else.
* `StampsAreRight`: `Marks` says the same of a payload as the property says of a
  packet (`Marked`), but for the moment at which a payload has its times and no
  byte yet (`AtStart`).
* `NothingIsTorn`: seen from the pieces there are four kinds of steps (`PieceSteps`):
  nothing moves, a piece is appended to what is in hand, what is in hand goes into
  the bucket, a sample has been dealt with.  `Story` is inductive under them: the
  pieces in hand join those in the bucket (`Joined`), the last one ends where the
  copying of the sample at hand has come to (`Closed`), no other is of that byte
  (`Begun`), and what is in the bucket keeps its neighbours (`Told`).
* `MergesByTime`: `Spec => ImplementsMerge`.  Each step that does not advance leaves
  the order of the ends as it was (`EndsKept`, `OrderedKept`); one that does appends
  the sample at hand behind everything else (`NewEndsLast`, which needs that no other
  track holds anything back, and `Newest`) or passes over it (`PassedOver`).
* `ClosesWhatItOpens`: `Spec => []Disposed`.  `OpenAt` says what the handler has
  open at each of its steps, and `SegmentAtHand` that only a segment asked for with
  `adbr` is transcoded: so the file stays open nowhere but where `Disposed` says.
* `LinksDeliver` and `OffersOnlyWhatWorks`: `Spec => []LinkDelivers` and
  `Spec => []OffersOnlyWider`.  `LinksListed` says that every link the player has is
  the start or one of `Listed`: the links of the start's master playlist and of the
  playlists these lead to, with the arguments of the start.  It is inductive with
  `OptionsRead` (the options are those of the request), `TypeAt` and `BodyAt`.  That
  links stay in `Listed` is the way through the arguments: what stands first
  sets the options, and what the start had sets the length and nothing else
  (`OptionsAfter`, `LengthAfter`, by the places of the names); and the arguments
  a playlist repeats are those behind what stands first (`ExtraAfter`, along the
  recursion over the arguments by the least place at which it could fail).
  `VariantsNarrower` is what keeps the transcoder from sources that are not wider.
* `WritesInOrder` and `SentIsWhole`: `Spec => []OutputInOrder` and `Spec => []NothingLost`.
  `Flowing` has three parts.  `InOrder`: pictures rise within what is written, kept
  by the encoder and held by the decoder, and from each to the next.  `Complete`:
  until something fails, whatever was read is in one of the three.  `Ending`:
  while no packet is broken `skipped` is the number of frames held, so that fetching
  ends with none, and after the flush none is kept.  There is a lemma for each
  action; `EncodedInOrder` and `EncoderGives` serve all that encode.
* `ReleasesWhatItAllocates`: `Spec => []ReleasesAll`.  `Stages` says what is
  allocated in each stage of the function; the steps of the loops that lead to what is
  undefined need an encoder that is not open or an output too long.  `Counted` is needed for the frame of
  the last fetch: while no packet is broken, as many frames are held back as
  will be fetched, so a frame is left over only after a broken packet.

Only model-checked: liveness (`RequestEnds`, `Returns`, `Ends`), which is out of the
prover's reach, and `WritesOnlyWhenMoovLast`.  That depends
on where a scan lands that begins in a file an earlier request left half
rewritten: that no such scan finds moov last is a matter of the sizes of the
atoms of the instance, and no invariant for all layouts is known.

## What is left out

* Movie fragments (`mvex`), and chunk maps that contradict the list of chunks.
* The limits on the size of a segment (`output_ts.h` 797-818), the failure of
  `malloc` in the muxer, and the contents of PES packets: bytes are counted.
* Arithmetic of 64-bit times; `float` rounding as described above.
* AtomTree: 64-bit sizes within moov; readers that do not measure what they read
  are given what they expect (`Measured`); the descriptors within a sample entry
  are a flag.
* Transcode: memory for single frames and packets; what is given to
  `av_interleaved_write_frame` is taken to be written at once.
* Handler: arguments of 100 bytes and more, the parsing and merging of directives
  (but for the default of `segment_length`, with which a respawned worker begins), HEAD requests, and the
  alignment of the file, a branch never taken.
* FastStart: 64-bit atom sizes, sizes below that of a header, headers cut off by
  the end of the file, short writes (the code's own TODO), a second worker at
  work on the same file.  A header is one cell; the patching of offsets is one
  flag per cell.
* Mp4Crop: one track is cropped, of the others only begin and end are chosen;
  reading the atoms into the buffer, durations in mvhd, tkhd and mdhd, co64, tracks with
  one size for all samples, and sending.
* `view_count.h` is a stub; `mp4_split` and `get_aligned_start_and_end` are
  never called.

What would come next: two workers at `FastStart`, for which the code would first need a
lock; `Mp4File` and `AtomTree` composed, so that a moov comes out of the buffer that was read.
