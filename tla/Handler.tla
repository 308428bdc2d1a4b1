------------------------------- MODULE Handler -------------------------------
(***************************************************************************)
(* A player and ngx_estreaming_handler.  The player starts with a URL of   *)
(* its own and then follows what the playlists list, in any order: the     *)
(* master playlist names the variants by directories (adbr/480p/..., org/  *)
(* ...), the rewriting rules the README gives turn the directories into    *)
(* arguments, mp4_split_options_set reads the arguments, and the playlist  *)
(* of a variant removes from the arguments what its own URL says again.    *)
(* Each request takes the handler's steps one by one, and any of them may  *)
(* fail.                                                                   *)
(*                                                                         *)
(* A URL is a record: the directories the rules know (variant, resolution, *)
(* number), the extension, the arguments, and whether it leads to the file *)
(* at all.  Arguments are of fewer than 100 bytes.  The parts the handler  *)
(* calls are reduced to what it does with their results; that a transcoder *)
(* leaves the worker in an undefined state is shown in Transcode.          *)
(***************************************************************************)
EXTENDS Naturals, FiniteSets, SequencesExt

CONSTANTS
  Files,        \* records of state, moov, width and numbers
  StartUrls,    \* what a player may start with
  NoNumber

\* The numbers are names of segments: nothing else has one.
IsUrl(u) ==
  /\ u = [variant |-> u.variant, resolution |-> u.resolution, number |-> u.number,
          ext |-> u.ext, args |-> u.args, leads |-> u.leads]
  /\ u.args \in Seq(ToSet(u.args)) /\ u.leads \in BOOLEAN
  /\ u.number # NoNumber => u.ext = "ts"

ASSUME HandlerAssumption ==
  /\ \A u \in StartUrls : IsUrl(u)
  /\ \A f \in Files :
       /\ f.state \in {"file", "missing", "denied", "broken", "directory"}
       /\ f.moov \in {"good", "absent", "empty", "bad"} /\ f.width \in Nat
       /\ NoNumber \notin f.numbers

VARIABLES
  file, relative, proxy, fix,   \* the file asked for, and the configuration
  start,     \* the URL the player started with
  links,     \* what the player may ask for: URLs and what they promise
  request,   \* the link that is followed
  pc,        \* the step the handler is in
  options,   \* mp4_split_options_t
  open,      \* how often mp4_context and fmt_ctx have been opened more than closed
  body,      \* what is in bucket: <<>>, or the content to be sent
  answer     \* the status

vars == <<file, relative, proxy, fix, start, links, request, pc, options, open, body, answer>>
world == <<file, relative, proxy, fix, start>>

-----------------------------------------------------------------------------
(* URLs and arguments                                                      *)

Arg(k, v) == [key |-> k, val |-> v]

\* The rules of README.rst:83-87, the first that matches.  The first two need
\* a resolution: without one adbr is a directory like any other, and nothing is
\* in it.  The third takes every URL below org/ that is no playlist to the
\* directory the file is in, so that the fourth, for its segments, is never
\* reached.
Rewrite(url) ==
  LET adbr == <<Arg("adbr", "true"), Arg("vr", url.resolution)>>
      video == IF url.number = NoNumber THEN <<>> ELSE <<Arg("video", url.number)>>
      org == <<Arg("org", "true")>>
  IN  CASE url.variant = "adbr" /\ url.resolution # "none" ->
             [url EXCEPT !.args = video \o adbr \o @]
        [] url.variant = "adbr" /\ url.resolution = "none" ->
             [url EXCEPT !.args = video \o @, !.leads = FALSE]
        [] url.variant = "org" /\ url.number = NoNumber ->
             [url EXCEPT !.args = org \o @]
        [] url.variant = "org" /\ url.number # NoNumber ->
             [url EXCEPT !.args = org \o @, !.ext = "/"]
        [] OTHER -> [url EXCEPT !.args = video \o @]

\* strncmp(name, key, key_len): a key may be cut short, and the first name in
\* the order of the code that begins with it is meant.
Means(key) ==
  LET short == [s |-> "start", st |-> "start", e |-> "end", b |-> "bitrate",
                o |-> "org", v |-> "video", vi |-> "video", a |-> "audio",
                l |-> "length", h |-> "hash", i |-> "input", ad |-> "adbr"]
  IN  IF key \in DOMAIN short THEN short[key] ELSE key

NoOptions == [adbr |-> FALSE, org |-> FALSE, resolution |-> "none",
              number |-> NoNumber, length |-> "configured"]
Resolutions == {"360p", "480p", "720p"}

\* The arguments one after the other: a later one overrides an earlier one, and
\* what has no meaning changes nothing.
mp4_split_options_set(args) ==
  LET places(name) == {k \in DOMAIN args : Means(args[k].key) = name}
      said(name) == \E k \in places(name) : args[k].val = "true"
      last(ks, default) == IF ks = {} THEN default ELSE args[Max(ks)].val
  IN  [adbr |-> said("adbr"), org |-> said("org"),
       resolution |-> last({k \in places("vr") : args[k].val \in Resolutions},
                           NoOptions.resolution),
       number |-> last(places("video"), NoOptions.number),
       length |-> last(places("length"), NoOptions.length)]

\* The width of what is asked for; 640 without a resolution.
WidthOf(resolution) ==
  CASE resolution = "720p" -> 1280 [] resolution = "480p" -> 854 [] OTHER -> 640

-----------------------------------------------------------------------------
(* The playlists                                                           *)

Link(url, kind, resolution, number) ==
  [url |-> url, kind |-> kind, resolution |-> resolution, number |-> number]

\* Mutant of Variants: a variant as wide as the source is listed as well.
VariantsSame(width) ==
  {r \in Resolutions : WidthOf(r) <= width}

\* The variants listed for a source of this width, besides the source itself.
Variants(width) ==
  CASE width >= 1920 -> Resolutions
    [] width >= 1280 /\ width < 1920 -> {"360p", "480p"}
    [] width >= 854 /\ width < 1280 -> {"360p"}
    [] OTHER -> {}

\* The name of a playlist is the file's own, or, with hls_relative off, a whole
\* URL, which below a directory leads nowhere.
PlaylistUrl(url, variant, resolution, args) ==
  [url EXCEPT !.variant = variant, !.resolution = resolution, !.number = NoNumber,
              !.ext = "m3u8", !.args = args, !.leads = @ /\ relative]

\* Between 854 and 1280 the arguments are missing from ngx_sprintf: whatever is
\* found in their place is printed.
ArgsPrinted(args) ==
  IF file.width >= 854 /\ file.width < 1280 THEN <<Arg("?", "?")>> ELSE args

master(url, args) ==
  {Link(PlaylistUrl(url, "adbr", r, ArgsPrinted(args)), "media", r, NoNumber) :
     r \in Variants(file.width)}
  \cup {Link(PlaylistUrl(url, "org", "none", args), "media", "none", NoNumber)}

\* Mutant of extra: nothing is repeated.
extra_none(args) == <<>>

\* The arguments are repeated without those that made this a variant's
\* playlist; adbr=true goes only with the & behind it.
extra(args) ==
  LET named(k) ==
        \/ options.adbr /\ args[k] = Arg("adbr", "true") /\ k < Len(args)
        \/ ~options.adbr /\ args[k] = Arg("org", "true")
        \/ options.resolution # "none" /\ args[k] = Arg("vr", options.resolution)
      kept[k \in 0 .. Len(args)] ==
        IF k = 0 THEN <<>>
        ELSE IF named(k) THEN kept[k - 1] ELSE Append(kept[k - 1], args[k])
  IN  kept[Len(args)]

\* An entry is relative to the URL of the playlist; with hls_proxy_address it
\* begins with the address, the name of the location, and the variant.
SegmentUrl(url, args, n) ==
  IF proxy
  THEN [url EXCEPT !.variant = IF options.adbr THEN "adbr" ELSE "org",
                   !.resolution = options.resolution, !.number = n, !.ext = "ts",
                   !.args = extra(args), !.leads = relative]
  ELSE [url EXCEPT !.number = n, !.ext = "ts", !.args = extra(args),
                   !.leads = @ /\ relative]

media(url, args) ==
  {Link(SegmentUrl(url, args, n), "segment",
        IF options.adbr /\ options.resolution = "none" THEN "360p" ELSE options.resolution, n) :
     n \in file.numbers}

-----------------------------------------------------------------------------
(* The handler                                                             *)

Closed == [context |-> 0, probe |-> 0]

Init ==
  /\ file \in Files /\ relative \in BOOLEAN /\ proxy \in BOOLEAN /\ fix \in BOOLEAN
  /\ start \in StartUrls
  /\ links = {Link(start, "start", "none", NoNumber)}
  /\ request = Link(start, "start", "none", NoNumber)
  /\ pc = "idle" /\ options = NoOptions /\ open = Closed /\ body = <<>>
  /\ answer = "none"

\* The player follows a link.
Follow ==
  /\ pc = "idle" /\ answer = "none"
  /\ request' \in links /\ pc' = "begin"
  /\ UNCHANGED <<world, links, options, open, body, answer>>

Asked == Rewrite(request.url)
Step(from, to) == /\ pc = from /\ pc' = to
                  /\ UNCHANGED <<world, request>>
\* The handler returns.
Answer(from, status) == Step(from, "answered") /\ answer' = status
Goes(from, to) == Step(from, to) /\ UNCHANGED answer

\* A directory is another handler's; only GET and HEAD are allowed; discarding
\* the body of a request may fail, and so may mapping the URL to a path.
Decline == /\ Asked.ext = "/" /\ Answer("begin", "declined")
           /\ UNCHANGED <<links, options, open, body>>

BeginFails == /\ Asked.ext # "/" /\ \E status \in {"405", "500"} : Answer("begin", status)
              /\ UNCHANGED <<links, options, open, body>>

Begin ==
  /\ Asked.ext # "/" /\ Goes("begin", "extension")
  /\ options' = mp4_split_options_set(Asked.args)
  /\ UNCHANGED <<links, open, body>>

\* ngx_memcmp compares as many characters as the extension has: what begins
\* like a known one is taken for it, the empty one for mp4.
Type(ext) ==
  CASE ext \in {"", "m", "mp", "mp4"} -> "mp4" [] ext \in {"m3", "m3u", "m3u8"} -> "m3u8"
    [] ext \in {"l", "le", "len"} -> "len" [] ext \in {"t", "ts"} -> "ts"
    [] OTHER -> "unknown"

\* ngx_http_mp4_handler answers, which is a module of its own.
PlayMp4 == /\ Type(Asked.ext) = "mp4" /\ Answer("extension", "mp4")
           /\ UNCHANGED <<links, options, open, body>>

WrongType == /\ Type(Asked.ext) = "unknown" /\ Answer("extension", "415")
             /\ UNCHANGED <<links, options, open, body>>

OpenFile ==
  /\ Type(Asked.ext) \notin {"mp4", "unknown"}
  /\ \/ /\ Asked.leads /\ file.state = "file" /\ Goes("extension", "fix")
     \/ (~Asked.leads \/ file.state = "missing") /\ Answer("extension", "404")
     \/ /\ Asked.leads
        /\ \/ file.state = "denied" /\ Answer("extension", "403")
           \/ file.state = "broken" /\ Answer("extension", "500")
           \/ file.state = "directory" /\ Answer("extension", "declined")
  /\ UNCHANGED <<links, options, open, body>>

\* ngx_http_enable_fast_start, if it is switched on.
Fix ==
  /\ \/ Goes("fix", "open")
     \/ fix /\ Answer("fix", "500")
  /\ UNCHANGED <<links, options, open, body>>

Opens(what) == open' = [open EXCEPT ![what] = @ + 1]
Closes(what) ==
  open' = [w \in DOMAIN open |-> IF w \in what THEN open[w] - 1 ELSE open[w]]

\* A file without moov is opened as well.
OpenMp4 ==
  /\ file.moov # "bad" /\ Goes("open", Type(Asked.ext)) /\ Opens("context")
  /\ UNCHANGED <<links, options, body>>

OpenMp4Fails ==
  /\ Answer("open", "500")
  /\ UNCHANGED <<links, options, open, body>>

\* Only the master playlist and the length need ffmpeg to look at the file.
SkipProbe ==
  /\ options.adbr \/ options.org
  /\ Goes("m3u8", "playlist")
  /\ UNCHANGED <<links, options, open, body>>

ToProbe == pc = "len" \/ (pc = "m3u8" /\ ~options.adbr /\ ~options.org)

Probe ==
  /\ ToProbe /\ Goes(pc, "probed") /\ Opens("probe")
  /\ UNCHANGED <<links, options, body>>

ProbeFails ==
  /\ ToProbe /\ Answer(pc, "500") /\ Closes({"context"})
  /\ UNCHANGED <<links, options, body>>

\* Mutant of NoStreams: mp4_close is forgotten.
NoStreamsOpen ==
  /\ Answer("probed", "500") /\ Closes({"probe"})
  /\ UNCHANGED <<links, options, body>>

\* No stream information, or no memory for printing the length.
NoStreams ==
  /\ Answer("probed", "500") /\ Closes({"context", "probe"})
  /\ UNCHANGED <<links, options, body>>

Length ==
  /\ Type(Asked.ext) = "len" /\ Goes("probed", "response")
  /\ body' = <<"length">> /\ Closes({"probe"})
  /\ UNCHANGED <<links, options>>

\* The width of the source is known.
Width ==
  /\ Type(Asked.ext) = "m3u8" /\ Goes("probed", "playlist") /\ Closes({"probe"})
  /\ UNCHANGED <<links, options, body>>

\* mp4_create_m3u8 finds no index: nothing is inserted.
NoPlaylist ==
  /\ Goes("playlist", "response")
  /\ UNCHANGED <<links, options, open, body>>

MasterPlaylist ==
  /\ ~options.adbr /\ ~options.org /\ file.moov \in {"good", "empty"}
  /\ Goes("playlist", "response")
  /\ body' = <<"master">> /\ links' = links \cup master(request.url, Asked.args)
  /\ UNCHANGED <<options, open>>

MediaPlaylist ==
  /\ options.adbr \/ options.org
  /\ file.moov = "good" /\ Goes("playlist", "response")
  /\ body' = <<"media">> /\ links' = links \cup media(request.url, Asked.args)
  /\ UNCHANGED <<options, open>>

\* Printing arguments that are missing may do anything, and so may the track
\* of a file that has none.
PlaylistUndefined ==
  /\ \/ ~options.adbr /\ ~options.org /\ file.width >= 854 /\ file.width < 1280
     \/ (options.adbr \/ options.org) /\ file.moov = "empty"
  /\ file.moov # "absent"
  /\ Goes("playlist", "undefined")
  /\ UNCHANGED <<links, options, open, body>>

\* output_ts fails for a number that is not there, or without an index.
SegmentFails ==
  /\ Answer("ts", "500") /\ Closes({"context"})
  /\ UNCHANGED <<links, options, body>>

Chosen == IF options.number = NoNumber THEN "0" ELSE options.number
Segment ==
  /\ file.moov = "good" /\ Chosen \in file.numbers
  /\ Goes("ts", IF options.adbr THEN "transcode" ELSE "response")
  /\ body' = <<"segment", Chosen, "none">>
  /\ UNCHANGED <<links, options, open>>

\* The content of the bucket is replaced, or, when ngx_estreaming_adaptive_bitrate
\* fails, left; when there is no buffer for it the handler returns at once.
Transcode ==
  /\ file.width > WidthOf(options.resolution)
  /\ \/ /\ Goes("transcode", "response")
        /\ body' \in {[body EXCEPT ![3] = IF options.resolution = "none" THEN "360p"
                                          ELSE options.resolution], body}
     \/ Answer("transcode", "500") /\ UNCHANGED body
  /\ UNCHANGED <<links, options, open>>

\* A source that is not wider: see Transcode!CloseUndefined.
TranscodeRefused ==
  /\ file.width <= WidthOf(options.resolution)
  /\ Goes("transcode", "undefined")
  /\ UNCHANGED <<links, options, open, body>>

\* result is 415 or 200 and so never 0: only the length of the content counts.
Respond ==
  /\ Answer("response", IF body = <<>> THEN "415" ELSE "200")
  /\ Closes({"context"})
  /\ UNCHANGED <<links, options, body>>

\* The player has the answer.
Done ==
  /\ pc = "answered" /\ pc' = "idle" /\ answer' = "none"
  /\ open' = Closed /\ body' = <<>> /\ options' = NoOptions
  /\ UNCHANGED <<world, links, request>>

Next ==
  \/ Follow \/ Decline \/ BeginFails \/ Begin \/ PlayMp4 \/ WrongType \/ OpenFile
  \/ Fix \/ OpenMp4 \/ OpenMp4Fails
  \/ SkipProbe \/ Probe \/ ProbeFails \/ NoStreams \/ Length \/ Width
  \/ NoPlaylist \/ MasterPlaylist \/ MediaPlaylist \/ PlaylistUndefined
  \/ SegmentFails \/ Segment \/ Transcode \/ TranscodeRefused
  \/ Respond \/ Done

Spec == Init /\ [][Next]_vars

-----------------------------------------------------------------------------
\* Whatever fails, the handler has closed what it has opened, once, when it
\* returns: but for the file, when there is no memory for the buffer of a
\* transcoded segment.
Disposed ==
  answer # "none" =>
    \/ open = Closed
    \/ answer = "500" /\ body # <<>> /\ options.adbr /\ open = [Closed EXCEPT !.context = 1]

\* A player that starts at the master playlist, with whole names of arguments.
Browsing ==
  start.variant = "none" /\
  \A k \in DOMAIN start.args : start.args[k].key \in {"length", "hash"}

\* A segment of the source: its link is below org/.
OfSource(link) == link.kind = "segment" /\ link.resolution = "none"

\* Following a link of a playlist gives what the link stood for: the variant of
\* that resolution, the segment of that number, cut at the length the player
\* asked for when it began.  The way leads through names, rewriting rules,
\* arguments and back.  Unless hls_relative is off it leads to the file, but for
\* the segments of the source: with the rules of the README (README.rst:85)
\* these are all declined, which leaves a player without what the last entry of
\* the master playlist offers.  (Of a source between 854 and 1280 the length is
\* lost.)
LinkDelivers ==
  Browsing /\ request.kind # "start" =>
    /\ OfSource(request) => answer \in {"none", "declined"}
    /\ relative /\ ~ OfSource(request) => answer \notin {"404", "declined"}
    /\ answer = "200" =>
         /\ options.adbr = (request.resolution # "none")
         /\ options.resolution = request.resolution
         /\ request.kind = "media" => body = <<"media">>
         /\ request.kind = "segment" => body[1] = "segment" /\ body[2] = request.number
         /\ file.width \notin 854..1279 =>
              options.length = mp4_split_options_set(start.args).length

\* The transcoder does not survive a source that is not wider than what it is
\* asked for; the master playlist leads nobody there.
OffersOnlyWider ==
  pc = "undefined" /\ Browsing => body = <<>>
=============================================================================
