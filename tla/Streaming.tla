----------------------------- MODULE Streaming ------------------------------
(***************************************************************************)
(* Clients, and the worker processes of nginx that serve them.  A request  *)
(* is handled in one go: ngx_estreaming_handler reads the file with        *)
(* blocking calls and never returns to the event loop before its answer is *)
(* complete, so a request is one action.  Requests of different clients    *)
(* reach any worker, in any order, and are repeated at will.               *)
(*                                                                         *)
(* What ties requests together is hls_conf_t: every worker has its copy of *)
(* the location's configuration, and mp4_split_options_set writes the      *)
(* length argument of a request into it.  The playlist repeats the         *)
(* arguments it was asked with in the URLs it lists (extra), so a client   *)
(* that asks for a length sends it again with each segment.                *)
(***************************************************************************)
EXTENDS Segmentation, SequencesExt

CONSTANTS
  Workers, Clients,
  Films,           \* the files that may be played
  Configured,      \* the values segment_length may be configured to
  LengthArgs,      \* the values of the length argument clients use
  None,            \* a client that uses no length argument
  NotFetched       \* no answer yet

ASSUME StreamingAssumption ==
  /\ \A f \in Films : /\ Len(f) \in Nat \ {0} /\ DOMAIN f = 1 .. Len(f)
                      /\ \A k \in DOMAIN f : IsTrak(f[k])
  /\ Configured \subseteq Nat \ {0} /\ LengthArgs \subseteq Nat
  /\ None \notin Nat

VARIABLES
  file,            \* the file, after moov_build_index
  configured,      \* segment_length in nginx.conf (or its default)
  arg,             \* the length argument each client uses, or None
  length,          \* conf->length in each worker
  playlist, got

streamingVars == <<file, configured, arg, length, playlist, got>>

StreamingInit ==
  /\ file \in Films /\ configured \in Configured
  /\ arg \in [Clients -> LengthArgs \cup {None}]
  /\ length = [w \in Workers |-> configured]
  /\ playlist = [c \in Clients |-> <<>>]
  /\ got = [c \in Clients |-> <<>>]

\* mp4_split_options_set: what worker w does with the length argument of a
\* request of client c, before anything else is done for it.
SetOptions(w, c) ==
  length' = IF arg[c] = None THEN length ELSE [length EXCEPT ![w] = arg[c]]

\* A request for the media playlist: mp4_create_m3u8 with conf->length.
FetchPlaylist(c, w) ==
  /\ playlist[c] = <<>>
  /\ SetOptions(w, c)
  /\ LET list == PlaylistOf(file[1], length'[w])
     IN  /\ playlist' = [playlist EXCEPT ![c] = list]
         /\ got' = [got EXCEPT ![c] = [k \in DOMAIN list |-> NotFetched]]
  /\ UNCHANGED <<file, configured, arg>>

\* Mutant of FetchSegment: conf->length is read before the arguments are parsed.
FetchSegmentEarly(c, w, k) ==
  /\ SetOptions(w, c)
  /\ got' = [got EXCEPT ![c][k] =
               FragmentsOf(file, AudioTrack(0), playlist[c][k].number, length[w])]
  /\ UNCHANGED <<file, configured, arg, playlist>>

\* A request for the segment of entry k, for the first time or again:
\* output_ts with conf->length.  No fragments: answered with an error.
FetchSegment(c, w, k) ==
  /\ SetOptions(w, c)
  /\ got' = [got EXCEPT ![c][k] =
               FragmentsOf(file, AudioTrack(0), playlist[c][k].number, length'[w])]
  /\ UNCHANGED <<file, configured, arg, playlist>>

\* A worker exits, and the master process starts a new one, which reads its
\* configuration as the master had read it.
Respawn(w) ==
  /\ length[w] # configured
  /\ length' = [length EXCEPT ![w] = configured]
  /\ UNCHANGED <<file, configured, arg, playlist, got>>

StreamingNext ==
  \E w \in Workers :
    \/ Respawn(w)
    \/ \E c \in Clients :
         \/ FetchPlaylist(c, w)
         \/ \E k \in DOMAIN playlist[c] : FetchSegment(c, w, k)

StreamingSpec == StreamingInit /\ [][StreamingNext]_streamingVars

\* A client the others cannot disturb: it sends a length argument with every
\* request, or nobody ever does.
Undisturbed(c) == arg[c] # None \/ \A d \in Clients : arg[d] = None

-----------------------------------------------------------------------------

Fetched(c) == {k \in DOMAIN got[c] : got[c][k] # NotFetched}

\* Whatever the others do, and whichever workers answer, in any order and
\* after any restart, an undisturbed client gets for each entry of its
\* playlist the samples the playlist promised (when the first track is a video
\* that starts with a sync sample).
PromiseKept ==
  \A c \in Clients :
    Undisturbed(c) /\ file[1].kind = "vide" /\ 0 \in file[1].sync =>
      \A k \in Fetched(c) :
        LET e == playlist[c][k]
        IN  /\ got[c][k] # <<>>
            /\ got[c][k][1] = [track |-> 0, first |-> e.from, last |-> e.to]

\* The sound of the segments an undisturbed client plays one after the other
\* has no hole, although the playlist was made from the video alone: the audio
\* of the next segment starts where this one's ends, or before.
SoundWithoutHoles ==
  \A c \in Clients :
    Undisturbed(c) /\ Len(file) = 2 /\ file[1].kind = "vide" /\ 0 \in file[1].sync
      /\ MarkedBy(file[1], file[2]) /\ MarkersApart(file[1], file[2]) =>
      \A k \in Fetched(c) :
        k + 1 \in Fetched(c) /\ Len(got[c][k + 1]) = 2 =>
          /\ Len(got[c][k]) = 2
          /\ got[c][k + 1][2].first <= got[c][k][2].last

\* To a client nobody can disturb the service is stateless, whatever the others
\* do meanwhile: what such clients see is a behaviour of Vod.
InForce == [c \in Clients |-> IF arg[c] = None THEN configured ELSE arg[c]]
Seen(answers) == [c \in Clients |-> IF Undisturbed(c) THEN answers[c] ELSE <<>>]
Stateless == INSTANCE Vod WITH inForce <- InForce,
                               playlist <- Seen(playlist), got <- Seen(got)
ImplementsVod == Stateless!Spec

-----------------------------------------------------------------------------
(* What the documentation says, and the code does not do.                  *)

\* README.rst: segment_length is the "length of ts chunk files, in second".
\* A client that asks for no other length is given a playlist cut at it.
SegmentLengthIsConfigured ==
  \A c \in Clients :
    arg[c] = None /\ playlist[c] # <<>> => playlist[c] = PlaylistOf(file[1], configured)
=============================================================================
