-------------------------------- MODULE Vod ---------------------------------
(***************************************************************************)
(* The service as its users are meant to see it: stateless.  What a client *)
(* gets depends on the file and on the segment length that is in force for *)
(* that client, never on who else asked for what, on which worker process  *)
(* answered, or on when.                                                   *)
(***************************************************************************)
EXTENDS Segmentation

CONSTANTS
  Clients,
  NotFetched   \* no answer yet

VARIABLES
  file,       \* the indexed tracks of the file everybody plays
  inForce,    \* the segment length in force for each client
  playlist,   \* what each client was told; <<>> before that
  got         \* the answer each client has for each entry of its playlist

vars == <<file, inForce, playlist, got>>

Init ==
  /\ \A k \in DOMAIN file : IsTrak(file[k])
  /\ inForce \in [Clients -> Nat]
  /\ playlist = [c \in Clients |-> <<>>]
  /\ got = [c \in Clients |-> <<>>]

FetchPlaylist(c) ==
  LET list == PlaylistOf(file[1], inForce[c])
  IN  /\ playlist[c] = <<>>
      /\ playlist' = [playlist EXCEPT ![c] = list]
      /\ got' = [got EXCEPT ![c] = [k \in DOMAIN list |-> NotFetched]]
      /\ UNCHANGED <<file, inForce>>

FetchSegment(c, k) ==
  /\ got' = [got EXCEPT ![c][k] =
               FragmentsOf(file, AudioTrack(0), playlist[c][k].number, inForce[c])]
  /\ UNCHANGED <<file, inForce, playlist>>

Next ==
  \E c \in Clients :
    \/ FetchPlaylist(c)
    \/ \E k \in DOMAIN playlist[c] : FetchSegment(c, k)

Spec == Init /\ [][Next]_vars
=============================================================================
