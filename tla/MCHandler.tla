------------------------------ MODULE MCHandler ------------------------------
(***************************************************************************)
(* One file of each kind there is, and good ones of widths on both sides   *)
(* of each limit; two segments.  The player starts with the master         *)
(* playlist, without arguments, with a length, or with a key that is the   *)
(* beginning of another; with arguments typed in either order; with the    *)
(* length of the file, an mp4, a directory, or something else.             *)
(***************************************************************************)
EXTENDS Handler

MCNumbers == {"0", "3"}
Good(w) == [state |-> "file", moov |-> "good", width |-> w, numbers |-> MCNumbers]
MCFiles ==
  {Good(w) : w \in {640, 853, 854, 1279, 1280, 1920}}
  \cup {[Good(1280) EXCEPT !.state = s] : s \in {"missing", "denied", "broken", "directory"}}
  \cup {[Good(1280) EXCEPT !.moov = m] : m \in {"absent", "empty", "bad"}}

Url(ext, args) ==
  [variant |-> "none", resolution |-> "none", number |-> NoNumber, ext |-> ext,
   args |-> args, leads |-> TRUE]
MCStartUrls ==
  {Url("m3u8", args) :
     args \in {<<>>, <<Arg("length", "3")>>, <<Arg("length", "3"), Arg("length", "4")>>,
               <<Arg("st", "x"), Arg("e", "9")>>, <<Arg("v", "7")>>,
               <<Arg("adbr", "true"), Arg("vr", "480p")>>,
               <<Arg("vr", "480p"), Arg("adbr", "true")>>, <<Arg("adbr", "true")>>,
               <<Arg("org", "true")>>}}
  \cup {Url(ext, <<>>) : ext \in {"len", "mp4", "m", "flv", "/"}}
=============================================================================
