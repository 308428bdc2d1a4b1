---------------------------- MODULE Handler_proof ----------------------------
(***************************************************************************)
(* Theorems about Handler, for any files, URLs to start with, and links,   *)
(* whichever step of the handler fails.                                    *)
(***************************************************************************)
EXTENDS Handler, WellFoundedInduction, SequenceTheorems, TLAPS

\* What the handler has open at each step.
Opened == [context |-> 1, probe |-> 0]
Probing == [context |-> 1, probe |-> 1]
OpenAt ==
  /\ pc \in {"idle", "begin", "extension", "fix", "open"} => open = Closed
  /\ pc \in {"m3u8", "len", "ts", "playlist", "transcode", "response"} => open = Opened
  /\ pc = "probed" => open = Probing

\* The answer is given when the handler returns, and not before.
AnswerAtEnd ==
  /\ pc \in {"idle", "begin", "extension", "fix", "open", "m3u8", "len", "ts", "playlist",
             "transcode", "response", "probed", "undefined", "answered"}
  /\ pc # "answered" => answer = "none"

\* Beyond the test of its extension a request is for something the handler has.
KnownType == pc \in {"fix", "open"} => Type(Asked.ext) \notin {"mp4", "unknown"}

\* What is to be transcoded is a segment, asked for with adbr.
SegmentAtHand == pc = "transcode" => body # <<>> /\ options.adbr

IInv == OpenAt /\ AnswerAtEnd /\ KnownType /\ SegmentAtHand /\ Disposed

\* The handler knows four types, and takes all else for unknown.
LEMMA TypeValues ==
  ASSUME NEW ext
  PROVE  Type(ext) \in {"mp4", "m3u8", "len", "ts", "unknown"}
BY DEF Type

\* What opening and closing does to the two counters.
LEMMA Counters ==
  /\ [Closed EXCEPT !["context"] = @ + 1] = Opened
  /\ [Opened EXCEPT !["probe"] = @ + 1] = Probing
  /\ [w \in DOMAIN Opened |-> IF w \in {"context"} THEN Opened[w] - 1 ELSE Opened[w]] = Closed
  /\ [w \in DOMAIN Probing |-> IF w \in {"probe"} THEN Probing[w] - 1 ELSE Probing[w]] = Opened
  /\ [w \in DOMAIN Probing |->
        IF w \in {"context", "probe"} THEN Probing[w] - 1 ELSE Probing[w]] = Closed
<1> DEFINE Names == {"context", "probe"}
<1> DEFINE Two(c, p) == [w \in Names |-> IF w = "context" THEN c ELSE p]
<1>1. Closed = Two(0, 0) /\ Opened = Two(1, 0) /\ Probing = Two(1, 1)
  BY DEF Closed, Opened, Probing
<1>2. /\ [Two(0, 0) EXCEPT !["context"] = @ + 1] = Two(1, 0)
      /\ [Two(1, 0) EXCEPT !["probe"] = @ + 1] = Two(1, 1)
  <2>1. \A c, p : /\ [Two(c, p) EXCEPT !["context"] = @ + 1] = Two(c + 1, p)
                  /\ [Two(c, p) EXCEPT !["probe"] = @ + 1] = Two(c, p + 1)
    <3> "context" # "probe"
      OBVIOUS
    <3> QED
      BY Zenon
  <2>2. 0 + 1 = 1
    OBVIOUS
  <2> QED
    BY <2>1, <2>2
<1>3. \A c, p \in 0 .. 1 : DOMAIN Two(c, p) = Names
  OBVIOUS
<1>4. [w \in Names |-> IF w \in {"context"} THEN Two(1, 0)[w] - 1 ELSE Two(1, 0)[w]] = Two(0, 0)
  OBVIOUS
<1>5. [w \in Names |-> IF w \in {"probe"} THEN Two(1, 1)[w] - 1 ELSE Two(1, 1)[w]] = Two(1, 0)
  OBVIOUS
<1>6. [w \in Names |-> IF w \in Names THEN Two(1, 1)[w] - 1 ELSE Two(1, 1)[w]] = Two(0, 0)
  OBVIOUS
<1> QED
  BY <1>1, <1>2, <1>3, <1>4, <1>5, <1>6

\* Before the first request nothing is open.
LEMMA InitIInv == Init => IInv
BY DEF Init, IInv, OpenAt, AnswerAtEnd, KnownType, SegmentAtHand, Disposed

\* Every step of the handler keeps what is open, and its type, in order.
LEMMA StepIInv == IInv /\ [Next]_vars => IInv'
<1> SUFFICES ASSUME IInv, [Next]_vars PROVE IInv'
  OBVIOUS
<1> USE DEF IInv, OpenAt, AnswerAtEnd, KnownType, SegmentAtHand, Disposed, world
<1>1. CASE Follow
  BY <1>1 DEF Follow
<1>2. CASE Decline \/ BeginFails \/ PlayMp4 \/ WrongType
  BY <1>2 DEF Decline, BeginFails, PlayMp4, WrongType, Answer, Step
<1>3. CASE Begin
  BY <1>3 DEF Begin, Goes, Step
<1>4. CASE OpenFile
  <2>1. CASE Goes("extension", "fix")
    BY <1>4, <2>1 DEF OpenFile, Goes, Step, Asked
  <2>2. CASE \E status \in {"404", "403", "500", "declined"} : Answer("extension", status)
    BY <1>4, <2>2 DEF OpenFile, Answer, Step
  <2> QED
    BY <1>4, <2>1, <2>2 DEF OpenFile
<1>5. CASE Fix
  BY <1>5 DEF Fix, Goes, Answer, Step, Asked
<1>6. CASE OpenMp4
  <2>1. open' = Opened
    BY <1>6, Counters DEF OpenMp4, Opens, Goes, Step
  <2>2. Type(Asked.ext) \in {"m3u8", "len", "ts"}
    BY <1>6, TypeValues DEF OpenMp4, Goes, Step
  <2> QED
    BY <1>6, <2>1, <2>2 DEF OpenMp4, Goes, Step
<1>7. CASE OpenMp4Fails
  BY <1>7 DEF OpenMp4Fails, Answer, Step
<1>8. CASE SkipProbe
  BY <1>8 DEF SkipProbe, Goes, Step
<1>9. CASE Probe
  <2>1. open' = Probing
    BY <1>9, Counters DEF Probe, ToProbe, Opens
  <2> QED
    BY <1>9, <2>1 DEF Probe, ToProbe, Goes, Step
<1>10. CASE ProbeFails
  <2>1. open' = Closed
    BY <1>10, Counters DEF ProbeFails, ToProbe, Closes
  <2> QED
    BY <1>10, <2>1 DEF ProbeFails, Answer, Step
<1>11. CASE NoStreams
  <2>1. open' = Closed
    BY <1>11, Counters DEF NoStreams, Closes, Answer, Step
  <2> QED
    BY <1>11, <2>1 DEF NoStreams, Answer, Step
<1>12. CASE Length \/ Width
  <2>1. open' = Opened
    BY <1>12, Counters DEF Length, Width, Closes, Goes, Step
  <2> QED
    BY <1>12, <2>1 DEF Length, Width, Goes, Step
<1>13. CASE NoPlaylist \/ MasterPlaylist \/ MediaPlaylist \/ PlaylistUndefined
  BY <1>13 DEF NoPlaylist, MasterPlaylist, MediaPlaylist, PlaylistUndefined, Goes, Step
<1>14. CASE SegmentFails
  <2>1. open' = Closed
    BY <1>14, Counters DEF SegmentFails, Closes, Answer, Step
  <2> QED
    BY <1>14, <2>1 DEF SegmentFails, Answer, Step
<1>15. CASE Segment
  <2>1. body' # <<>>
    BY <1>15 DEF Segment
  <2> QED
    BY <1>15, <2>1 DEF Segment, Goes, Step
<1>16. CASE Transcode
  <2>1. CASE Goes("transcode", "response")
    BY <1>16, <2>1 DEF Transcode, Goes, Step
  <2>2. CASE Answer("transcode", "500") /\ UNCHANGED body
    <3>1. Opened = [Closed EXCEPT !.context = 1]
      BY DEF Opened, Closed
    <3> QED
      BY <1>16, <2>2, <3>1 DEF Transcode, Answer, Step
  <2> QED
    BY <1>16, <2>1, <2>2 DEF Transcode
<1>17. CASE TranscodeRefused
  BY <1>17 DEF TranscodeRefused, Goes, Step
<1>18. CASE Respond
  <2>1. open' = Closed
    BY <1>18, Counters DEF Respond, Closes, Answer, Step
  <2> QED
    BY <1>18, <2>1 DEF Respond, Answer, Step
<1>19. CASE Done
  BY <1>19 DEF Done
<1>20. CASE UNCHANGED vars
  BY <1>20 DEF vars, Asked
<1> QED
  BY <1>1, <1>2, <1>3, <1>4, <1>5, <1>6, <1>7, <1>8, <1>9, <1>10, <1>11, <1>12, <1>13,
     <1>14, <1>15, <1>16, <1>17, <1>18, <1>19, <1>20 DEF Next

\* Whatever fails and wherever, when ngx_estreaming_handler returns it has closed
\* the file and what it probed it with, once, but for the one case Disposed names.
THEOREM ClosesWhatItOpens == Spec => []Disposed
<1>1. IInv => Disposed
  BY DEF IInv
<1> QED
  BY InitIInv, StepIInv, <1>1, PTL DEF Spec

-----------------------------------------------------------------------------
(* What the arguments say.                                                 *)

Places(args, name) == {k \in DOMAIN args : Means(args[k].key) = name}

\* Every set of numbers has a least one.
LEMMA SmallestNat ==
  ASSUME NEW S, S \subseteq Nat, S # {}
  PROVE  \E m \in S : \A n \in S : m <= n
<1>1. PICK m \in S : \A n \in S : ~ (<<n, m>> \in OpToRel(<, Nat))
  BY WFMin, NatLessThanWellFounded
<1>2. \A n \in S : ~ (n < m)
  BY <1>1 DEF OpToRel
<1> QED BY <1>2

\* Of some places in a sequence one is the last.
LEMMA LastPlace ==
  ASSUME NEW n \in Nat, NEW S \in SUBSET (1 .. n), S # {}
  PROVE  Max(S) \in S /\ \A k \in S : k <= Max(S)
<1> DEFINE Behind == {j \in 0 .. n : n - j \in S}
<1>1. PICK m \in Behind : \A j \in Behind : m <= j
  <2>1. Behind \subseteq Nat
    OBVIOUS
  <2>2. PICK k \in S : k \in 1 .. n
    OBVIOUS
  <2>3. n - k \in 0 .. n /\ n - (n - k) = k
    BY <2>2
  <2>4. Behind # {}
    BY <2>2, <2>3
  <2> HIDE DEF Behind
  <2> QED BY <2>1, <2>4, SmallestNat
<1> DEFINE x == n - m
<1>2. x \in S /\ m \in 0 .. n
  OBVIOUS
<1>3. \A k \in S : x >= k
  <2> SUFFICES ASSUME NEW k \in S PROVE x >= k
    OBVIOUS
  <2>1. k \in 1 .. n
    OBVIOUS
  <2>2. n - k \in 0 .. n /\ n - (n - k) = k
    BY <2>1
  <2>3. m <= n - k
    BY <1>1, <2>2
  <2> QED BY <1>2, <2>1, <2>3
<1>4. \E y \in S : \A k \in S : y >= k
  BY <1>3
<1>5. Max(S) \in S /\ \A k \in S : Max(S) >= k
  BY <1>4 DEF Max
<1> QED BY <1>5

\* Places in what is appended to a sequence, seen from its beginning.
LEMMA LastShifts ==
  ASSUME NEW n \in Nat, NEW m \in Nat, NEW S \in SUBSET (1 .. n), S # {},
         NEW U, U = {k + m : k \in S}
  PROVE  U # {} /\ Max(U) = Max(S) + m
<1>0. \A k \in S : k \in 1 .. n
  OBVIOUS
<1>1. Max(S) \in S /\ \A k \in S : k <= Max(S)
  BY LastPlace
<1>2. U \in SUBSET (1 .. n + m) /\ n + m \in Nat /\ U # {}
  <2>1. \A k \in 1 .. n : k + m \in 1 .. n + m
    OBVIOUS
  <2>2. \A u \in U : u \in 1 .. n + m
    BY <1>0, <2>1
  <2>3. Max(S) + m \in U
    BY <1>1
  <2> QED BY <2>2, <2>3
<1>3. Max(U) \in U /\ \A k \in U : k <= Max(U)
  BY <1>2, LastPlace
<1>4. PICK k \in S : Max(U) = k + m
  BY <1>3
<1>5. Max(S) + m \in U
  BY <1>1
<1>6. Max(S) + m <= k + m /\ k <= Max(S) /\ k \in 1 .. n /\ Max(S) \in 1 .. n
  BY <1>0, <1>1, <1>3, <1>4, <1>5
<1>7. Max(U) = Max(S) + m
  BY <1>4, <1>6
<1> QED BY <1>2, <1>7

\* What a name stands for that is meant to be seen.
LEMMA Names ==
  /\ Means("adbr") = "adbr" /\ Means("org") = "org" /\ Means("vr") = "vr"
  /\ Means("video") = "video" /\ Means("length") = "length" /\ Means("hash") = "hash"
  /\ Means("?") = "?"
BY DEF Means

\* The options by the places of the names.
ByPlaces(args, o) ==
  /\ o.adbr = (\E k \in Places(args, "adbr") : args[k].val = "true")
  /\ o.org = (\E k \in Places(args, "org") : args[k].val = "true")
  /\ LET ks == {k \in Places(args, "vr") : args[k].val \in Resolutions}
     IN  o.resolution = IF ks = {} THEN "none" ELSE args[Max(ks)].val
  /\ o.number = IF Places(args, "video") = {} THEN NoNumber
                ELSE args[Max(Places(args, "video"))].val
  /\ o.length = IF Places(args, "length") = {} THEN "configured"
                ELSE args[Max(Places(args, "length"))].val

\* That is what mp4_split_options_set computes.
LEMMA OptionsByPlaces == \A args : ByPlaces(args, mp4_split_options_set(args))
BY DEF ByPlaces, mp4_split_options_set, Places, NoOptions

\* What is said first keeps its places, what is said after it is moved.
LEMMA PlacesAfter ==
  ASSUME NEW T, NEW p \in Seq(T), NEW s \in Seq(T), NEW name
  PROVE  /\ \A k \in DOMAIN p : (p \o s)[k] = p[k]
         /\ \A k \in DOMAIN s : (p \o s)[k + Len(p)] = s[k]
         /\ Places(p \o s, name) = Places(p, name) \cup {k + Len(p) : k \in Places(s, name)}
<1>1. /\ Len(p) \in Nat /\ DOMAIN p = 1 .. Len(p) /\ Len(s) \in Nat /\ DOMAIN s = 1 .. Len(s)
      /\ DOMAIN (p \o s) = 1 .. Len(p) + Len(s)
  BY ConcatProperties
<1>2. \A k \in DOMAIN p : (p \o s)[k] = p[k]
  BY <1>1, ConcatProperties
<1>3. \A k \in DOMAIN s : k + Len(p) \in DOMAIN (p \o s) /\ (p \o s)[k + Len(p)] = s[k]
  <2> SUFFICES ASSUME NEW k \in DOMAIN s
               PROVE  k + Len(p) \in DOMAIN (p \o s) /\ (p \o s)[k + Len(p)] = s[k]
    OBVIOUS
  <2>1. /\ k + Len(p) \in Len(p) + 1 .. Len(p) + Len(s) /\ k + Len(p) - Len(p) = k
        /\ k + Len(p) \in 1 .. Len(p) + Len(s)
    BY <1>1
  <2> QED BY <1>1, <2>1, ConcatProperties
<1> DEFINE c == p \o s
<1> HIDE DEF c
<1>4. \A k \in DOMAIN c : k \in DOMAIN p \/ \E j \in DOMAIN s : k = j + Len(p)
  <2> SUFFICES ASSUME NEW k \in 1 .. Len(p) + Len(s), k \notin 1 .. Len(p)
               PROVE  k - Len(p) \in 1 .. Len(s) /\ k = (k - Len(p)) + Len(p)
    BY <1>1 DEF c
  <2> QED BY <1>1
<1>5. DOMAIN p \subseteq DOMAIN c
  BY <1>1 DEF c
<1>6. Places(c, name) = Places(p, name) \cup {k + Len(p) : k \in Places(s, name)}
  BY <1>2, <1>3, <1>4, <1>5 DEF Places, c
<1> QED BY <1>2, <1>3, <1>6 DEF c

\* Names of which none makes a difference to what is delivered, but for the length.
Quiet(args) == \A k \in DOMAIN args : Means(args[k].key) \in {"length", "hash", "?"}

\* Behind other arguments such names change nothing but the length.
LEMMA OptionsAfter ==
  ASSUME NEW T, NEW p \in Seq(T), NEW s \in Seq(T), Quiet(s)
  PROVE  LET o == mp4_split_options_set(p \o s)
             q == mp4_split_options_set(p)
         IN  o.adbr = q.adbr /\ o.org = q.org /\ o.resolution = q.resolution /\ o.number = q.number
<1> DEFINE c == p \o s
           o == mp4_split_options_set(c)
           q == mp4_split_options_set(p)
<1>1. \A name \in {"adbr", "org", "vr", "video"} : Places(s, name) = {}
  BY DEF Quiet, Places
<1>2. \A name \in {"adbr", "org", "vr", "video"} : Places(c, name) = Places(p, name)
  <2> SUFFICES ASSUME NEW name \in {"adbr", "org", "vr", "video"}
               PROVE  Places(c, name) = Places(p, name)
    OBVIOUS
  <2>1. Places(c, name) = Places(p, name) \cup {k + Len(p) : k \in Places(s, name)}
    BY PlacesAfter
  <2>2. Places(s, name) = {}
    BY <1>1
  <2> QED BY <2>1, <2>2
<1>3. \A k \in DOMAIN p : c[k] = p[k]
  BY PlacesAfter
<1> HIDE DEF c
<1>4. \A name : Places(p, name) \subseteq DOMAIN p
  BY DEF Places
<1>5. {k \in Places(c, "vr") : c[k].val \in Resolutions}
         = {k \in Places(p, "vr") : p[k].val \in Resolutions}
  BY <1>2, <1>3, <1>4
<1>6. o.adbr = q.adbr /\ o.org = q.org
  <2>1. /\ o.adbr = (\E k \in Places(c, "adbr") : c[k].val = "true")
        /\ o.org = (\E k \in Places(c, "org") : c[k].val = "true")
    BY OptionsByPlaces DEF ByPlaces
  <2>2. /\ q.adbr = (\E k \in Places(p, "adbr") : p[k].val = "true")
        /\ q.org = (\E k \in Places(p, "org") : p[k].val = "true")
    BY OptionsByPlaces DEF ByPlaces
  <2> HIDE DEF o, q
  <2>3. o.adbr = q.adbr
    BY <1>2, <1>3, <1>4, <2>1, <2>2
  <2>4. o.org = q.org
    BY <1>2, <1>3, <1>4, <2>1, <2>2
  <2> QED BY <2>3, <2>4
<1>7. \A S : S \subseteq DOMAIN p /\ S # {} => c[Max(S)] = p[Max(S)]
  <2> SUFFICES ASSUME NEW S \in SUBSET DOMAIN p, S # {} PROVE c[Max(S)] = p[Max(S)]
    OBVIOUS
  <2>1. Len(p) \in Nat /\ DOMAIN p = 1 .. Len(p)
    OBVIOUS
  <2>2. Max(S) \in S
    BY <2>1, LastPlace
  <2> QED BY <1>3, <2>2
<1>8. o.number = q.number
  <2> DEFINE ks == Places(p, "video")
  <2>1. Places(c, "video") = ks /\ ks \subseteq DOMAIN p
    BY <1>2, <1>4
  <2>2. o.number = IF Places(c, "video") = {} THEN NoNumber
                   ELSE c[Max(Places(c, "video"))].val
    BY OptionsByPlaces DEF ByPlaces
  <2>3. q.number = IF ks = {} THEN NoNumber ELSE p[Max(ks)].val
    BY OptionsByPlaces DEF ByPlaces
  <2> HIDE DEF ks, o, q
  <2> QED BY <1>7, <2>1, <2>2, <2>3
<1>9. o.resolution = q.resolution
  <2> DEFINE ks == {k \in Places(p, "vr") : p[k].val \in Resolutions}
  <2>1. ks \subseteq DOMAIN p
    BY <1>4
  <2>2. o.resolution = IF ks = {} THEN "none" ELSE c[Max(ks)].val
    BY <1>5, OptionsByPlaces DEF ByPlaces
  <2>3. q.resolution = IF ks = {} THEN "none" ELSE p[Max(ks)].val
    BY OptionsByPlaces DEF ByPlaces
  <2> HIDE DEF ks, o, q
  <2> QED BY <1>7, <2>1, <2>2, <2>3
<1> HIDE DEF o, q
<1>10. o.adbr = q.adbr /\ o.org = q.org /\ o.resolution = q.resolution /\ o.number = q.number
  BY <1>6, <1>8, <1>9
<1> QED BY <1>10 DEF o, q, c

\* The length is the one that is said last, whatever else is said before.
LEMMA LengthAfter ==
  ASSUME NEW T, NEW p \in Seq(T), NEW s \in Seq(T), Places(p, "length") = {}
  PROVE  mp4_split_options_set(p \o s).length = mp4_split_options_set(s).length
<1> DEFINE c == p \o s
           S == Places(s, "length")
           U == {k + Len(p) : k \in S}
<1>1. \A k \in DOMAIN s : c[k + Len(p)] = s[k]
  BY PlacesAfter
<1>2. Places(c, "length") = U
  BY PlacesAfter
<1>3. Len(p) \in Nat /\ Len(s) \in Nat /\ DOMAIN s = 1 .. Len(s) /\ S \subseteq DOMAIN s
  BY DEF Places
<1> HIDE DEF c
<1>4. CASE S = {}
  <2>1. Places(c, "length") = {} /\ Places(s, "length") = {}
    BY <1>2, <1>4
  <2> QED BY <2>1, OptionsByPlaces DEF ByPlaces, c
<1>5. CASE S # {}
  <2>1. Max(S) \in S
    BY <1>3, <1>5, LastPlace
  <2> HIDE DEF S, U
  <2>2. U # {} /\ Max(U) = Max(S) + Len(p)
    <3>1. S \in SUBSET (1 .. Len(s)) /\ U = {k + Len(p) : k \in S}
      BY <1>3 DEF U
    <3> QED BY <1>3, <1>5, <3>1, LastShifts
  <2>3. c[Max(U)] = s[Max(S)]
    BY <1>1, <1>3, <2>1, <2>2
  <2>4. mp4_split_options_set(c).length = c[Max(U)].val
    BY <1>2, <2>2, OptionsByPlaces DEF ByPlaces
  <2>5. mp4_split_options_set(s).length = s[Max(S)].val
    BY <1>5, OptionsByPlaces DEF ByPlaces, S
  <2> QED BY <2>3, <2>4, <2>5 DEF c
<1> QED BY <1>4, <1>5

Video(n) == <<Arg("video", n)>>
Adbr(r) == <<Arg("adbr", "true"), Arg("vr", r)>>
Org == <<Arg("org", "true")>>

Says(o, adbr, org, resolution, number) ==
  o.adbr = adbr /\ o.org = org /\ o.resolution = resolution /\ o.number = number

\* Of one place that place is the last.
LEMMA OnlyPlace == ASSUME NEW k \in Nat \ {0} PROVE Max({k}) = k
<1>1. {k} \in SUBSET (1 .. k) /\ {k} # {}
  OBVIOUS
<1> QED BY <1>1, LastPlace

\* What quiet arguments say, and what each directory's say alone.
LEMMA QuietSay ==
  ASSUME NEW s, Quiet(s)
  PROVE  Says(mp4_split_options_set(s), FALSE, FALSE, "none", NoNumber)
<1>1. \A name \in {"adbr", "org", "vr", "video"} : Places(s, name) = {}
  BY DEF Quiet, Places
<1>2. {k \in Places(s, "vr") : s[k].val \in Resolutions} = {}
  BY <1>1
<1>3. ByPlaces(s, mp4_split_options_set(s))
  BY OptionsByPlaces
<1> QED BY <1>1, <1>2, <1>3 DEF Says, ByPlaces

\* org=true sets org, and nothing else.
LEMMA OrgSay == Says(mp4_split_options_set(Org), FALSE, TRUE, "none", NoNumber)
<1>1. DOMAIN Org = {1} /\ Org[1].key = "org" /\ Org[1].val = "true"
  BY DEF Org, Arg
<1>2. /\ Places(Org, "adbr") = {} /\ Places(Org, "vr") = {} /\ Places(Org, "video") = {}
      /\ Places(Org, "org") = {1}
  BY <1>1, Names DEF Places
<1>3. {k \in Places(Org, "vr") : Org[k].val \in Resolutions} = {}
  BY <1>2
<1>4. ByPlaces(Org, mp4_split_options_set(Org))
  BY OptionsByPlaces
<1> QED BY <1>1, <1>2, <1>3, <1>4 DEF Says, ByPlaces

\* video=n sets the number.
LEMMA VideoSays ==
  ASSUME NEW n
  PROVE  Says(mp4_split_options_set(Video(n)), FALSE, FALSE, "none", n)
<1> DEFINE v == Video(n)
<1>1. DOMAIN v = {1} /\ v[1].key = "video" /\ v[1].val = n
  BY DEF Video, Arg
<1> HIDE DEF v
<1>2. /\ Places(v, "adbr") = {} /\ Places(v, "vr") = {} /\ Places(v, "org") = {}
      /\ Places(v, "video") = {1}
  BY <1>1, Names DEF Places
<1>3. {k \in Places(v, "vr") : v[k].val \in Resolutions} = {} /\ Max({1}) = 1
  BY <1>2, OnlyPlace
<1> DEFINE o == mp4_split_options_set(v)
<1>4. ByPlaces(v, o)
  BY OptionsByPlaces
<1> HIDE DEF o
<1>5. Says(o, FALSE, FALSE, "none", n)
  BY <1>1, <1>2, <1>3, <1>4 DEF Says, ByPlaces
<1> QED BY <1>5 DEF o, v

\* The arguments of a variant's directory set adbr and the resolution.
LEMMA AdbrSays ==
  ASSUME NEW r \in Resolutions
  PROVE  Says(mp4_split_options_set(Adbr(r)), TRUE, FALSE, r, NoNumber)
<1> DEFINE a == Adbr(r)
<1>1. /\ DOMAIN a = {1, 2} /\ a[1].key = "adbr" /\ a[1].val = "true"
      /\ a[2].key = "vr" /\ a[2].val = r
  BY DEF Adbr, Arg
<1> HIDE DEF a
<1>2. /\ Places(a, "adbr") = {1} /\ Places(a, "vr") = {2} /\ Places(a, "org") = {}
      /\ Places(a, "video") = {}
  BY <1>1, Names DEF Places
<1>3. {k \in Places(a, "vr") : a[k].val \in Resolutions} = {2} /\ Max({2}) = 2
  BY <1>1, <1>2, OnlyPlace
<1> DEFINE o == mp4_split_options_set(a)
<1>4. ByPlaces(a, o)
  BY OptionsByPlaces
<1> HIDE DEF o
<1>5. Says(o, TRUE, FALSE, r, NoNumber)
  BY <1>1, <1>2, <1>3, <1>4 DEF Says, ByPlaces
<1> QED BY <1>5 DEF o, a

\* One item before two is three.
LEMMA OneAndTwo ==
  ASSUME NEW x, NEW y, NEW z
  PROVE  <<x>> \o <<y, z>> = <<x, y, z>>
<1> DEFINE T == {x, y, z}
           p == <<x>>
           s == <<y, z>>
           c == <<x, y, z>>
<1>1. p \in Seq(T) /\ s \in Seq(T) /\ c \in Seq(T) /\ Len(p) = 1 /\ Len(s) = 2 /\ Len(c) = 3
  OBVIOUS
<1>2. p[1] = x /\ s[1] = y /\ s[2] = z /\ c[1] = x /\ c[2] = y /\ c[3] = z
  OBVIOUS
<1> HIDE DEF p, s, c
<1>3. p \o s \in Seq(T) /\ Len(p \o s) = Len(p) + Len(s)
  BY <1>1, ConcatProperties, Zenon
<1>4. \A i \in 1 .. Len(p) + Len(s) : (p \o s)[i] = IF i <= Len(p) THEN p[i] ELSE s[i - Len(p)]
  BY <1>1, ConcatProperties, Zenon
<1> DEFINE ps == p \o s
<1> HIDE DEF ps
<1>5. \A i \in 1 .. 3 : ps[i] = c[i]
  <2>1. /\ 1 \in 1 .. Len(p) + Len(s) /\ 2 \in 1 .. Len(p) + Len(s) /\ 3 \in 1 .. Len(p) + Len(s)
        /\ 1 <= Len(p) /\ ~ (2 <= Len(p)) /\ ~ (3 <= Len(p)) /\ 2 - Len(p) = 1 /\ 3 - Len(p) = 2
    BY <1>1
  <2>2. ps[1] = p[1] /\ ps[2] = s[1] /\ ps[3] = s[2]
    BY <1>4, <2>1, Zenon DEF ps
  <2>3. \A i \in 1 .. 3 : i = 1 \/ i = 2 \/ i = 3
    OBVIOUS
  <2> QED BY <1>2, <2>2, <2>3
<1>6. p \o s = c
  
  <2>1. ps \in Seq(T) /\ c \in Seq(T) /\ Len(ps) = 3 /\ Len(c) = 3
    BY <1>1, <1>3 DEF ps
  <2>2. ps = c
    BY <1>5, <2>1, SeqEqual
  <2> QED BY <2>2 DEF ps
<1> QED BY <1>6 DEF p, s, c

\* Those of a segment of a variant set the number as well.
LEMMA VideoAdbrSay ==
  ASSUME NEW n, NEW r \in Resolutions
  PROVE  Says(mp4_split_options_set(Video(n) \o Adbr(r)), TRUE, FALSE, r, n)
<1> DEFINE a == Video(n) \o Adbr(r)
<1>0. a = <<Arg("video", n), Arg("adbr", "true"), Arg("vr", r)>>
  BY OneAndTwo DEF Video, Adbr
<1>1. /\ DOMAIN a = {1, 2, 3} /\ a[1].key = "video" /\ a[1].val = n
      /\ a[2].key = "adbr" /\ a[2].val = "true" /\ a[3].key = "vr" /\ a[3].val = r
  BY <1>0 DEF Arg
<1> HIDE DEF a
<1>2. /\ Places(a, "video") = {1} /\ Places(a, "adbr") = {2} /\ Places(a, "vr") = {3}
      /\ Places(a, "org") = {}
  BY <1>1, Names DEF Places
<1>3. /\ {k \in Places(a, "vr") : a[k].val \in Resolutions} = {3}
      /\ Max({3}) = 3 /\ Max({1}) = 1
  BY <1>1, <1>2, OnlyPlace
<1> DEFINE o == mp4_split_options_set(a)
<1>4. ByPlaces(a, o)
  BY OptionsByPlaces
<1> HIDE DEF o
<1>5. Says(o, TRUE, FALSE, r, n)
  BY <1>1, <1>2, <1>3, <1>4 DEF Says, ByPlaces
<1> QED BY <1>5 DEF o, a

\* None of them says a length.
LEMMA NoLengthSaid ==
  ASSUME NEW n, NEW r
  PROVE  /\ Places(Org, "length") = {} /\ Places(Video(n), "length") = {}
         /\ Places(Adbr(r), "length") = {} /\ Places(Video(n) \o Adbr(r), "length") = {}
<1> DEFINE a == Video(n) \o Adbr(r)
<1>1. a = <<Arg("video", n), Arg("adbr", "true"), Arg("vr", r)>>
  BY OneAndTwo DEF Video, Adbr
<1>2. \A k \in DOMAIN a : a[k].key \in {"video", "adbr", "vr"}
  BY <1>1 DEF Arg
<1> HIDE DEF a
<1>3. Places(a, "length") = {}
  BY <1>2, Names DEF Places
<1>4. \A k \in DOMAIN Adbr(r) : Adbr(r)[k].key \in {"adbr", "vr"}
  BY DEF Adbr, Arg
<1>5. /\ \A k \in DOMAIN Org : Org[k].key = "org"
      /\ \A k \in DOMAIN Video(n) : Video(n)[k].key = "video"
  BY DEF Org, Video, Arg
<1> QED BY <1>3, <1>4, <1>5, Names DEF Places, a

-----------------------------------------------------------------------------
(* What is repeated of the arguments.                                      *)

\* A property of the numbers up to n, given as the set of those that have it,
\* holds of all of them if it holds of 0 and passes from each to the next.
LEMMA UpTo ==
  ASSUME NEW n \in Nat, NEW S, 0 \in S,
         \A j \in 1 .. n : j - 1 \in S => j \in S
  PROVE  \A j \in 0 .. n : j \in S
<1> DEFINE Bad == {j \in 0 .. n : j \notin S}
<1> SUFFICES ASSUME Bad # {} PROVE FALSE
  OBVIOUS
<1>1. Bad \subseteq Nat
  OBVIOUS
<1>2. PICK m \in Bad : \A j \in Bad : m <= j
  <2> HIDE DEF Bad
  <2> QED BY <1>1, SmallestNat
<1>3. m # 0 /\ m - 1 \notin Bad
  BY <1>2
<1> QED BY <1>2, <1>3

\* The arguments that are not repeated.
Named(args, k) ==
  \/ options.adbr /\ args[k] = Arg("adbr", "true") /\ k < Len(args)
  \/ ~options.adbr /\ args[k] = Arg("org", "true")
  \/ options.resolution # "none" /\ args[k] = Arg("vr", options.resolution)

Keep(args, g, k) ==
  IF k = 0 THEN <<>> ELSE IF Named(args, k) THEN g[k - 1] ELSE Append(g[k - 1], args[k])

\* The recursion over the arguments is defined, and what it gives can be read
\* from one to the next.
LEMMA KeptStepwise ==
  ASSUME NEW args, Len(args) \in Nat
  PROVE  \E g : /\ extra(args) = g[Len(args)]
                /\ \A j \in 0 .. Len(args) : g[j] = Keep(args, g, j)
<1> DEFINE N == Len(args)
           Defined == {n \in Nat : \E g : g = [j \in 0 .. n |-> Keep(args, g, j)]}
<1>1. 0 \in Defined
  <2>1. [j \in 0 .. 0 |-> <<>>] = [j \in 0 .. 0 |-> Keep(args, [i \in 0 .. 0 |-> <<>>], j)]
    BY DEF Keep
  <2> QED BY <2>1
<1>2. ASSUME NEW n \in 1 .. N, n - 1 \in Defined PROVE n \in Defined
  <2>1. PICK g : g = [j \in 0 .. n - 1 |-> Keep(args, g, j)]
    BY <1>2
  <2> DEFINE last == IF Named(args, n) THEN g[n - 1] ELSE Append(g[n - 1], args[n])
             h == [j \in 0 .. n |-> IF j = n THEN last ELSE g[j]]
  <2>2. ASSUME NEW j \in 0 .. n PROVE h[j] = Keep(args, h, j)
    <3>1. CASE j = n
      <4>1. h[n] = last /\ h[n - 1] = g[n - 1] /\ n # 0
        OBVIOUS
      <4> HIDE DEF h
      <4> QED BY <3>1, <4>1 DEF Keep
    <3>2. CASE j # n
      <4>1. j \in 0 .. n - 1
        BY <3>2
      <4>2. g[j] = Keep(args, g, j)
        BY <2>1, <4>1
      <4> HIDE DEF last
      <4>3. h[j] = g[j] /\ (j # 0 => h[j - 1] = g[j - 1])
        BY <4>1
      <4> HIDE DEF h
      <4> QED BY <4>2, <4>3 DEF Keep
    <3> QED BY <3>1, <3>2
  <2>3. DOMAIN h = 0 .. n /\ h = [j \in 0 .. n |-> h[j]]
    OBVIOUS
  <2> HIDE DEF h
  <2>4. h = [j \in 0 .. n |-> Keep(args, h, j)]
    BY <2>2, <2>3
  <2> QED BY <2>4
<1>3. N \in Defined
  <2> HIDE DEF Defined
  <2>1. \A j \in 0 .. N : j \in Defined
    BY <1>1, <1>2, UpTo
  <2> QED BY <2>1
<1> DEFINE from == CHOOSE g : g = [j \in 0 .. N |-> Keep(args, g, j)]
<1>4. from = [j \in 0 .. N |-> Keep(args, from, j)]
  BY <1>3
<1>5. extra(args) = from[N]
  BY DEF extra, Keep, Named
<1> HIDE DEF from
<1>6. \A j \in 0 .. N : from[j] = Keep(args, from, j)
  BY <1>4
<1> QED BY <1>5, <1>6

\* What is named comes first: all the others are repeated.
LEMMA ExtraAfter ==
  ASSUME NEW T, NEW p \in Seq(T), NEW s \in Seq(T),
         \A k \in DOMAIN p : Named(p \o s, k),
         \A k \in DOMAIN s : ~ Named(p \o s, k + Len(p))
  PROVE  extra(p \o s) = s
<1> DEFINE c == p \o s
           L == Len(p)
           N == Len(c)
<1>1. /\ L \in Nat /\ Len(s) \in Nat /\ N = L + Len(s) /\ N \in Nat
      /\ DOMAIN p = 1 .. L /\ DOMAIN s = 1 .. Len(s)
  BY ConcatProperties
<1>2. \A k \in DOMAIN s : c[k + L] = s[k]
  BY PlacesAfter
<1>3. (\A k \in 1 .. L : Named(c, k)) /\ (\A k \in 1 .. Len(s) : ~ Named(c, k + L))
  BY <1>1
<1> HIDE DEF c
<1>4. PICK g : extra(c) = g[N] /\ \A j \in 0 .. N : g[j] = Keep(c, g, j)
  BY <1>1, KeptStepwise
<1> DEFINE Taken(j) == IF j <= L THEN 0 ELSE j - L
           Good == {j \in 0 .. N : g[j] = SubSeq(s, 1, Taken(j))}
<1>5. SubSeq(s, 1, 0) = <<>>
  BY SubSeqEmpty
<1>6. 0 \in Good
  <2>1. Taken(0) = 0 /\ 0 \in 0 .. N
    BY <1>1
  <2>2. g[0] = <<>>
    BY <1>1, <1>4 DEF Keep
  <2> QED BY <1>5, <2>1, <2>2
<1>7. ASSUME NEW j \in 1 .. N, j - 1 \in Good PROVE j \in Good
  <2>0. /\ j \in 0 .. N /\ j # 0 /\ j - 1 \in 0 .. N
        /\ g[j] = IF Named(c, j) THEN g[j - 1] ELSE Append(g[j - 1], c[j])
    BY <1>1, <1>4 DEF Keep
  <2>1. CASE j <= L
    <3>1. j \in 1 .. L /\ Taken(j) = 0 /\ Taken(j - 1) = 0
      BY <1>1, <2>1
    <3>2. g[j] = g[j - 1]
      BY <1>3, <2>0, <3>1
    <3> QED BY <1>7, <2>0, <3>1, <3>2
  <2>2. CASE ~ (j <= L)
    <3> DEFINE m == j - L
    <3>1. m \in 1 .. Len(s) /\ m + L = j /\ Taken(j) = m /\ Taken(j - 1) = m - 1
      BY <1>1, <2>2
    <3> HIDE DEF m, Taken
    <3>2. c[j] = s[m] /\ ~ Named(c, j)
      BY <1>1, <1>2, <1>3, <3>1
    <3>3. g[j] = Append(SubSeq(s, 1, m - 1), s[m])
      BY <1>7, <2>0, <3>1, <3>2
    <3>4. SubSeq(s, 1, m) = Append(SubSeq(s, 1, m - 1), s[m])
      <4>1. SubSeq(s, 1, m) = SubSeq(s, 1, m - 1) \o <<s[m]>>
        BY <1>1, <3>1, SubSeqRecursiveSecond
      <4>2. SubSeq(s, 1, m - 1) \in Seq(T) /\ s[m] \in T
        BY <1>1, <3>1, SubSeqProperties
      <4>3. Append(SubSeq(s, 1, m - 1), s[m]) = SubSeq(s, 1, m - 1) \o <<s[m]>>
        BY <4>2, AppendIsConcat
      <4> QED BY <4>1, <4>3, Zenon
    <3>5. g[j] = SubSeq(s, 1, Taken(j))
      BY <3>1, <3>3, <3>4
    <3> QED BY <2>0, <3>5
  <2> QED BY <2>1, <2>2
<1>8. N \in Good
  <2> HIDE DEF Good
  <2>1. \A j \in 0 .. N : j \in Good
    BY <1>1, <1>6, <1>7, UpTo
  <2> QED BY <1>1, <2>1
<1>9. SubSeq(s, 1, Taken(N)) = s
  <2>1. Taken(N) = Len(s)
    BY <1>1
  <2> HIDE DEF Taken
  <2>2. SubSeq(s, 1, Len(s)) = s
    BY SubSeqFull, Zenon
  <2> QED BY <2>1, <2>2
<1>10. extra(c) = s
  BY <1>4, <1>8, <1>9, Zenon
<1> QED BY <1>10 DEF c

-----------------------------------------------------------------------------
(* The links of the playlists, and what the rewriting rules make of them.  *)

\* The arguments there can be, where segment n is asked for at resolution r.
ArgsFor(n, r) ==
  ToSet(start.args)
    \cup {Arg("?", "?"), Arg("video", n), Arg("adbr", "true"), Arg("vr", r), Arg("org", "true")}

StartLink == Link(start, "start", "none", NoNumber)

\* What is listed of a resolution; "none" is the source itself.
DirOf(r) == IF r = "none" THEN "org" ELSE "adbr"
ArgsOf(r) == IF r = "none" THEN start.args ELSE ArgsPrinted(start.args)
DirArgs(r) == IF r = "none" THEN Org ELSE Adbr(r)
MediaUrl(r) == PlaylistUrl(start, DirOf(r), r, ArgsOf(r))
TsUrl(r, n) == [MediaUrl(r) EXCEPT !.number = n, !.ext = "ts"]

\* A player that browses, from a URL as the rules know them.
Surfing == IsUrl(start) /\ Browsing

\* What the rules put in front are arguments.
LEMMA PrefixTypes ==
  ASSUME NEW n, NEW r
  PROVE  /\ Org \in Seq(ArgsFor(n, r)) /\ Adbr(r) \in Seq(ArgsFor(n, r))
         /\ Video(n) \in Seq(ArgsFor(n, r)) /\ Video(n) \o Adbr(r) \in Seq(ArgsFor(n, r))
<1> DEFINE T == ArgsFor(n, r)
<1>1. /\ Arg("org", "true") \in T /\ Arg("adbr", "true") \in T /\ Arg("vr", r) \in T
      /\ Arg("video", n) \in T
  BY DEF ArgsFor
<1> HIDE DEF T
<1>2. Org \in Seq(T) /\ Adbr(r) \in Seq(T) /\ Video(n) \in Seq(T)
  BY <1>1 DEF Org, Adbr, Video
<1>3. Video(n) \o Adbr(r) \in Seq(T)
  BY <1>2, ConcatProperties
<1> QED BY <1>2, <1>3 DEF T

\* The arguments of the start are repeated in the links, or nonsense is.
LEMMA ArgsQuiet ==
  ASSUME Surfing, NEW r, NEW n
  PROVE  ArgsOf(r) \in Seq(ArgsFor(n, r)) /\ Quiet(ArgsOf(r))
<1> DEFINE T == ArgsFor(n, r)
<1>1. start.args \in Seq(ToSet(start.args)) /\ ToSet(start.args) \subseteq T /\ Arg("?", "?") \in T
  BY DEF Surfing, IsUrl, ArgsFor
<1>2. start.args \in Seq(T) /\ <<Arg("?", "?")>> \in Seq(T)
  <2> HIDE DEF T
  <2>1. \A S, V : S \subseteq V => \A s \in Seq(S) : s \in Seq(V)
    OBVIOUS
  <2> QED BY <1>1, <2>1
<1>3. Quiet(start.args)
  <2>1. \A k \in DOMAIN start.args : start.args[k].key \in {"length", "hash"}
    BY DEF Surfing, Browsing
  <2> QED BY <2>1, Names DEF Quiet
<1>4. Quiet(<<Arg("?", "?")>>)
  <2>1. \A k \in DOMAIN <<Arg("?", "?")>> : <<Arg("?", "?")>>[k].key = "?"
    BY DEF Arg
  <2> QED BY <2>1, Names DEF Quiet
<1>5. ArgsOf(r) \in {start.args, <<Arg("?", "?")>>}
  BY DEF ArgsOf, ArgsPrinted
<1> HIDE DEF T
<1>6. ArgsOf(r) \in Seq(T) /\ Quiet(ArgsOf(r))
  BY <1>2, <1>3, <1>4, <1>5
<1> QED BY <1>6 DEF T

\* A URL with other fields.
LEMMA OtherUrl ==
  ASSUME NEW a, NEW b, NEW c, NEW d, NEW e, NEW f, NEW r,
         r = [variant |-> a, resolution |-> b, number |-> c, ext |-> d, args |-> e, leads |-> f],
         NEW a1, NEW b1, NEW c1, NEW d1, NEW e1, NEW f1, NEW q,
         q = [r EXCEPT !.variant = a1, !.resolution = b1, !.number = c1, !.ext = d1,
                       !.args = e1, !.leads = f1]
  PROVE  q = [variant |-> a1, resolution |-> b1, number |-> c1, ext |-> d1, args |-> e1,
              leads |-> f1]
<1>1. /\ q.variant = a1 /\ q.resolution = b1 /\ q.number = c1 /\ q.ext = d1 /\ q.args = e1
      /\ q.leads = f1
  OBVIOUS
<1>2. q = [variant |-> q.variant, resolution |-> q.resolution, number |-> q.number,
           ext |-> q.ext, args |-> q.args, leads |-> q.leads]
  OBVIOUS
<1> QED BY <1>1, <1>2

\* A URL with another number and extension.
LEMMA OtherNumber ==
  ASSUME NEW a, NEW b, NEW c, NEW d, NEW e, NEW f, NEW r,
         r = [variant |-> a, resolution |-> b, number |-> c, ext |-> d, args |-> e, leads |-> f],
         NEW c1, NEW d1, NEW q, q = [r EXCEPT !.number = c1, !.ext = d1]
  PROVE  q = [variant |-> a, resolution |-> b, number |-> c1, ext |-> d1, args |-> e, leads |-> f]
<1>1. /\ q.variant = a /\ q.resolution = b /\ q.number = c1 /\ q.ext = d1 /\ q.args = e
      /\ q.leads = f
  OBVIOUS
<1>2. q = [variant |-> q.variant, resolution |-> q.resolution, number |-> q.number,
           ext |-> q.ext, args |-> q.args, leads |-> q.leads]
  OBVIOUS
<1> QED BY <1>1, <1>2

\* The fields of the URLs that are listed.
LEMMA ListedUrls ==
  ASSUME Surfing, NEW r, NEW n
  PROVE  /\ MediaUrl(r) = [variant |-> DirOf(r), resolution |-> r, number |-> NoNumber,
                           ext |-> "m3u8", args |-> ArgsOf(r),
                           leads |-> start.leads /\ relative]
         /\ TsUrl(r, n) = [variant |-> DirOf(r), resolution |-> r, number |-> n,
                           ext |-> "ts", args |-> ArgsOf(r),
                           leads |-> start.leads /\ relative]
<1> DEFINE leads == start.leads /\ relative
<1>1. start = [variant |-> start.variant, resolution |-> start.resolution,
               number |-> start.number, ext |-> start.ext, args |-> start.args,
               leads |-> start.leads]
  BY DEF Surfing, IsUrl
<1>2. MediaUrl(r) = [start EXCEPT !.variant = DirOf(r), !.resolution = r, !.number = NoNumber,
                                  !.ext = "m3u8", !.args = ArgsOf(r), !.leads = leads]
  <2> DEFINE s == [start EXCEPT !.variant = DirOf(r), !.resolution = r, !.number = NoNumber,
                                !.ext = "m3u8", !.args = ArgsOf(r)]
  <2>1. MediaUrl(r) = [s EXCEPT !.leads = @ /\ relative]
    BY DEF MediaUrl, PlaylistUrl
  <2>2. s.leads = start.leads
    BY <1>1
  <2>3. [s EXCEPT !.leads = @ /\ relative] = [s EXCEPT !.leads = leads]
    <3> HIDE DEF s
    <3> QED BY <2>2
  <2> QED BY <2>1, <2>3
<1> HIDE DEF leads
<1>3. MediaUrl(r) = [variant |-> DirOf(r), resolution |-> r, number |-> NoNumber,
                     ext |-> "m3u8", args |-> ArgsOf(r), leads |-> leads]
  BY <1>1, <1>2, OtherUrl, Zenon
<1>4. TsUrl(r, n) = [MediaUrl(r) EXCEPT !.number = n, !.ext = "ts"]
  BY DEF TsUrl
<1>5. TsUrl(r, n) = [variant |-> DirOf(r), resolution |-> r, number |-> n,
                     ext |-> "ts", args |-> ArgsOf(r), leads |-> leads]
  <2> DEFINE m == MediaUrl(r)
             u == TsUrl(r, n)
  <2>1. m = [variant |-> DirOf(r), resolution |-> r, number |-> NoNumber,
             ext |-> "m3u8", args |-> ArgsOf(r), leads |-> leads]
    BY <1>3
  <2>2. u = [m EXCEPT !.number = n, !.ext = "ts"]
    BY <1>4
  <2> HIDE DEF m, u
  <2>3. u = [variant |-> DirOf(r), resolution |-> r, number |-> n,
             ext |-> "ts", args |-> ArgsOf(r), leads |-> leads]
    BY <2>1, <2>2, OtherNumber
  <2> QED BY <2>3 DEF u
<1> QED BY <1>3, <1>5 DEF leads

\* What is asked for with the playlist of a variant, or of the source.
LEMMA MediaAsked ==
  ASSUME Surfing, NEW r \in Resolutions \cup {"none"}
  PROVE  Rewrite(MediaUrl(r)) = [MediaUrl(r) EXCEPT !.args = DirArgs(r) \o ArgsOf(r)]
<1> DEFINE u == MediaUrl(r)
<1>1. u.variant = DirOf(r) /\ u.number = NoNumber /\ u.resolution = r /\ u.args = ArgsOf(r)
  BY ListedUrls
<1> HIDE DEF u
<1>2. CASE r = "none"
  <2>1. u.variant = "org"
    BY <1>1, <1>2 DEF DirOf
  <2>2. Rewrite(u) = [u EXCEPT !.args = <<Arg("org", "true")>> \o @]
    BY <1>1, <2>1 DEF Rewrite
  <2> QED BY <1>1, <1>2, <2>2 DEF DirArgs, Org, u
<1>3. CASE r # "none"
  <2>1. u.variant = "adbr"
    BY <1>1, <1>3 DEF DirOf
  <2>2. Rewrite(u) = [u EXCEPT !.args = (<<>> \o Adbr(r)) \o @]
    BY <1>1, <1>3, <2>1 DEF Rewrite, Adbr
  <2>3. <<>> \o Adbr(r) = Adbr(r)
    BY PrefixTypes, ConcatEmptySeq
  <2> QED BY <1>1, <1>3, <2>2, <2>3 DEF DirArgs, u
<1> QED BY <1>2, <1>3

\* What is asked for with a segment of a variant.  One of the source is below
\* org/, and what is there is a directory.
LEMMA TsAsked ==
  ASSUME Surfing, NEW r \in Resolutions \cup {"none"}, NEW n, n # NoNumber
  PROVE  /\ r # "none" =>
              Rewrite(TsUrl(r, n)) = [TsUrl(r, n) EXCEPT !.args = (Video(n) \o Adbr(r)) \o ArgsOf(r)]
         /\ r = "none" => /\ Rewrite(TsUrl(r, n)).ext = "/"
                          /\ Rewrite(TsUrl(r, n)).leads = (start.leads /\ relative)
<1> DEFINE u == TsUrl(r, n)
<1>1. /\ u.variant = DirOf(r) /\ u.number = n /\ u.resolution = r /\ u.args = ArgsOf(r)
      /\ u = [variant |-> DirOf(r), resolution |-> r, number |-> n,
              ext |-> "ts", args |-> ArgsOf(r), leads |-> start.leads /\ relative]
  BY ListedUrls
<1> HIDE DEF u
<1>2. CASE r = "none"
  <2>1. u.variant = "org"
    BY <1>1, <1>2 DEF DirOf
  <2>2. Rewrite(u) = [u EXCEPT !.args = <<Arg("org", "true")>> \o @, !.ext = "/"]
    BY <1>1, <2>1 DEF Rewrite
  <2> DEFINE leads == start.leads /\ relative
  <2>3. u = [variant |-> DirOf(r), resolution |-> r, number |-> n,
             ext |-> "ts", args |-> ArgsOf(r), leads |-> leads]
    BY <1>1
  <2> HIDE DEF leads
  <2>4. Rewrite(u).ext = "/" /\ Rewrite(u).leads = leads
    BY <2>2, <2>3
  <2> QED BY <1>2, <2>4 DEF u, leads
<1>3. CASE r # "none"
  <2>1. u.variant = "adbr"
    BY <1>1, <1>3 DEF DirOf
  <2>2. Rewrite(u) =
          [u EXCEPT !.args = <<Arg("video", u.number)>>
                               \o <<Arg("adbr", "true"), Arg("vr", u.resolution)>> \o @]
    BY <1>1, <1>3, <2>1 DEF Rewrite
  <2> QED BY <1>1, <1>3, <2>2 DEF Video, Adbr, u
<1> QED BY <1>2, <1>3

\* What is asked for at the start.
LEMMA StartAsked ==
  ASSUME Surfing
  PROVE  /\ start.number = NoNumber => Rewrite(start) = start
         /\ start.number # NoNumber =>
              Rewrite(start) = [start EXCEPT !.args = Video(start.number) \o start.args]
<1> DEFINE video == IF start.number = NoNumber THEN <<>> ELSE Video(start.number)
<1>1. Rewrite(start) = [start EXCEPT !.args = video \o @]
  BY DEF Surfing, Browsing, Rewrite, Video
<1>2. start = [variant |-> start.variant, resolution |-> start.resolution,
               number |-> start.number, ext |-> start.ext, args |-> start.args,
               leads |-> start.leads]
  BY DEF Surfing, IsUrl
<1>3. start.args \in Seq(ToSet(start.args))
  BY DEF Surfing, IsUrl
<1>4. <<>> \o start.args = start.args
  BY <1>3, ConcatEmptySeq
<1>5. [start EXCEPT !.args = start.args] = start
  BY <1>2
<1> QED BY <1>1, <1>4, <1>5

\* What the arguments of a listed playlist set.
LEMMA MediaOptions ==
  ASSUME Surfing, NEW r \in Resolutions \cup {"none"}
  PROVE  /\ Says(mp4_split_options_set(DirArgs(r) \o ArgsOf(r)),
                 r # "none", r = "none", r, NoNumber)
         /\ mp4_split_options_set(DirArgs(r) \o ArgsOf(r)).length
              = mp4_split_options_set(ArgsOf(r)).length
<1> DEFINE T == ArgsFor(NoNumber, r)
           s == ArgsOf(r)
           d == DirArgs(r)
<1>1. s \in Seq(T) /\ Quiet(s) /\ d \in Seq(T)
  BY PrefixTypes, ArgsQuiet DEF DirArgs
<1>2. Says(mp4_split_options_set(d), r # "none", r = "none", r, NoNumber)
  <2>1. CASE r = "none"
    <3>1. d = Org /\ (r # "none") = FALSE /\ (r = "none") = TRUE
      BY <2>1 DEF DirArgs
    <3> HIDE DEF d
    <3> QED BY <2>1, <3>1, OrgSay
  <2>2. CASE r # "none"
    <3>1. d = Adbr(r) /\ (r # "none") = TRUE /\ (r = "none") = FALSE /\ r \in Resolutions
      BY <2>2 DEF DirArgs
    <3> HIDE DEF d
    <3> QED BY <3>1, AdbrSays
  <2> QED BY <2>1, <2>2
<1>3. Places(d, "length") = {}
  BY NoLengthSaid DEF DirArgs
<1> HIDE DEF T, s, d
<1>4. Says(mp4_split_options_set(d \o s), r # "none", r = "none", r, NoNumber)
  BY <1>1, <1>2, OptionsAfter DEF Says
<1>5. mp4_split_options_set(d \o s).length = mp4_split_options_set(s).length
  BY <1>1, <1>3, LengthAfter
<1> QED BY <1>4, <1>5 DEF s, d

\* What the arguments of a segment of a variant set.
LEMMA TsOptions ==
  ASSUME Surfing, NEW r \in Resolutions, NEW n
  PROVE  /\ Says(mp4_split_options_set((Video(n) \o Adbr(r)) \o ArgsOf(r)), TRUE, FALSE, r, n)
         /\ mp4_split_options_set((Video(n) \o Adbr(r)) \o ArgsOf(r)).length
              = mp4_split_options_set(ArgsOf(r)).length
<1> DEFINE T == ArgsFor(n, r)
           s == ArgsOf(r)
           d == Video(n) \o Adbr(r)
<1>1. s \in Seq(T) /\ Quiet(s) /\ d \in Seq(T)
  BY PrefixTypes, ArgsQuiet
<1>2. Says(mp4_split_options_set(d), TRUE, FALSE, r, n)
  BY VideoAdbrSay
<1>3. Places(d, "length") = {}
  BY NoLengthSaid
<1> HIDE DEF T, s, d
<1>4. Says(mp4_split_options_set(d \o s), TRUE, FALSE, r, n)
  BY <1>1, <1>2, OptionsAfter DEF Says
<1>5. mp4_split_options_set(d \o s).length = mp4_split_options_set(s).length
  BY <1>1, <1>3, LengthAfter
<1> QED BY <1>4, <1>5 DEF s, d

\* What the start sets.
LEMMA StartOptions ==
  ASSUME Surfing
  PROVE  LET o == mp4_split_options_set(Rewrite(start).args)
         IN  o.adbr = FALSE /\ o.org = FALSE /\ o.resolution = "none"
<1>1. ArgsOf("none") = start.args
  BY DEF ArgsOf
<1>2. Quiet(start.args) /\ start.args \in Seq(ArgsFor(start.number, "none"))
  BY <1>1, ArgsQuiet
<1>3. CASE start.number = NoNumber
  BY <1>2, <1>3, StartAsked, QuietSay DEF Says
<1>4. CASE start.number # NoNumber
  <2> DEFINE T == ArgsFor(start.number, "none")
             v == Video(start.number)
  <2>1. Rewrite(start).args = v \o start.args
    <3>1. start = [variant |-> start.variant, resolution |-> start.resolution,
                   number |-> start.number, ext |-> start.ext, args |-> start.args,
                   leads |-> start.leads]
      BY DEF Surfing, IsUrl
    <3> QED BY <1>4, <3>1, StartAsked
  <2>2. v \in Seq(T)
    BY PrefixTypes
  <2>3. Says(mp4_split_options_set(v), FALSE, FALSE, "none", start.number)
    BY VideoSays
  <2> HIDE DEF v, T
  <2>4. Says(mp4_split_options_set(v \o start.args), FALSE, FALSE, "none", start.number)
    <3>1. start.args \in Seq(T)
      BY <1>2 DEF T
    <3> QED BY <1>2, <2>2, <2>3, <3>1, OptionsAfter DEF Says
  <2> QED BY <2>1, <2>4 DEF Says
<1> QED BY <1>3, <1>4

\* What a playlist repeats of its arguments is what the start had: what the
\* directory stands for is left out.
LEMMA MediaExtra ==
  ASSUME Surfing, NEW r \in Resolutions \cup {"none"},
         options = mp4_split_options_set(DirArgs(r) \o ArgsOf(r))
  PROVE  extra(DirArgs(r) \o ArgsOf(r)) = ArgsOf(r)
<1> DEFINE T == ArgsFor(NoNumber, r)
           s == ArgsOf(r)
           d == DirArgs(r)
           c == d \o s
<1>1. s \in Seq(T) /\ Quiet(s) /\ d \in Seq(T)
  BY PrefixTypes, ArgsQuiet DEF DirArgs
<1>2. options.adbr = (r # "none") /\ options.resolution = r
  BY MediaOptions DEF Says
<1>3. /\ r = "none" => DOMAIN d = {1} /\ d[1] = Arg("org", "true")
      /\ r # "none" => /\ DOMAIN d = {1, 2} /\ d[1] = Arg("adbr", "true") /\ d[2] = Arg("vr", r)
                       /\ Len(d) = 2
  BY DEF DirArgs, Org, Adbr
<1> HIDE DEF T, s, d, c
<1>4. /\ \A k \in DOMAIN d : c[k] = d[k]
      /\ \A k \in DOMAIN s : c[k + Len(d)] = s[k]
      /\ Len(c) = Len(d) + Len(s) /\ Len(s) \in Nat
  BY <1>1, PlacesAfter, ConcatProperties DEF c
<1>5. \A k \in DOMAIN d : Named(c, k)
  <2>1. CASE r = "none"
    BY <1>2, <1>3, <1>4, <2>1 DEF Named
  <2>2. CASE r # "none"
    <3>1. 1 < Len(c)
      BY <1>3, <1>4, <2>2
    <3>2. Named(c, 1)
      BY <1>2, <1>3, <1>4, <2>2, <3>1 DEF Named
    <3>3. Named(c, 2)
      BY <1>2, <1>3, <1>4, <2>2 DEF Named
    <3> QED BY <1>3, <2>2, <3>2, <3>3
  <2> QED BY <2>1, <2>2
<1>6. \A k \in DOMAIN s : ~ Named(c, k + Len(d))
  <2> SUFFICES ASSUME NEW k \in DOMAIN s PROVE ~ Named(c, k + Len(d))
    OBVIOUS
  <2>1. Means(s[k].key) \in {"length", "hash", "?"}
    BY <1>1 DEF Quiet
  <2>2. s[k].key \notin {"adbr", "org", "vr"}
    BY <2>1, Names
  <2>3. c[k + Len(d)].key \notin {"adbr", "org", "vr"}
    BY <1>4, <2>2
  <2> QED BY <2>3 DEF Named, Arg
<1>7. extra(d \o s) = s
  BY <1>1, <1>5, <1>6, ExtraAfter DEF c
<1> QED BY <1>7 DEF d, s

-----------------------------------------------------------------------------
(* What the player is led to.                                              *)

Listed ==
  {Link(MediaUrl(r), "media", r, NoNumber) : r \in Variants(file.width) \cup {"none"}}
  \cup {Link(TsUrl(r, n), "segment", r, n) :
          r \in Variants(file.width) \cup {"none"}, n \in file.numbers}

\* What the player may ask for is what it started with, and links of playlists:
\* these exist only where the start leads to a file.
LinksListed ==
  Browsing =>
    \A l \in links \cup {request} :
      l = StartLink \/ (l \in Listed /\ start.leads /\ file.state = "file")

\* The options are those of the request.
OptionsRead ==
  pc \in {"extension", "fix", "open", "m3u8", "len", "ts", "probed", "playlist", "transcode",
          "response", "undefined"} \/ answer = "200"
    => options = mp4_split_options_set(Asked.args)

\* From the test of its extension on a request is treated by it; it is refused
\* where there is no file.
TypeAt ==
  /\ pc \in {"m3u8", "len", "ts"} => Type(Asked.ext) = pc
  /\ pc = "probed" => Type(Asked.ext) \in {"m3u8", "len"}
  /\ pc = "playlist" => Type(Asked.ext) = "m3u8"
  /\ pc = "transcode" => Type(Asked.ext) = "ts"
  /\ pc \in {"fix", "open", "m3u8", "len", "ts", "probed", "playlist"}
       => Asked.leads /\ file.state = "file"
  /\ answer = "404" => ~Asked.leads \/ file.state = "missing"

\* What is in bucket is what was asked for.
IsSegment(b) == Len(b) = 3 /\ b = <<"segment", Chosen, b[3]>>
Content ==
  \/ body = <<>>
  \/ body = <<"length">> /\ Type(Asked.ext) = "len"
  \/ body = <<"master">> /\ Type(Asked.ext) = "m3u8" /\ ~options.adbr /\ ~options.org
  \/ body = <<"media">> /\ Type(Asked.ext) = "m3u8"
  \/ Type(Asked.ext) = "ts" /\ IsSegment(body)
BodyAt ==
  /\ pc \in {"idle", "begin", "extension", "fix", "open", "m3u8", "len", "ts", "probed",
             "playlist"} => body = <<>>
  /\ pc \in {"transcode", "response"} \/ answer = "200" => Content
  /\ answer = "200" => body # <<>>
  /\ pc = "undefined" /\ body # <<>> =>
       options.adbr /\ file.width <= WidthOf(options.resolution) /\ Type(Asked.ext) = "ts"

Given == start \in StartUrls /\ file \in Files /\ relative \in BOOLEAN

\* What is declined is a directory, by its URL or by what is found there; and a
\* URL of a directory is not treated further.
DirectoryAt ==
  /\ Asked.ext = "/" => pc \in {"idle", "begin", "answered"} /\ answer \in {"none", "declined"}
  /\ answer = "declined" => Asked.ext = "/" \/ file.state = "directory"

Browse == Given /\ LinksListed /\ OptionsRead /\ TypeAt /\ BodyAt /\ DirectoryAt

\* A variant that is listed is narrower than the source.
LEMMA VariantsNarrower ==
  ASSUME NEW w \in Nat, NEW r \in Variants(w)
  PROVE  r \in Resolutions /\ r # "none" /\ WidthOf(r) < w
<1>1. /\ w >= 1920 => r \in Resolutions
      /\ r \in {"360p", "480p", "720p"}
      /\ ~ (w >= 1920) => r \in {"360p", "480p"}
      /\ ~ (w >= 1280) => r = "360p"
      /\ w >= 854
  BY DEF Variants, Resolutions
<1>2. WidthOf("360p") = 640 /\ WidthOf("480p") = 854 /\ WidthOf("720p") = 1280
  BY DEF WidthOf
<1>3. r = "360p" \/ r = "480p" \/ r = "720p"
  BY <1>1
<1>4. CASE r = "360p"
  BY <1>1, <1>2, <1>4 DEF Resolutions
<1>5. CASE r = "480p"
  BY <1>1, <1>2, <1>5 DEF Resolutions
<1>6. CASE r = "720p"
  BY <1>1, <1>2, <1>6 DEF Resolutions
<1> QED BY <1>3, <1>4, <1>5, <1>6

\* How what is listed is treated.
LEMMA TypesListed == Type("m3u8") = "m3u8" /\ Type("ts") = "ts" /\ Type("/") = "unknown"
BY DEF Type

\* A link of a playlist is a playlist's or a segment's.
IsMedia(l, r) ==
  /\ r \in Variants(file.width) \cup {"none"}
  /\ l = Link(MediaUrl(r), "media", r, NoNumber)
IsTs(l, r, n) ==
  /\ r \in Variants(file.width) \cup {"none"} /\ n \in file.numbers
  /\ l = Link(TsUrl(r, n), "segment", r, n)

\* What is listed are these two kinds of links.
LEMMA ListedLinks ==
  \A l : l \in Listed <=> (\E r : IsMedia(l, r)) \/ (\E r, n : IsTs(l, r, n))
BY DEF Listed, IsMedia, IsTs

\* What the assumption says of the start and the file.
LEMMA GivenFacts ==
  ASSUME Given
  PROVE  IsUrl(start) /\ file.width \in Nat /\ NoNumber \notin file.numbers
BY HandlerAssumption DEF Given

\* What a request for a listed playlist sets.
LEMMA RequestMedia ==
  ASSUME Given, Browsing, NEW r, IsMedia(request, r)
  PROVE  /\ r \in Resolutions \cup {"none"}
         /\ Asked.args = DirArgs(r) \o ArgsOf(r) /\ Asked.ext = "m3u8"
         /\ Asked.leads = (start.leads /\ relative)
         /\ request.resolution = r /\ request.kind = "media" /\ request.url = MediaUrl(r)
         /\ options = mp4_split_options_set(Asked.args) =>
              /\ Says(options, r # "none", r = "none", r, NoNumber)
              /\ options.length = mp4_split_options_set(ArgsOf(r)).length
<1>0. Surfing /\ file.width \in Nat
  BY GivenFacts DEF Surfing
<1>1. r \in Resolutions \cup {"none"}
  BY <1>0, VariantsNarrower DEF IsMedia
<1>2. request.resolution = r /\ request.kind = "media" /\ request.url = MediaUrl(r)
  BY DEF IsMedia, Link
<1>3. Asked = [MediaUrl(r) EXCEPT !.args = DirArgs(r) \o ArgsOf(r)]
  BY <1>0, <1>1, <1>2, MediaAsked DEF Asked
<1>4. MediaUrl(r) = [variant |-> DirOf(r), resolution |-> r, number |-> NoNumber,
                     ext |-> "m3u8", args |-> ArgsOf(r), leads |-> start.leads /\ relative]
  BY <1>0, ListedUrls
<1>5. /\ Asked.args = DirArgs(r) \o ArgsOf(r) /\ Asked.ext = "m3u8"
      /\ Asked.leads = (start.leads /\ relative)
  BY <1>3, <1>4
<1>6. /\ Says(mp4_split_options_set(DirArgs(r) \o ArgsOf(r)), r # "none", r = "none", r, NoNumber)
      /\ mp4_split_options_set(DirArgs(r) \o ArgsOf(r)).length
           = mp4_split_options_set(ArgsOf(r)).length
  BY <1>0, <1>1, MediaOptions
<1>7. options = mp4_split_options_set(Asked.args) =>
        /\ Says(options, r # "none", r = "none", r, NoNumber)
        /\ options.length = mp4_split_options_set(ArgsOf(r)).length
  BY <1>5, <1>6, Zenon
<1> QED BY <1>1, <1>2, <1>5, <1>7

\* What a request for a listed segment sets.
LEMMA RequestTs ==
  ASSUME Given, Browsing, NEW r, NEW n, IsTs(request, r, n)
  PROVE  /\ r \in Resolutions \cup {"none"}
         /\ Asked.leads = (start.leads /\ relative)
         /\ request.resolution = r /\ request.kind = "segment" /\ request.number = n
         /\ n # NoNumber
         /\ r = "none" => Asked.ext = "/" /\ Type(Asked.ext) = "unknown"
         /\ r # "none" =>
              /\ Asked.ext = "ts" /\ Type(Asked.ext) = "ts"
              /\ options = mp4_split_options_set(Asked.args) =>
                   /\ Says(options, TRUE, FALSE, r, n)
                   /\ options.length = mp4_split_options_set(ArgsOf(r)).length
<1>0. Surfing /\ file.width \in Nat /\ n # NoNumber
  BY GivenFacts DEF Surfing, IsTs
<1>1. r \in Resolutions \cup {"none"}
  BY <1>0, VariantsNarrower DEF IsTs
<1>2. /\ request.resolution = r /\ request.kind = "segment" /\ request.url = TsUrl(r, n)
      /\ request.number = n
  BY DEF IsTs, Link
<1>3. CASE r = "none"
  <2> DEFINE a == Rewrite(TsUrl(r, n))
  <2>0. a.ext = "/" /\ a.leads = (start.leads /\ relative)
    BY <1>0, <1>1, <1>3, TsAsked
  <2>1. Asked = a
    BY <1>2 DEF Asked
  <2> HIDE DEF a
  <2> QED BY <1>0, <1>1, <1>2, <1>3, <2>0, <2>1, TypesListed
<1>4. CASE r # "none"
  <2> DEFINE a == (Video(n) \o Adbr(r)) \o ArgsOf(r)
  <2>1. Asked = [TsUrl(r, n) EXCEPT !.args = a]
    BY <1>0, <1>1, <1>2, <1>4, TsAsked DEF Asked
  <2>2. TsUrl(r, n) = [variant |-> DirOf(r), resolution |-> r, number |-> n,
                       ext |-> "ts", args |-> ArgsOf(r), leads |-> start.leads /\ relative]
    BY <1>0, ListedUrls
  <2>3. /\ Says(mp4_split_options_set(a), TRUE, FALSE, r, n)
        /\ mp4_split_options_set(a).length = mp4_split_options_set(ArgsOf(r)).length
    BY <1>0, <1>1, <1>4, TsOptions
  <2> HIDE DEF a
  <2>4. Asked.args = a /\ Asked.ext = "ts" /\ Asked.leads = (start.leads /\ relative)
    BY <2>1, <2>2
  <2>5. options = mp4_split_options_set(Asked.args) =>
          /\ Says(options, TRUE, FALSE, r, n)
          /\ options.length = mp4_split_options_set(ArgsOf(r)).length
    BY <2>3, <2>4, Zenon
  <2> QED BY <1>0, <1>1, <1>2, <1>4, <2>4, <2>5, TypesListed
<1> QED BY <1>3, <1>4

\* What the player starts with sets neither adbr nor org.
LEMMA RequestStart ==
  ASSUME Given, Browsing, request = StartLink, options = mp4_split_options_set(Asked.args)
  PROVE  /\ options.adbr = FALSE /\ options.org = FALSE /\ options.resolution = "none"
         /\ start.number = NoNumber => Asked = start
         /\ start.number # NoNumber => Asked.ext = "ts"
         /\ request.url = start
<1>1. Surfing
  BY GivenFacts DEF Surfing
<1>2. request.url = start /\ Asked = Rewrite(start)
  BY DEF StartLink, Link, Asked
<1>3. start.number # NoNumber => Rewrite(start).ext = "ts"
  <2>1. start = [variant |-> start.variant, resolution |-> start.resolution,
                 number |-> start.number, ext |-> start.ext, args |-> start.args,
                 leads |-> start.leads]
    BY <1>1 DEF Surfing, IsUrl
  <2>2. start.number # NoNumber => start.ext = "ts"
    BY <1>1 DEF Surfing, IsUrl
  <2>3. start.number # NoNumber =>
          Rewrite(start) = [start EXCEPT !.args = Video(start.number) \o start.args]
    BY <1>1, StartAsked
  <2> QED BY <2>1, <2>2, <2>3
<1> QED BY <1>1, <1>2, <1>3, StartAsked, StartOptions

\* The master playlist lists what is said above.
LEMMA MasterLists ==
  ASSUME Given, Browsing, NEW l \in master(start, start.args)
  PROVE  l \in Listed
<1>0. file.width \in Nat
  BY GivenFacts
<1>1. CASE l \in {Link(PlaylistUrl(start, "adbr", r, ArgsPrinted(start.args)), "media", r, NoNumber) :
                    r \in Variants(file.width)}
  <2>1. PICK r \in Variants(file.width) :
          l = Link(PlaylistUrl(start, "adbr", r, ArgsPrinted(start.args)), "media", r, NoNumber)
    BY <1>1
  <2>2. r # "none"
    BY <1>0, VariantsNarrower
  <2>3. MediaUrl(r) = PlaylistUrl(start, "adbr", r, ArgsPrinted(start.args))
    BY <2>2 DEF MediaUrl, DirOf, ArgsOf
  <2>4. IsMedia(l, r)
    BY <2>1, <2>3 DEF IsMedia
  <2> QED BY <2>4, ListedLinks
<1>2. CASE l = Link(PlaylistUrl(start, "org", "none", start.args), "media", "none", NoNumber)
  <2>1. MediaUrl("none") = PlaylistUrl(start, "org", "none", start.args)
    BY DEF MediaUrl, DirOf, ArgsOf
  <2>2. IsMedia(l, "none")
    BY <1>2, <2>1 DEF IsMedia
  <2> QED BY <2>2, ListedLinks
<1> QED BY <1>1, <1>2 DEF master

\* The playlist of a variant lists that variant's segments, with a proxy's
\* address or without.
LEMMA MediaLists ==
  ASSUME Given, Browsing, NEW r, IsMedia(request, r), start.leads = TRUE,
         options = mp4_split_options_set(Asked.args),
         NEW l \in media(request.url, Asked.args)
  PROVE  l \in Listed
<1> DEFINE u == MediaUrl(r)
           x == extra(Asked.args)
<1>0. Surfing /\ relative \in BOOLEAN
  BY GivenFacts DEF Surfing, Given
<1>1. /\ r \in Resolutions \cup {"none"} /\ request.url = u
      /\ Asked.args = DirArgs(r) \o ArgsOf(r)
      /\ options.adbr = (r # "none") /\ options.resolution = r
  BY RequestMedia DEF Says
<1>2. x = ArgsOf(r)
  <2>1. options = mp4_split_options_set(DirArgs(r) \o ArgsOf(r))
    BY <1>1
  <2>2. extra(DirArgs(r) \o ArgsOf(r)) = ArgsOf(r)
    BY <1>0, <1>1, <2>1, MediaExtra
  <2> QED BY <1>1, <2>2, Zenon
<1>3. PICK n \in file.numbers :
        l = Link(SegmentUrl(request.url, Asked.args, n), "segment",
                 IF options.adbr /\ options.resolution = "none" THEN "360p"
                 ELSE options.resolution, n)
  BY DEF media
<1>4. u = [variant |-> DirOf(r), resolution |-> r, number |-> NoNumber,
           ext |-> "m3u8", args |-> ArgsOf(r), leads |-> relative]
  <2>1. u = [variant |-> DirOf(r), resolution |-> r, number |-> NoNumber,
             ext |-> "m3u8", args |-> ArgsOf(r), leads |-> start.leads /\ relative]
    BY <1>0, ListedUrls
  <2>2. (start.leads /\ relative) = relative
    BY <1>0
  <2> HIDE DEF u
  <2> QED BY <2>1, <2>2
<1> DEFINE v == [variant |-> DirOf(r), resolution |-> r, number |-> n,
                 ext |-> "ts", args |-> ArgsOf(r), leads |-> relative]
           s == SegmentUrl(u, Asked.args, n)
<1>5. TsUrl(r, n) = v
  <2> DEFINE t == TsUrl(r, n)
  <2>1. t = [u EXCEPT !.number = n, !.ext = "ts"]
    BY DEF TsUrl
  <2> HIDE DEF u, t
  <2>2. t = [variant |-> DirOf(r), resolution |-> r, number |-> n,
             ext |-> "ts", args |-> ArgsOf(r), leads |-> relative]
    BY <1>4, <2>1, OtherNumber
  <2> QED BY <2>2 DEF t
<1>6. s = v
  <2>1. CASE proxy
    <3> DEFINE d == IF options.adbr THEN "adbr" ELSE "org"
    <3>1. d = DirOf(r)
      BY <1>1 DEF DirOf
    <3>2. s = [u EXCEPT !.variant = d, !.resolution = options.resolution, !.number = n,
                        !.ext = "ts", !.args = x, !.leads = relative]
      BY <2>1 DEF SegmentUrl
    <3> HIDE DEF d, s, u, x
    <3>3. s = [u EXCEPT !.variant = DirOf(r), !.resolution = r, !.number = n,
                        !.ext = "ts", !.args = ArgsOf(r), !.leads = relative]
      BY <1>1, <1>2, <3>1, <3>2
    <3> QED BY <1>4, <3>3, OtherUrl
  <2>2. CASE ~ proxy
    <3>1. s = [u EXCEPT !.number = n, !.ext = "ts", !.args = x, !.leads = @ /\ relative]
      BY <2>2 DEF SegmentUrl
    <3> HIDE DEF s, u, x
    <3>2. /\ s.variant = DirOf(r) /\ s.resolution = r /\ s.number = n /\ s.ext = "ts"
          /\ s.args = ArgsOf(r) /\ s.leads = relative
      BY <1>0, <1>2, <1>4, <3>1
    <3>3. s = [variant |-> s.variant, resolution |-> s.resolution, number |-> s.number,
               ext |-> s.ext, args |-> s.args, leads |-> s.leads]
      BY <1>4, <3>1
    <3> QED BY <3>2, <3>3
  <2> QED BY <2>1, <2>2
<1>7. l = Link(TsUrl(r, n), "segment", r, n)
  <2>1. ~ (options.adbr /\ options.resolution = "none")
    BY <1>1
  <2> QED BY <1>1, <1>3, <1>5, <1>6, <2>1
<1>8. IsTs(l, r, n)
  BY <1>7 DEF IsTs, IsMedia
<1> QED BY <1>8, ListedLinks

\* What is asked for, and where, does not change with a step of the handler.
LEMMA WorldStays ==
  ASSUME [Next]_vars
  PROVE  /\ file' = file /\ relative' = relative /\ proxy' = proxy /\ fix' = fix /\ start' = start
         /\ Follow \/ request' = request
BY DEF Next, vars, world, Step, Goes, Answer, Follow, Decline, BeginFails, Begin, PlayMp4,
   WrongType, OpenFile, Fix, OpenMp4, OpenMp4Fails, SkipProbe, Probe, ProbeFails, NoStreams,
   Length, Width, NoPlaylist, MasterPlaylist, MediaPlaylist, PlaylistUndefined, SegmentFails,
   Segment, Transcode, TranscodeRefused, Respond, Done

\* Only playlists list links.
LEMMA LinksStay ==
  ASSUME [Next]_vars, ~ MasterPlaylist, ~ MediaPlaylist
  PROVE  links' = links
BY DEF Next, vars, Step, Goes, Answer, Follow, Decline, BeginFails, Begin, PlayMp4,
   WrongType, OpenFile, Fix, OpenMp4, OpenMp4Fails, SkipProbe, Probe, ProbeFails, NoStreams,
   Length, Width, NoPlaylist, PlaylistUndefined, SegmentFails,
   Segment, Transcode, TranscodeRefused, Respond, Done

\* Start and file stay those that are given.
LEMMA GivenStep == Given /\ [Next]_vars => Given'
BY WorldStays DEF Given

\* Links come only from playlists.
LEMMA LinksStep ==
  ASSUME IInv, Browse, [Next]_vars
  PROVE  LinksListed'
<1> SUFFICES ASSUME Browsing PROVE \A l \in (links \cup {request})' :
               l = StartLink \/ (l \in Listed /\ start.leads /\ file.state = "file")
  <2>1. start' = start /\ file' = file /\ relative' = relative
    BY WorldStays
  <2>2. Browsing' = Browsing /\ StartLink' = StartLink
    BY <2>1 DEF Browsing, StartLink
  <2>3. Listed' = Listed
    <3>1. \A r : ArgsOf(r)' = ArgsOf(r)
      BY <2>1 DEF ArgsOf, ArgsPrinted
    <3>2. \A r : MediaUrl(r)' = MediaUrl(r)
      BY <2>1, <3>1 DEF MediaUrl, PlaylistUrl
    <3>3. \A r, n : TsUrl(r, n)' = TsUrl(r, n)
      BY <3>2 DEF TsUrl
    <3>4. file.width' = file.width /\ file.numbers' = file.numbers
      BY <2>1
    <3> QED BY <3>2, <3>3, <3>4 DEF Listed
  <2> QED BY <2>1, <2>2, <2>3 DEF LinksListed
<1> DEFINE Fine(l) == l = StartLink \/ (l \in Listed /\ start.leads /\ file.state = "file")
<1>1. Given /\ \A l \in links \cup {request} : Fine(l)
  BY DEF Browse, LinksListed
<1>2. request' \in links \cup {request}
  <2>1. CASE Follow
    BY <2>1 DEF Follow
  <2> QED BY <2>1, WorldStays
<1>3. \A l \in links' : Fine(l)
  <2>1. CASE MasterPlaylist
    <3>1. /\ links' = links \cup master(request.url, Asked.args)
          /\ pc = "playlist" /\ ~options.adbr /\ ~options.org
      BY <2>1 DEF MasterPlaylist, Goes, Step
    <3>2. /\ options = mp4_split_options_set(Asked.args)
          /\ Type(Asked.ext) = "m3u8" /\ Asked.leads /\ file.state = "file"
      BY <3>1 DEF Browse, OptionsRead, TypeAt
    <3>3. request = StartLink
      <4>1. ASSUME NEW r, IsMedia(request, r) PROVE FALSE
        <5>1. options.adbr = (r # "none") /\ options.org = (r = "none")
          BY <1>1, <3>2, <4>1, RequestMedia DEF Says
        <5> QED BY <3>1, <5>1
      <4>2. ASSUME NEW r, NEW n, IsTs(request, r, n) PROVE FALSE
        <5>1. Type(Asked.ext) \in {"unknown", "ts"}
          BY <1>1, <4>2, RequestTs
        <5> QED BY <3>2, <5>1
      <4> QED BY <1>1, <4>1, <4>2, ListedLinks
    <3>4. request.url = start /\ Asked = start
      <4>1. Asked.ext = "ts" => Type(Asked.ext) = "ts"
        BY TypesListed
      <4> QED BY <1>1, <3>2, <3>3, <4>1, RequestStart
    <3>5. \A l \in master(start, start.args) : l \in Listed
      BY <1>1, MasterLists
    <3> QED BY <1>1, <3>1, <3>2, <3>4, <3>5
  <2>2. CASE MediaPlaylist
    <3>1. /\ links' = links \cup media(request.url, Asked.args)
          /\ pc = "playlist" /\ (options.adbr \/ options.org)
      BY <2>2 DEF MediaPlaylist, Goes, Step
    <3>2. /\ options = mp4_split_options_set(Asked.args)
          /\ Type(Asked.ext) = "m3u8" /\ file.state = "file"
      BY <3>1 DEF Browse, OptionsRead, TypeAt
    <3>3. request # StartLink
      <4>1. request = StartLink => options.adbr = FALSE /\ options.org = FALSE
        BY <1>1, <3>2, RequestStart
      <4> QED BY <3>1, <4>1
    <3>4. PICK r : IsMedia(request, r)
      <4>1. ASSUME NEW r, NEW n, IsTs(request, r, n) PROVE FALSE
        <5>1. Type(Asked.ext) \in {"unknown", "ts"}
          BY <1>1, <4>1, RequestTs
        <5> QED BY <3>2, <5>1
      <4> QED BY <1>1, <3>3, <4>1, ListedLinks
    <3>5. start.leads = TRUE
      <4>1. start.leads /\ start.leads \in BOOLEAN
        BY <1>1, <3>3, GivenFacts DEF IsUrl
      <4> QED BY <4>1
    <3>6. \A l \in media(request.url, Asked.args) : l \in Listed
      BY <1>1, <3>2, <3>4, <3>5, MediaLists
    <3> QED BY <1>1, <3>1, <3>2, <3>5, <3>6
  <2>3. CASE ~ MasterPlaylist /\ ~ MediaPlaylist
    BY <1>1, <2>3, LinksStay
  <2> QED BY <2>1, <2>2, <2>3
<1> QED BY <1>1, <1>2, <1>3

\* Between two stages the options stay, but where they are set.
LEMMA OptionsStep ==
  ASSUME IInv, Browse, [Next]_vars
  PROVE  OptionsRead'
<1> USE DEF OptionsRead, Browse
<1>1. CASE Follow \/ Done
  BY <1>1 DEF Follow, Done, IInv, AnswerAtEnd
<1>2. CASE Begin
  BY <1>2 DEF Begin, Goes, Step, Asked
<1>3. CASE Decline \/ BeginFails
  BY <1>3 DEF Decline, BeginFails, Answer, Step
<1>4. CASE PlayMp4 \/ WrongType \/ OpenFile \/ Fix \/ OpenMp4 \/ OpenMp4Fails
  BY <1>4 DEF PlayMp4, WrongType, OpenFile, Fix, OpenMp4, OpenMp4Fails, Goes, Answer, Step, Asked
<1>5. CASE SkipProbe \/ Probe \/ ProbeFails \/ NoStreams \/ Length \/ Width
  BY <1>5 DEF SkipProbe, Probe, ToProbe, ProbeFails, NoStreams, Length, Width, Goes, Answer, Step, Asked
<1>6. CASE NoPlaylist \/ MasterPlaylist \/ MediaPlaylist \/ PlaylistUndefined
  BY <1>6 DEF NoPlaylist, MasterPlaylist, MediaPlaylist, PlaylistUndefined, Goes, Step, Asked
<1>7. CASE SegmentFails \/ Segment \/ TranscodeRefused \/ Respond
  BY <1>7 DEF SegmentFails, Segment, TranscodeRefused, Respond, Goes, Answer, Step, Asked
<1>8. CASE Transcode
  BY <1>8 DEF Transcode, Goes, Answer, Step, Asked
<1>9. CASE UNCHANGED vars
  BY <1>9 DEF vars, Asked
<1> QED BY <1>1, <1>2, <1>3, <1>4, <1>5, <1>6, <1>7, <1>8, <1>9 DEF Next

\* The type of what is asked for, and where it leads, hold at each stage.
LEMMA TypeStep ==
  ASSUME IInv, Browse, [Next]_vars
  PROVE  TypeAt'
<1> USE DEF TypeAt, Browse, world
<1>1. CASE Follow \/ Done
  BY <1>1 DEF Follow, Done, IInv, AnswerAtEnd
<1>2. CASE Begin
  BY <1>2 DEF Begin, Goes, Step, Asked, IInv, AnswerAtEnd
<1>3. CASE Decline \/ BeginFails
  BY <1>3 DEF Decline, BeginFails, Answer, Step
<1>4. CASE PlayMp4 \/ WrongType \/ OpenFile
  BY <1>4 DEF PlayMp4, WrongType, OpenFile, Goes, Answer, Step, Asked, IInv, AnswerAtEnd
<1>5. CASE Fix \/ OpenMp4Fails
  BY <1>5 DEF Fix, OpenMp4Fails, Goes, Answer, Step, Asked, IInv, AnswerAtEnd
<1>6. CASE OpenMp4
  <2>1. Type(Asked.ext) \in {"m3u8", "len", "ts"}
    BY <1>6, TypeValues DEF OpenMp4, Goes, Step, IInv, KnownType
  <2> QED BY <1>6, <2>1 DEF OpenMp4, Goes, Step, Asked, IInv, AnswerAtEnd
<1>7. CASE SkipProbe \/ Probe \/ ProbeFails \/ NoStreams \/ Length \/ Width
  BY <1>7 DEF SkipProbe, Probe, ToProbe, ProbeFails, NoStreams, Length, Width, Goes, Answer,
     Step, Asked, IInv, AnswerAtEnd
<1>8. CASE NoPlaylist \/ MasterPlaylist \/ MediaPlaylist \/ PlaylistUndefined
  BY <1>8 DEF NoPlaylist, MasterPlaylist, MediaPlaylist, PlaylistUndefined, Goes, Step, Asked,
     IInv, AnswerAtEnd
<1>9. CASE SegmentFails \/ Segment \/ TranscodeRefused \/ Respond
  BY <1>9 DEF SegmentFails, Segment, TranscodeRefused, Respond, Goes, Answer, Step, Asked,
     IInv, AnswerAtEnd
<1>10. CASE Transcode
  BY <1>10 DEF Transcode, Goes, Answer, Step, Asked, IInv, AnswerAtEnd
<1>11. CASE UNCHANGED vars
  BY <1>11 DEF vars, Asked
<1> QED BY <1>1, <1>2, <1>3, <1>4, <1>5, <1>6, <1>7, <1>8, <1>9, <1>10, <1>11 DEF Next

\* The content is what the stages put into bucket.
LEMMA BodyStep ==
  ASSUME IInv, Browse, [Next]_vars
  PROVE  BodyAt'
<1> USE DEF BodyAt, world
<1>0. BodyAt /\ TypeAt /\ AnswerAtEnd /\ SegmentAtHand
  BY DEF Browse, IInv
<1>1. CASE Follow \/ Done
  BY <1>0, <1>1 DEF Follow, Done, AnswerAtEnd
<1>2. CASE Begin \/ Decline \/ BeginFails
  BY <1>0, <1>2 DEF Begin, Decline, BeginFails, Goes, Answer, Step, AnswerAtEnd
<1>3. CASE PlayMp4 \/ WrongType \/ OpenFile \/ Fix \/ OpenMp4Fails
  BY <1>0, <1>3 DEF PlayMp4, WrongType, OpenFile, Fix, OpenMp4Fails, Goes, Answer, Step,
     AnswerAtEnd
<1>4. CASE OpenMp4
  <2>1. Type(Asked.ext) \in {"m3u8", "len", "ts"}
    BY <1>4, TypeValues DEF OpenMp4, Goes, Step, IInv, KnownType
  <2> QED BY <1>0, <1>4, <2>1 DEF OpenMp4, Goes, Step, AnswerAtEnd
<1>5. CASE SkipProbe \/ Probe \/ ProbeFails \/ NoStreams \/ Width
  BY <1>0, <1>5 DEF SkipProbe, Probe, ToProbe, ProbeFails, NoStreams, Width, Goes, Answer, Step,
     AnswerAtEnd
<1>6. CASE Length \/ NoPlaylist \/ MasterPlaylist \/ MediaPlaylist \/ PlaylistUndefined
  BY <1>0, <1>6 DEF Length, NoPlaylist, MasterPlaylist, MediaPlaylist, PlaylistUndefined, Goes,
     Step, AnswerAtEnd, TypeAt, Content, Asked
<1>7. CASE SegmentFails
  BY <1>0, <1>7 DEF SegmentFails, Answer, Step
<1>8. CASE Segment
  <2>1. IsSegment(body') /\ Type(Asked.ext) = "ts" /\ pc' \in {"transcode", "response"}
    BY <1>0, <1>8 DEF Segment, Goes, Step, TypeAt, IsSegment
  <2>2. Content'
    BY <1>8, <2>1 DEF Segment, Goes, Step, Content, IsSegment, Chosen, Asked
  <2> QED BY <1>0, <1>8, <2>1, <2>2 DEF Segment, Goes, Step, AnswerAtEnd
<1>9. CASE Transcode
  <2>1. CASE Answer("transcode", "500")
    BY <1>9, <2>1 DEF Answer, Step
  <2>2. CASE Goes("transcode", "response")
    <3>1. pc = "transcode" /\ body # <<>> /\ Type(Asked.ext) = "ts" /\ Content
      BY <1>0, <2>2 DEF Goes, Step, SegmentAtHand, TypeAt
    <3>2. PICK x : body = <<"segment", Chosen, x>>
      BY <3>1 DEF Content, IsSegment
    <3>3. \A y : [body EXCEPT ![3] = y] = <<"segment", Chosen, y>>
      BY <3>2
    <3>4. body' = body \/ \E y : body' = [body EXCEPT ![3] = y]
      BY <1>9, <2>2 DEF Transcode, Answer, Goes, Step
    <3>5. IsSegment(body')
      BY <3>2, <3>3, <3>4 DEF IsSegment
    <3>6. Content'
      BY <1>9, <2>2, <3>1, <3>5 DEF Transcode, Goes, Step, Content, IsSegment, Chosen, Asked
    <3> QED BY <1>0, <2>2, <3>6 DEF Goes, Step, AnswerAtEnd
  <2> QED BY <1>9, <2>1, <2>2 DEF Transcode
<1>10. CASE TranscodeRefused
  BY <1>0, <1>10 DEF TranscodeRefused, Goes, Step, SegmentAtHand, AnswerAtEnd, TypeAt, Asked
<1>11. CASE Respond
  <2>1. Content /\ pc' = "answered" /\ body' = body /\ options' = options /\ request' = request
        /\ answer' = (IF body = <<>> THEN "415" ELSE "200")
    BY <1>0, <1>11 DEF Respond, Answer, Step
  <2>2. Content'
    BY <2>1 DEF Content, IsSegment, Chosen, Asked
  <2> QED BY <2>1, <2>2
<1>12. CASE UNCHANGED vars
  BY <1>0, <1>12 DEF vars, Asked, Content, IsSegment, Chosen
<1> QED BY <1>1, <1>2, <1>3, <1>4, <1>5, <1>6, <1>7, <1>8, <1>9, <1>10, <1>11, <1>12 DEF Next

\* A directory is declined at once, and nothing else is.
LEMMA DirectoryStep ==
  ASSUME IInv, Browse, [Next]_vars
  PROVE  DirectoryAt'
<1> USE DEF DirectoryAt, Browse, world
<1>0. DirectoryAt /\ AnswerAtEnd
  BY DEF IInv
<1>1. CASE Follow \/ Done
  BY <1>0, <1>1 DEF Follow, Done, AnswerAtEnd
<1>2. CASE Decline \/ BeginFails \/ Begin
  BY <1>0, <1>2 DEF Decline, BeginFails, Begin, Goes, Answer, Step, Asked, AnswerAtEnd
<1>3. CASE PlayMp4 \/ WrongType \/ OpenFile \/ Fix \/ OpenMp4Fails
  BY <1>0, <1>3 DEF PlayMp4, WrongType, OpenFile, Fix, OpenMp4Fails, Goes, Answer, Step, Asked,
     AnswerAtEnd
<1>4. CASE OpenMp4
  BY <1>0, <1>4 DEF OpenMp4, Goes, Step, Asked, AnswerAtEnd
<1>5. CASE SkipProbe \/ Probe \/ ProbeFails \/ NoStreams \/ Length \/ Width
  <2>1. pc \in {"m3u8", "len", "probed"}
    BY <1>5 DEF SkipProbe, Probe, ProbeFails, ToProbe, NoStreams, Length, Width, Goes, Answer,
       Step
  <2>2. request' = request /\ file' = file /\ answer' \in {answer, "500"}
    BY <1>5 DEF SkipProbe, Probe, ProbeFails, NoStreams, Length, Width, Goes, Answer, Step
  <2> QED BY <1>0, <2>1, <2>2 DEF Asked, AnswerAtEnd
<1>6. CASE NoPlaylist \/ MasterPlaylist \/ MediaPlaylist \/ PlaylistUndefined
  BY <1>0, <1>6 DEF NoPlaylist, MasterPlaylist, MediaPlaylist, PlaylistUndefined, Goes, Step,
     Asked, AnswerAtEnd
<1>7. CASE SegmentFails \/ Segment \/ Transcode \/ TranscodeRefused \/ Respond
  <2>1. pc \in {"ts", "transcode", "response"}
    BY <1>7 DEF SegmentFails, Segment, Transcode, TranscodeRefused, Respond, Goes, Answer, Step
  <2>2. request' = request /\ file' = file /\ answer' \in {answer, "500", "415", "200"}
    BY <1>7 DEF SegmentFails, Segment, Transcode, TranscodeRefused, Respond, Goes, Answer, Step
  <2> QED BY <1>0, <2>1, <2>2 DEF Asked, AnswerAtEnd
<1>8. CASE UNCHANGED vars
  BY <1>0, <1>8 DEF vars, Asked
<1> QED BY <1>1, <1>2, <1>3, <1>4, <1>5, <1>6, <1>7, <1>8 DEF Next

\* The player begins with the start alone.
LEMMA BrowseInit == Init => Browse
<1> SUFFICES ASSUME Init PROVE Browse
  OBVIOUS
<1>1. Given /\ LinksListed
  BY DEF Init, Given, LinksListed, StartLink
<1>2. OptionsRead /\ TypeAt /\ BodyAt /\ DirectoryAt
  BY DEF Init, OptionsRead, TypeAt, BodyAt, DirectoryAt
<1> QED BY <1>1, <1>2 DEF Browse

\* Both invariants hold whatever the player asks for, and whatever fails.
LEMMA BrowseHolds == Spec => [](IInv /\ Browse)
<1>1. IInv /\ Browse /\ [Next]_vars => Browse'
  BY GivenStep, LinksStep, OptionsStep, TypeStep, BodyStep, DirectoryStep DEF Browse
<1> QED BY InitIInv, StepIInv, BrowseInit, <1>1, PTL DEF Spec

\* For any files, URLs to start with and order of following links, whichever call
\* fails: a link that a playlist lists leads to the file, and its request is
\* answered with what the link stands for, through names, rewriting rules and
\* arguments; but the link of a segment of the source, which is below org/, is
\* declined.
THEOREM LinksDeliver == Spec => []LinkDelivers
<1>1. IInv /\ Browse => LinkDelivers
  <2> SUFFICES ASSUME IInv, Browse, Browsing, request.kind # "start" PROVE LinkDelivers
    BY DEF LinkDelivers
  <2>0. Given /\ OptionsRead /\ TypeAt /\ BodyAt /\ DirectoryAt
    BY DEF Browse
  <2>1. request \in Listed /\ start.leads /\ file.state = "file"
    <3>1. request # StartLink
      BY DEF StartLink, Link
    <3> QED BY <3>1 DEF Browse, LinksListed
  <2>2. file.width \notin 854 .. 1279 => \A r : ArgsOf(r) = start.args
    BY <2>0, GivenFacts DEF ArgsOf, ArgsPrinted
  <2>3. answer = "404" /\ Asked.leads => FALSE
    BY <2>0, <2>1 DEF TypeAt
  <2>4. Asked.ext # "/" => answer # "declined"
    BY <2>0, <2>1 DEF DirectoryAt
  <2>5. answer = "200" =>
          options = mp4_split_options_set(Asked.args) /\ Content /\ body # <<>>
    BY <2>0 DEF OptionsRead, BodyAt
  <2>6. ASSUME NEW r, IsMedia(request, r) PROVE LinkDelivers
    <3>1. /\ Asked.ext = "m3u8" /\ Asked.leads = (start.leads /\ relative)
          /\ request.resolution = r /\ request.kind = "media"
          /\ answer = "200" =>
               /\ options.adbr = (r # "none") /\ options.org = (r = "none")
               /\ options.resolution = r
               /\ options.length = mp4_split_options_set(ArgsOf(r)).length
      BY <2>0, <2>5, <2>6, RequestMedia DEF Says
    <3>2. relative => answer \notin {"404", "declined"}
      BY <2>1, <2>3, <2>4, <3>1
    <3>3. answer = "200" => body = <<"media">>
      BY <2>5, <3>1, TypesListed DEF Content
    <3>4. ~ OfSource(request)
      BY <3>1 DEF OfSource
    <3> QED BY <2>2, <3>1, <3>2, <3>3, <3>4 DEF LinkDelivers
  <2>7. ASSUME NEW r, NEW n, IsTs(request, r, n) PROVE LinkDelivers
    <3>1. /\ Asked.leads = (start.leads /\ relative) /\ request.resolution = r
          /\ request.kind = "segment" /\ request.number = n /\ n # NoNumber
      BY <2>0, <2>7, RequestTs
    <3>2. OfSource(request) <=> r = "none"
      BY <3>1 DEF OfSource
    <3>3. OfSource(request) => answer \in {"none", "declined"}
      BY <2>0, <2>7, <3>2, RequestTs DEF DirectoryAt
    <3>4. relative /\ ~ OfSource(request) => answer \notin {"404", "declined"}
      <4>1. ~ OfSource(request) => Asked.ext = "ts"
        BY <2>0, <2>7, <3>2, RequestTs
      <4> QED BY <2>1, <2>3, <2>4, <3>1, <4>1
    <3>5. ASSUME answer = "200"
          PROVE  /\ r # "none" /\ options.adbr = TRUE /\ options.resolution = r
                 /\ options.number = n
                 /\ options.length = mp4_split_options_set(ArgsOf(r)).length
                 /\ Type(Asked.ext) = "ts"
      <4>1. Type(Asked.ext) # "unknown"
        BY <2>5, <3>5 DEF Content
      <4> QED BY <2>0, <2>5, <2>7, <3>5, <4>1, RequestTs DEF Says
    <3>6. ASSUME answer = "200" PROVE body[1] = "segment" /\ body[2] = request.number
      <4>1. PICK x : body = <<"segment", Chosen, x>>
        BY <2>5, <3>5, <3>6 DEF Content, IsSegment
      <4>2. Chosen = n
        BY <3>1, <3>5, <3>6 DEF Chosen
      <4> QED BY <3>1, <4>1, <4>2
    <3>7. ASSUME answer = "200"
          PROVE  /\ options.adbr = (request.resolution # "none")
                 /\ options.resolution = request.resolution
      BY <3>1, <3>5, <3>7
    <3>8. answer = "200" /\ file.width \notin 854 .. 1279 =>
            options.length = mp4_split_options_set(start.args).length
      BY <2>2, <3>5
    <3>9. request.kind # "media"
      BY <3>1
    <3> QED BY <3>3, <3>4, <3>6, <3>7, <3>8, <3>9 DEF LinkDelivers
  <2> QED BY <2>1, <2>6, <2>7, ListedLinks
<1> QED BY BrowseHolds, <1>1, PTL

\* For any files and order of following links: the transcoder is not asked for
\* what is as wide as the source, unless a URL that is no link asks for it.
THEOREM OffersOnlyWhatWorks == Spec => []OffersOnlyWider
<1>1. IInv /\ Browse => OffersOnlyWider
  <2> SUFFICES ASSUME IInv, Browse, pc = "undefined", Browsing, body # <<>> PROVE FALSE
    BY DEF OffersOnlyWider
  <2>1. /\ Given /\ options = mp4_split_options_set(Asked.args)
        /\ options.adbr /\ file.width <= WidthOf(options.resolution) /\ Type(Asked.ext) = "ts"
    BY DEF Browse, OptionsRead, BodyAt
  <2>2. request # StartLink
    <3>1. request = StartLink => options.adbr = FALSE
      BY <2>1, RequestStart
    <3> QED BY <2>1, <3>1
  <2>3. ASSUME NEW r, IsMedia(request, r) PROVE FALSE
    <3>1. Type(Asked.ext) = "m3u8"
      BY <2>1, <2>3, RequestMedia, TypesListed
    <3> QED BY <2>1, <3>1
  <2>4. ASSUME NEW r, NEW n, IsTs(request, r, n) PROVE FALSE
    <3>1. r # "none" /\ options.resolution = r
      BY <2>1, <2>4, RequestTs DEF Says
    <3>2. r \in Variants(file.width) /\ file.width \in Nat
      BY <2>1, <2>4, <3>1, GivenFacts DEF IsTs
    <3>3. WidthOf(r) < file.width /\ WidthOf(r) \in Nat
      BY <3>2, VariantsNarrower DEF WidthOf
    <3> QED BY <2>1, <3>1, <3>2, <3>3
  <2> QED BY <2>2, <2>3, <2>4, ListedLinks DEF Browse, LinksListed
<1> QED BY BrowseHolds, <1>1, PTL
=============================================================================
