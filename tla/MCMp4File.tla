----------------------------- MODULE MCMp4File ------------------------------
(***************************************************************************)
(* Files of up to three atoms in every order, with a moov before or behind *)
(* mdat, one that cannot be parsed or is too large, none at all, or a wide *)
(* header; whole, or cut off by 5 or 12 bytes.  The buffer is as small as  *)
(* to be outgrown by moov, and large enough to hold some atoms.            *)
(***************************************************************************)
EXTENDS Mp4File

Kind == {[type |-> "ftyp", size |-> 10, wide |-> FALSE, good |-> TRUE],
         [type |-> "moov", size |-> 14, wide |-> FALSE, good |-> TRUE],
         [type |-> "moov", size |-> 25, wide |-> FALSE, good |-> TRUE],
         [type |-> "moov", size |-> 14, wide |-> FALSE, good |-> FALSE],
         [type |-> "mdat", size |-> 12, wide |-> FALSE, good |-> TRUE],
         [type |-> "mdat", size |-> 20, wide |-> TRUE, good |-> TRUE],
         [type |-> "free", size |-> 8, wide |-> FALSE, good |-> TRUE],
         [type |-> "free", size |-> 6, wide |-> FALSE, good |-> TRUE]}

Place(kinds) ==
  LET start[k \in 1 .. Len(kinds) + 1] ==
        IF k = 1 THEN 0 ELSE start[k - 1] + kinds[k - 1].size
  IN  [size |-> start[Len(kinds) + 1],
       atoms |-> [k \in 1 .. Len(kinds) |->
                    [type |-> kinds[k].type, start |-> start[k], size |-> kinds[k].size,
                     wide |-> kinds[k].wide, good |-> kinds[k].good]]]

MCLayouts ==
  UNION {{[f EXCEPT !.size = @ - cut] : cut \in {c \in {0, 5, 12} : c < f.size}} :
           f \in {Place(kinds) : kinds \in UNION {[1 .. n -> Kind] : n \in 1 .. 3}}}
=============================================================================
