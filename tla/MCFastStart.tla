---------------------------- MODULE MCFastStart -----------------------------
(***************************************************************************)
(* Small files: moov of one to three cells, last or not, a body between    *)
(* ftyp and moov from as large as moov to seven times its size, a file     *)
(* without ftyp, and one with an unknown atom in it.                       *)
(***************************************************************************)
EXTENDS FastStart

Atom(type, size) == [type |-> type, size |-> size]

MoovLast(f, b, m) == <<Atom("ftyp", f), Atom("mdat", b), Atom("moov", m)>>

MCLayouts ==
  {MoovLast(1, b, m) : b \in 3 .. 7, m \in 1 .. 3}
  \cup {MoovLast(2, 5, 2),
        <<Atom("mdat", 5), Atom("moov", 2)>>,
        <<Atom("ftyp", 1), Atom("moov", 2), Atom("mdat", 4)>>,
        <<Atom("ftyp", 1), Atom("free", 1), Atom("mdat", 4), Atom("moov", 2)>>,
        <<Atom("ftyp", 1), Atom("other", 1), Atom("mdat", 4), Atom("moov", 2)>>,
        <<Atom("ftyp", 1), Atom("mdat", 3), Atom("cmov", 2)>>}

\* A body twice as large as moov.
MCTwice == {MoovLast(1, 4, 2)}
=============================================================================
