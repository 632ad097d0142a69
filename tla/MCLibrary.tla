----------------------------- MODULE MCLibrary -----------------------------
(***************************************************************************)
(* Small instances of Library for TLC.                                     *)
(***************************************************************************)
EXTENDS Library

CONSTANTS c1, e1, e2

Found(copied, entries, recorded, spent) ==
    [disk |-> copied, listed |-> entries, plays |-> recorded, edits |-> spent]

Copied == [bytes |-> c1, named |-> FALSE]

\* A new library, whose folder may hold a file or two of equal bytes, or whose
\* playlist lists two entries, one entry twice, or one; with what is left of
\* two edits.
Begun == {
    Found(<<>>, <<e1>>, FALSE, 0),
    Found(<<Copied>>, <<e1>>, FALSE, 0),
    Found(<<Copied, Copied>>, <<e1>>, FALSE, 1),
    Found(<<>>, <<e1, e2>>, TRUE, 1),
    Found(<<>>, <<e1, e1>>, TRUE, 0),
    Found(<<Copied>>, <<e1, e2>>, TRUE, 1) }

\* A new library with nothing in its folder.
Empty == {Found(<<>>, <<>>, FALSE, 0)}

============================================================================
