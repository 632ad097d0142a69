----------------------------- MODULE MCTransfer -----------------------------
(* Contents of stores for the checking of module Transfer. *)
EXTENDS Transfer

Row(k, b, e, l) == [key |-> k, born |-> b, owner |-> b, enabled |-> e, loudnorm |-> l]
Shelf(m, f, rs) == [mode |-> m, folder |-> f, items |-> rs]
Card(n, p, v)   ==
    [library |-> n, mode |-> v, seed |-> v, pin |-> p, cursor |-> v,
     override |-> v, fit |-> v, enabled |-> v]

\* Nothing but a tonie the sink lists; a library with a pinned tonie; the same
\* names with other contents; two libraries that share a key, a tonie without
\* a library and one pinned to a story of the other library.
Bare == [libs |-> <<>>, tonies |-> 1 :> Card(0, NoPin, 1)]
One  == [libs |-> 1 :> Shelf(1, 1, <<Row(1, 1, TRUE, FALSE), Row(2, 1, FALSE, TRUE)>>),
         tonies |-> 1 :> Card(1, <<1, 2>>, 1)]
Else == [libs |-> 1 :> Shelf(2, 1, <<Row(2, 2, TRUE, FALSE)>>),
         tonies |-> 1 :> Card(1, <<1, 2>>, 2) @@ 2 :> Card(0, NoPin, 2)]
Two  == [libs |-> 1 :> Shelf(1, 1, <<Row(1, 1, TRUE, FALSE)>>)
                  @@ 2 :> Shelf(2, 0, <<Row(1, 2, FALSE, FALSE), Row(3, 2, TRUE, TRUE)>>),
         tonies |-> 1 :> Card(2, <<1, 1>>, 1) @@ 2 :> Card(2, <<2, 3>>, 2)]

Contents == {Bare, One, Else, Two}
=============================================================================
