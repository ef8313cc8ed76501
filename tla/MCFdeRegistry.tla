---------------------------- MODULE MCFdeRegistry ----------------------------
(***************************************************************************)
(* Instances of FdeRegistry for TLC: the tables of two modules, and a      *)
(* check of the sort against its definition.                               *)
(***************************************************************************)
EXTENDS FdeRegistry, TLC

CONSTANTS dllA, dllB

Fde(begin, range) == [begin |-> begin, range |-> range, omit |-> FALSE]

\* Three functions, with a gap between the second and the third, in some order.
Functions == <<Fde(3, 2), Fde(5, 1), Fde(7, 2)>>
Shuffled(p) == [i \in 1..3 |-> Functions[p[i]]]

\* A module above, a module below, an empty one, and one that cannot be handled.
Above == <<Fde(9, 1)>>
Below == <<Fde(1, 1)>>
CannotHandle == <<Fde(9, 1), [Fde(10, 1) EXCEPT !.omit = TRUE]>>

\* The functions in order, rotated and reversed beside the module above; one order, with a
\* function that was removed, beside each of the others.
SomeLayouts ==
  {(dllA :> Shuffled(p)) @@ (dllB :> Above) : p \in {<<1, 2, 3>>, <<3, 1, 2>>, <<3, 2, 1>>}}
  \cup {(dllA :> <<Fde(0, 1)>> \o Shuffled(<<2, 3, 1>>)) @@ (dllB :> n) : n \in {Below, <<>>, CannotHandle}}

\* The sort puts any few values in order, with and without the erratic array.
ASSUME SortSorts ==
  \A n \in 0..5 : \A s \in [1..n -> 1..n], both \in BOOLEAN :
    LET v == [i \in 1..n |-> Fde(s[i], 1)]
        w == end_fde_sort(v, both)
    IN  /\ Len(w) = n /\ \A i \in 1..(n - 1) : w[i].begin <= w[i + 1].begin
        /\ \A x \in 1..n : Cardinality({i \in 1..n : v[i].begin = x})
                          = Cardinality({i \in 1..n : w[i].begin = x})

=============================================================================
