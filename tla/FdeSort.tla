------------------------------- MODULE FdeSort -------------------------------
(***************************************************************************)
(* How libgcc/unwind-dw2-fde.c sorts and searches the frame descriptions   *)
(* (FDEs) of one object.                                                   *)
(*                                                                         *)
(* An FDE is the code range it describes, begin and range; decoding these  *)
(* from the CIE's encoding is left out, as are the CIEs in between.  begin *)
(* is 0 for a function that the linker has removed.  omit tells that the   *)
(* CIE has an address size the library is not prepared for.  Arrays start  *)
(* at 1 here and at 0 in the code.                                         *)
(***************************************************************************)
EXTENDS Integers, Sequences, FiniteSets

\* The result of a search that finds nothing (NULL).
NoFde == [begin |-> 0, range |-> 0, omit |-> FALSE]

\* fde_unencoded_compare (x, y) < 0, and its variants for encoded values.
FdeLess(x, y) == x.begin < y.begin

Largest(S) == CHOOSE k \in S : \A j \in S : j <= k

Lowermost(S) == CHOOSE k \in S : \A j \in S : k <= j

(* Going down from n, the first place of v that is not above x; 0 if none. *)
FirstNotAbove(v, n, x) == Largest({0} \cup {k \in 1..n : ~FdeLess(x, v[k])})

-----------------------------------------------------------------------------
(* fde_split: the chain of places that form the linear sequence.  Each     *)
(* place takes from the end of the chain those whose values are above its  *)
(* own; what is taken off is erratic.                                      *)
Chain(v) ==
  LET chain[i \in 0..Len(v)] ==
        IF i = 0 THEN <<>>
        ELSE LET before == chain[i - 1]
                 kept == FirstNotAbove([k \in DOMAIN before |-> v[before[k]]], Len(before), v[i])
             IN  Append(SubSeq(before, 1, kept), i)
  IN  chain[Len(v)]

Linear(v) == LET c == Chain(v) IN [k \in DOMAIN c |-> v[c[k]]]

\* The elements of v at the places in P, in their order.
TakenAt(v, P) ==
  LET taken[i \in 0..Len(v)] ==
        IF i = 0 THEN <<>>
        ELSE IF i \in P THEN Append(taken[i - 1], v[i]) ELSE taken[i - 1]
  IN  taken[Len(v)]

Erratic(v) == LET c == Chain(v) IN TakenAt(v, DOMAIN v \ {c[k] : k \in DOMAIN c})

-----------------------------------------------------------------------------
Swap(a, i, j) == [a EXCEPT ![i] = a[j], ![j] = a[i]]

\* The child of i that is compared with its parent, in the heap a[1..hi].
BiggerChild(a, i, hi) ==
  IF 2 * i + 1 <= hi /\ FdeLess(a[2 * i], a[2 * i + 1]) THEN 2 * i + 1 ELSE 2 * i

(* frame_downheap: the element at lo sinks until no child is above it.     *)
frame_downheap(a, lo, hi) ==
  LET sunk[n \in 0..hi] ==      \* the array, and where the element is, after n rounds
        IF n = 0 THEN <<a, lo>>
        ELSE LET before == sunk[n - 1]
                 b == before[1]
                 i == before[2]
                 j == BiggerChild(b, i, hi)
             IN  IF 2 * i <= hi /\ FdeLess(b[i], b[j]) THEN <<Swap(b, i, j), j>> ELSE before
  IN  sunk[hi][1]

(* frame_heapsort: a heap is built from the middle down, then its top is   *)
(* swapped to the end of the shrinking heap.                               *)
frame_heapsort(a) ==
  LET heap[m \in 0..(Len(a) \div 2)] ==
        IF m = 0 THEN a ELSE frame_downheap(heap[m - 1], Len(a) \div 2 + 1 - m, Len(a))
      left[m \in 0..Len(a)] ==
        IF m <= 1 THEN heap[Len(a) \div 2]
        ELSE frame_downheap(Swap(left[m - 1], 1, Len(a) + 2 - m), 1, Len(a) + 1 - m)
  IN  left[Len(a)]

(* fde_merge: from the end, each element of v2 is put where v1 has nothing *)
(* above it left of it.                                                    *)
fde_merge(v1, v2) ==
  LET merged[n \in 0..Len(v2)] ==   \* how much of v1 is left, and what follows it
        IF n = 0 THEN <<Len(v1), <<>>>>
        ELSE LET before == merged[n - 1]
                 x == v2[Len(v2) + 1 - n]
                 k == FirstNotAbove(v1, before[1], x)
             IN  <<k, <<x>> \o SubSeq(v1, k + 1, before[1]) \o before[2]>>
      all == merged[Len(v2)]
  IN  SubSeq(v1, 1, all[1]) \o all[2]

(* end_fde_sort, with and without memory for the erratic array.            *)
end_fde_sort(v, hasErratic) ==
  IF hasErratic THEN fde_merge(Linear(v), frame_heapsort(Erratic(v))) ELSE frame_heapsort(v)

-----------------------------------------------------------------------------
Covers(f, pc) == f.begin <= pc /\ pc < f.begin + f.range

(* The binary searches: hi moves down when pc is below the middle, lo up   *)
(* when it is at or past its end.                                          *)
binary_search_fdes(vec, pc) ==
  LET found[w \in [lo : 0..Len(vec), hi : 0..Len(vec)]] ==
        IF w.lo >= w.hi THEN NoFde
        ELSE LET i == (w.lo + w.hi) \div 2
             IN  IF pc < vec[i + 1].begin THEN found[[w EXCEPT !.hi = i]]
                 ELSE IF pc >= vec[i + 1].begin + vec[i + 1].range
                      THEN found[[w EXCEPT !.lo = i + 1]]
                 ELSE vec[i + 1]
  IN  found[[lo |-> 0, hi |-> Len(vec)]]

(* linear_search_fdes: the first FDE that covers pc, removed ones skipped. *)
linear_search_fdes(tab, pc) ==
  LET hits == {i \in DOMAIN tab : tab[i].begin # 0 /\ Covers(tab[i], pc)}
  IN  IF hits = {} THEN NoFde ELSE tab[Lowermost(hits)]

-----------------------------------------------------------------------------
Unhandled(tab) == \E i \in DOMAIN tab : tab[i].omit

\* The FDEs that classify_object_over_fdes reaches, removed functions left out.
Reached(tab) ==
  LET stop == {i \in DOMAIN tab : \E j \in 1..i : tab[j].omit}
  IN  {i \in DOMAIN tab \ stop : tab[i].begin # 0}

(* classify_object_over_fdes: the lowest address, starting from what       *)
(* pc_begin was before.                                                    *)
Lowest(tab, before) ==
  Lowermost({before} \cup {tab[i].begin : i \in Reached(tab)})

\* add_fdes: what is collected for the sort.
Collected(tab) == TakenAt(tab, {i \in DOMAIN tab : tab[i].begin # 0})

=============================================================================
