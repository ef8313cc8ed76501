-------------------------- MODULE FdeRegistryProofs --------------------------
(***************************************************************************)
(* Proofs about the frame registry, for any threads, modules and frame     *)
(* tables.                                                                 *)
(***************************************************************************)
EXTENDS FdeRegistry, SequenceTheorems, WellFoundedInduction, TLAPS

-----------------------------------------------------------------------------
(* Induction, as the existence of a least element: a property of numbers   *)
(* that fails somewhere has a first place where it fails.                  *)
LEMMA LeastNat ==
  ASSUME NEW T, T \subseteq Nat, T # {}
  PROVE  \E x \in T : \A y \in T : x <= y
<1> DEFINE R == {ss \in Nat \X Nat : ss[1] < ss[2]}
<1>1. IsWellFoundedOn(R, Nat)
  BY NatLessThanWellFounded DEF OpToRel
<1> HIDE DEF R
<1>2. PICK x \in T : \A y \in T : ~(<<y, x>> \in R)
  BY <1>1, WFMin
<1>3. \A y \in T : ~(y < x)
  BY <1>2 DEF R
<1> QED
  BY <1>2, <1>3

\* Lowermost takes the least element of a set of numbers.
LEMMA LowermostIsLeast ==
  ASSUME NEW T, T \subseteq Nat, T # {}
  PROVE  Lowermost(T) \in T /\ \A y \in T : Lowermost(T) <= y
  BY LeastNat DEF Lowermost

(* A function may be defined by a call of itself in last place, if a rank  *)
(* gets smaller with every call.                                           *)
Decreases(D, S, nxt, rank, N) ==
  /\ \A x \in D : rank[x] \in 0..N
  /\ \A x \in D \ S : nxt[x] \in D /\ rank[nxt[x]] < rank[x]

Solvable(D, S, base, nxt) ==
  \E g : g = [x \in D |-> IF x \in S THEN base[x] ELSE g[nxt[x]]]

(* Such a definition has a solution, so that CHOOSE finds one: what is     *)
(* proved about binary_search_fdes and the others rests on this.           *)
LEMMA TailRecursion ==
  ASSUME NEW D, NEW S, NEW base, NEW nxt, NEW rank, NEW N \in Nat,
         Decreases(D, S, nxt, rank, N)
  PROVE  Solvable(D, S, base, nxt)
<1> USE DEF Decreases
<1> DEFINE Low(n) == {x \in D : rank[x] < n}
           Defined(n) == \E g : g = [x \in Low(n) |-> IF x \in S THEN base[x] ELSE g[nxt[x]]]
           Bad == {n \in Nat : ~Defined(n)}
<1>1. Bad = {}
  <2> SUFFICES ASSUME Bad # {}
               PROVE  FALSE
    OBVIOUS
  <2>1. PICK n \in Bad : \A k \in Bad : n <= k
    <3>1. Bad \subseteq Nat
      OBVIOUS
    <3> HIDE DEF Bad
    <3> QED
      BY <3>1, LeastNat
  <2> HIDE DEF Defined
  <2>a. n \in Nat /\ ~Defined(n)
    BY <2>1
  <2>2. n # 0
    <3>1. Low(0) = {}
      OBVIOUS
    <3> DEFINE g == [x \in {} |-> IF x \in S THEN base[x] ELSE base[nxt[x]]]
    <3>2. g = [x \in Low(0) |-> IF x \in S THEN base[x] ELSE g[nxt[x]]]
      BY <3>1
    <3> HIDE DEF g
    <3>3. Defined(0)
      BY <3>2 DEF Defined
    <3> QED
      BY <2>a, <3>3
  <2>3. n - 1 \in Nat /\ n - 1 \notin Bad
    BY <2>a, <2>1, <2>2
  <2>4. PICK g : g = [x \in Low(n - 1) |-> IF x \in S THEN base[x] ELSE g[nxt[x]]]
    BY <2>3 DEF Defined
  <2> DEFINE h == [x \in Low(n) |-> IF x \in S THEN base[x] ELSE g[nxt[x]]]
  <2>5. \A x \in Low(n) \ S : nxt[x] \in Low(n - 1)
    BY <2>1
  <2>6. \A y \in Low(n - 1) : h[y] = g[y]
    <3>1. Low(n - 1) \subseteq Low(n)
      BY <2>1
    <3> QED
      BY <2>4, <3>1
  <2>7. h = [x \in Low(n) |-> IF x \in S THEN base[x] ELSE h[nxt[x]]]
    BY <2>5, <2>6
  <2> HIDE DEF h
  <2>8. Defined(n)
    BY <2>7 DEF Defined
  <2> QED
    BY <2>a, <2>8
<1>2. Low(N + 1) = D
  OBVIOUS
<1>3. Defined(N + 1)
  <2> HIDE DEF Defined
  <2> QED
    BY <1>1
<1> QED
  BY <1>2, <1>3 DEF Solvable

-----------------------------------------------------------------------------
(* The binary search.  FDEs that are searched are in ascending order, and  *)
(* no two of them overlap.                                                 *)
Fdes == [begin : 0..MaxPc, range : Nat \ {0}, omit : BOOLEAN]

Ascending(v) == \A i, j \in DOMAIN v : i < j => v[i].begin <= v[j].begin

Apart(x, y) == x = y \/ x.begin + x.range <= y.begin \/ y.begin + y.range <= x.begin

Searchable(v) ==
  /\ v \in Seq(Fdes)
  /\ Ascending(v)
  /\ \A i, j \in DOMAIN v : Apart(v[i], v[j])

Windows(v) == [lo : 0..Len(v), hi : 0..Len(v)]

Middle(w) == (w.lo + w.hi) \div 2

\* Where the search goes on from a window whose middle does not cover p.
Narrowed(v, p, w) ==
  IF p < v[Middle(w) + 1].begin THEN [w EXCEPT !.hi = Middle(w)]
  ELSE [w EXCEPT !.lo = Middle(w) + 1]

Ends(v, p) ==
  {w \in Windows(v) : w.lo >= w.hi \/ Covers(v[Middle(w) + 1], p)}

Width(w) == IF w.lo >= w.hi THEN 0 ELSE w.hi - w.lo

\* A window gets smaller with every step, and stays within the array.
LEMMA WindowsShrink ==
  ASSUME NEW v, v \in Seq(Fdes), NEW p \in Nat, NEW w \in Windows(v) \ Ends(v, p)
  PROVE  /\ Narrowed(v, p, w) \in Windows(v)
         /\ Width(Narrowed(v, p, w)) < Width(w)
         /\ Width(w) \in 0..Len(v)
         /\ Middle(w) \in w.lo..(w.hi - 1)
         /\ Middle(w) + 1 \in DOMAIN v
<1>1. /\ w.lo \in 0..Len(v) /\ w.hi \in 0..Len(v) /\ w.lo < w.hi
      /\ Len(v) \in Nat /\ DOMAIN v = 1..Len(v)
      /\ w = [lo |-> w.lo, hi |-> w.hi]
  BY DEF Windows, Ends
<1>2. Middle(w) \in w.lo..(w.hi - 1)
  BY <1>1 DEF Middle
<1>3. Middle(w) + 1 \in DOMAIN v
  BY <1>1, <1>2
<1> HIDE DEF Middle
<1>4. \/ Narrowed(v, p, w) = [lo |-> w.lo, hi |-> Middle(w)]
      \/ Narrowed(v, p, w) = [lo |-> Middle(w) + 1, hi |-> w.hi]
  BY <1>1 DEF Narrowed
<1> QED
  BY <1>1, <1>2, <1>3, <1>4 DEF Width, Windows


\* The recursion of binary_search_fdes has a solution.
LEMMA SearchDefined ==
  ASSUME NEW v, v \in Seq(Fdes), NEW p \in Nat
  PROVE  \E g : g = [w \in Windows(v) |->
                       IF w.lo >= w.hi THEN NoFde
                       ELSE IF Covers(v[Middle(w) + 1], p) THEN v[Middle(w) + 1]
                       ELSE g[Narrowed(v, p, w)]]
<1> DEFINE D == Windows(v)
           S == Ends(v, p)
           base == [w \in D |-> IF w.lo >= w.hi THEN NoFde ELSE v[Middle(w) + 1]]
           nxt == [w \in D |-> Narrowed(v, p, w)]
           rank == [w \in D |-> Width(w)]
<1>1. \A w \in D : rank[w] \in 0..Len(v)
  BY DEF Windows, Width
<1>2. \A w \in D \ S : nxt[w] \in D /\ rank[nxt[w]] < rank[w]
  BY WindowsShrink
<1>3. Len(v) \in Nat
  OBVIOUS
<1>4. \A w \in D : /\ w \in S => base[w] = IF w.lo >= w.hi THEN NoFde ELSE v[Middle(w) + 1]
                   /\ nxt[w] = Narrowed(v, p, w)
                   /\ w \in S <=> w.lo >= w.hi \/ Covers(v[Middle(w) + 1], p)
  BY DEF Ends
<1> HIDE DEF base, nxt, rank, D, S
<1>5. PICK g : g = [w \in D |-> IF w \in S THEN base[w] ELSE g[nxt[w]]]
  <2>1. Decreases(D, S, nxt, rank, Len(v))
    BY <1>1, <1>2 DEF Decreases
  <2>2. Solvable(D, S, base, nxt)
    BY <2>1, <1>3, TailRecursion
  <2> QED
    BY <2>2 DEF Solvable
<1>6. g = [w \in D |-> IF w.lo >= w.hi THEN NoFde
                       ELSE IF Covers(v[Middle(w) + 1], p) THEN v[Middle(w) + 1]
                       ELSE g[Narrowed(v, p, w)]]
  BY <1>4, <1>5
<1> QED
  BY <1>6 DEF D

\* binary_search_fdes is what that recursion computes.
LEMMA SearchRecursion ==
  ASSUME NEW v, v \in Seq(Fdes), NEW p \in Nat
  PROVE  \E g : /\ g = [w \in Windows(v) |->
                       IF w.lo >= w.hi THEN NoFde
                       ELSE IF Covers(v[Middle(w) + 1], p) THEN v[Middle(w) + 1]
                       ELSE g[Narrowed(v, p, w)]]
                /\ binary_search_fdes(v, p) = g[[lo |-> 0, hi |-> Len(v)]]
<1> DEFINE found[w \in [lo : 0..Len(v), hi : 0..Len(v)]] ==
        IF w.lo >= w.hi THEN NoFde
        ELSE LET i == (w.lo + w.hi) \div 2
             IN  IF p < v[i + 1].begin THEN found[[w EXCEPT !.hi = i]]
                 ELSE IF p >= v[i + 1].begin + v[i + 1].range
                      THEN found[[w EXCEPT !.lo = i + 1]]
                 ELSE v[i + 1]
<1>1. binary_search_fdes(v, p) = found[[lo |-> 0, hi |-> Len(v)]]
  BY DEF binary_search_fdes
<1>2. PICK g : g = [w \in Windows(v) |->
                       IF w.lo >= w.hi THEN NoFde
                       ELSE IF Covers(v[Middle(w) + 1], p) THEN v[Middle(w) + 1]
                       ELSE g[Narrowed(v, p, w)]]
  BY SearchDefined
<1> DEFINE Step(h) == [w \in Windows(v) |->
                       IF w.lo >= w.hi THEN NoFde
                       ELSE IF Covers(v[Middle(w) + 1], p) THEN v[Middle(w) + 1]
                       ELSE h[Narrowed(v, p, w)]]
           Body(h) == [w \in [lo : 0..Len(v), hi : 0..Len(v)] |->
                       IF w.lo >= w.hi THEN NoFde
                       ELSE LET i == (w.lo + w.hi) \div 2
                            IN  IF p < v[i + 1].begin THEN h[[w EXCEPT !.hi = i]]
                                ELSE IF p >= v[i + 1].begin + v[i + 1].range
                                     THEN h[[w EXCEPT !.lo = i + 1]]
                                ELSE v[i + 1]]
<1>3. \A h : Step(h) = Body(h)
  <2> TAKE h
  <2> SUFFICES ASSUME NEW w \in Windows(v)
               PROVE  Step(h)[w] = Body(h)[w]
    BY DEF Windows
  <2>1. CASE w.lo >= w.hi
    BY <2>1 DEF Windows
  <2>2. CASE ~(w.lo >= w.hi)
    <3> DEFINE i == Middle(w)
    <3>1. v[i + 1] \in Fdes
      BY <2>2 DEF Middle, Windows
    <3>2. v[i + 1].begin \in Nat /\ v[i + 1].range \in Nat
      BY <3>1, RegistryAssumption DEF Fdes
    <3>3. Step(h)[w] = IF Covers(v[i + 1], p) THEN v[i + 1] ELSE h[Narrowed(v, p, w)]
      BY <2>2
    <3>4. Body(h)[w] = IF p < v[i + 1].begin THEN h[[w EXCEPT !.hi = i]]
                       ELSE IF p >= v[i + 1].begin + v[i + 1].range
                            THEN h[[w EXCEPT !.lo = i + 1]]
                       ELSE v[i + 1]
      BY <2>2 DEF Windows, Middle
    <3> QED
      BY <3>2, <3>3, <3>4 DEF Covers, Narrowed
  <2> QED
    BY <2>1, <2>2
<1>4. found = CHOOSE h : h = Body(h)
  OBVIOUS
<1>5. g = Step(g)
  BY <1>2
<1> HIDE DEF found, Body, Step
<1>6. found = Body(found)
  BY <1>3, <1>4, <1>5
<1>7. found = Step(found)
  BY <1>3, <1>6
<1> QED
  BY <1>1, <1>7 DEF Step

\* What a search of the window w of v has to return.
RightFor(v, p, w, x) ==
  \/ x = NoFde /\ \A i \in (w.lo + 1)..w.hi : ~Covers(v[i], p)
  \/ \E i \in (w.lo + 1)..w.hi : x = v[i] /\ Covers(v[i], p)

\* A window in which an FDE covers p is narrowed to one in which it still is.
LEMMA NarrowedIsEnough ==
  ASSUME NEW v, Searchable(v), NEW p \in Nat, NEW w \in Windows(v) \ Ends(v, p),
         NEW x, RightFor(v, p, Narrowed(v, p, w), x)
  PROVE  RightFor(v, p, w, x)
<1> DEFINE i == Middle(w)
<1>1. /\ w.lo \in Nat /\ w.hi \in Nat /\ w.hi <= Len(v)
      /\ Len(v) \in Nat /\ DOMAIN v = 1..Len(v)
      /\ w = [lo |-> w.lo, hi |-> w.hi]
  BY DEF Windows, Searchable
<1>2. /\ i \in w.lo..(w.hi - 1) /\ i + 1 \in DOMAIN v
      /\ ~Covers(v[i + 1], p)
  BY WindowsShrink DEF Searchable, Ends
<1>3. \A k \in DOMAIN v : v[k].begin \in Nat /\ v[k].range \in Nat /\ v[k].range > 0
  <2> TAKE k \in DOMAIN v
  <2>1. v[k] \in Fdes
    BY DEF Searchable
  <2> QED
    BY <2>1, RegistryAssumption DEF Fdes
<1>4. ASSUME p < v[i + 1].begin
      PROVE  /\ Narrowed(v, p, w).lo = w.lo
             /\ Narrowed(v, p, w).hi = i
             /\ \A k \in (i + 1)..w.hi : ~Covers(v[k], p)
  <2>1. Narrowed(v, p, w) = [lo |-> w.lo, hi |-> i]
    BY <1>1, <1>4 DEF Narrowed
  <2>2. \A k \in (i + 1)..w.hi : v[i + 1].begin <= v[k].begin
    BY <1>1, <1>2, <1>3 DEF Searchable, Ascending
  <2>3. \A k \in (i + 1)..w.hi : k \in DOMAIN v
    BY <1>1, <1>2
  <2> QED
    BY <1>2, <1>3, <1>4, <2>1, <2>2, <2>3 DEF Covers
<1>5. ASSUME ~(p < v[i + 1].begin)
      PROVE  /\ Narrowed(v, p, w).lo = i + 1
             /\ Narrowed(v, p, w).hi = w.hi
             /\ \A k \in (w.lo + 1)..(i + 1) : ~Covers(v[k], p)
  <2>1. Narrowed(v, p, w) = [lo |-> i + 1, hi |-> w.hi]
    BY <1>1, <1>5 DEF Narrowed
  <2>2. ASSUME NEW k \in (w.lo + 1)..(i + 1)
        PROVE  ~Covers(v[k], p)
    <3>1. k \in DOMAIN v
      BY <1>1, <1>2
    <3>2. v[k].begin <= v[i + 1].begin
      BY <1>1, <1>2, <1>3, <3>1 DEF Searchable, Ascending
    <3>3. Apart(v[k], v[i + 1])
      BY <1>2, <3>1 DEF Searchable
    <3>4. p >= v[i + 1].begin + v[i + 1].range
      BY <1>2, <1>3, <1>5 DEF Covers
    <3> QED
      BY <1>2, <1>3, <3>1, <3>2, <3>3, <3>4 DEF Apart, Covers
  <2> QED
    BY <2>1, <2>2
<1> HIDE DEF i
<1> QED
  BY <1>1, <1>2, <1>4, <1>5 DEF RightFor

(* The binary search of an ascending array finds the FDE that covers p, if *)
(* there is one.                                                           *)
LEMMA BinarySearchRight ==
  ASSUME NEW v, Searchable(v), NEW p \in Nat
  PROVE  LET x == binary_search_fdes(v, p)
         IN  \/ x = NoFde /\ \A i \in DOMAIN v : ~Covers(v[i], p)
             \/ \E i \in DOMAIN v : x = v[i] /\ Covers(v[i], p)
<1>1. v \in Seq(Fdes) /\ Len(v) \in Nat /\ DOMAIN v = 1..Len(v)
  BY DEF Searchable
<1>2. PICK g : /\ g = [w \in Windows(v) |->
                         IF w.lo >= w.hi THEN NoFde
                         ELSE IF Covers(v[Middle(w) + 1], p) THEN v[Middle(w) + 1]
                         ELSE g[Narrowed(v, p, w)]]
               /\ binary_search_fdes(v, p) = g[[lo |-> 0, hi |-> Len(v)]]
  BY <1>1, SearchRecursion
<1> DEFINE Wrong == {w \in Windows(v) : ~RightFor(v, p, w, g[w])}
           Sizes == {Width(w) : w \in Wrong}
<1>3. Wrong = {}
  <2> SUFFICES ASSUME Wrong # {}
               PROVE  FALSE
    OBVIOUS
  <2>1. Sizes \subseteq Nat /\ Sizes # {}
    BY <1>1 DEF Width, Windows
  <2>2. PICK n \in Sizes : \A k \in Sizes : n <= k
    <3> HIDE DEF Sizes
    <3> QED
      BY <2>1, LeastNat
  <2>3. PICK w \in Wrong : n = Width(w)
    BY <2>2
  <2>4. CASE w.lo >= w.hi
    <3>1. g[w] = NoFde
      BY <1>2, <2>3, <2>4
    <3>2. \A i \in (w.lo + 1)..w.hi : FALSE
      BY <1>1, <2>3, <2>4 DEF Windows
    <3> QED
      BY <2>3, <3>1, <3>2 DEF RightFor
  <2>5. CASE ~(w.lo >= w.hi) /\ Covers(v[Middle(w) + 1], p)
    <3>1. g[w] = v[Middle(w) + 1]
      BY <1>2, <2>3, <2>5
    <3>2. Middle(w) + 1 \in (w.lo + 1)..w.hi
      BY <1>1, <2>3, <2>5 DEF Windows, Middle
    <3> QED
      BY <2>3, <2>5, <3>1, <3>2 DEF RightFor
  <2>6. CASE ~(w.lo >= w.hi) /\ ~Covers(v[Middle(w) + 1], p)
    <3>1. w \in Windows(v) \ Ends(v, p)
      BY <2>3, <2>6 DEF Ends
    <3>2. /\ Narrowed(v, p, w) \in Windows(v)
          /\ Width(Narrowed(v, p, w)) < Width(w)
      BY <1>1, <3>1, WindowsShrink
    <3>3. g[w] = g[Narrowed(v, p, w)]
      BY <1>2, <2>3, <2>6
    <3>4. Narrowed(v, p, w) \notin Wrong
      <4> SUFFICES ASSUME Narrowed(v, p, w) \in Wrong
                   PROVE  FALSE
        OBVIOUS
      <4>1. Width(Narrowed(v, p, w)) \in Sizes
        OBVIOUS
      <4>2. Width(w) \in Nat /\ Width(Narrowed(v, p, w)) \in Nat
        BY <2>1, <2>2, <2>3, <4>1
      <4> QED
        BY <2>2, <2>3, <3>2, <4>1, <4>2
    <3>5. RightFor(v, p, w, g[w])
      BY <3>1, <3>2, <3>3, <3>4, NarrowedIsEnough
    <3> QED
      BY <2>3, <3>5
  <2> QED
    BY <2>4, <2>5, <2>6
<1> DEFINE all == [lo |-> 0, hi |-> Len(v)]
<1>4. RightFor(v, p, all, g[all])
  BY <1>1, <1>3 DEF Windows
<1> QED
  BY <1>1, <1>2, <1>4 DEF RightFor

-----------------------------------------------------------------------------
(* The invariant.  First what the lists and the objects look like.         *)
Distinct(s) == \A i, j \in DOMAIN s : s[i] = s[j] => i = j

\* The lowest address of what a search can find in a table.
Bottom(tab) == Lowest(tab, TopAddress)

\* The FDEs of tab that cover p.
Hits(tab, p) == {i \in Present(tab) : Covers(tab[i], p)}

\* What may be counted.
Counts ==
  {0} \cup {CountOf(Len(Collected(tab))) :
              tab \in {<<>>} \cup UNION {Elements(layout) : layout \in Layouts}}

ObjectType ==
  [live : {0, 1}, pc_begin : 0..TopAddress, count : Counts,
   sorted : {0, 1}, single : Modules \cup {NoModule},
   orig_data : Modules \cup {NoModule}, array : Seq(Fdes)]

\* The object o of m as it is registered.
Fresh(o, m) ==
  o.live = 1 /\ o.pc_begin = TopAddress /\ o.count = 0 /\ o.sorted = 0 /\ o.single = m

\* The object o of m after a search: rejected, classified, or classified and sorted.
Searched(o, m, tab) ==
  /\ o.live = 1 /\ o.pc_begin = Bottom(tab)
  /\ \/ Unhandled(tab) /\ o.sorted = 0 /\ o.single = NoModule
     \/ ~Unhandled(tab) /\ o.sorted = 0 /\ o.single = m
     \/ /\ ~Unhandled(tab) /\ o.sorted = 1 /\ o.orig_data = m
        /\ \E both \in BOOLEAN : o.array = Sorted[tab][both]

Registering == {"regLock", "regLink", "regUnlock"}
Running == {"ctors", "dtors"}
Leaving == {"deregLock", "deregSearch", "free", "abort"}
Finding == {"findLock", "seen", "unseen", "search", "fini", "bases"}
Places == {"idle"} \cup Registering \cup Running \cup Leaving \cup Finding
Holding == {"regLink", "regUnlock", "deregSearch", "seen", "unseen", "search", "fini"}

TypeInv ==
  /\ RegistryTypeOK
  /\ at \in [Threads -> Places]
  /\ ob \in [Modules -> ObjectType]
  /\ DOMAIN f = Threads

\* The mutex belongs to the thread that is between a lock and an unlock.
HolderInv == \A t \in Threads : mutex = t <=> at[t] \in Holding

\* A thread works on one module or searches, and nobody else works on that module.
WorkInv ==
  /\ \A t \in Threads :
       /\ at[t] \in {"idle"} \cup Finding <=> mod[t] = NoModule
       /\ at[t] \in Finding <=> pc[t] # 0
       /\ at[t] \in Registering => phase[mod[t]] = "coming"
       /\ at[t] \in Running => phase[mod[t]] = "in"
       /\ at[t] \in Leaving => phase[mod[t]] = "leaving" /\ table[mod[t]] # <<>>
  /\ \A t, u \in Threads : mod[t] = mod[u] /\ mod[t] # NoModule => t = u

\* An object is on one list at most, and once; seen is in descending order.
ListInv ==
  /\ Distinct(unseen) /\ Distinct(seen)
  /\ Elements(unseen) \cap Elements(seen) = {}
  /\ \A t \in Threads : at[t] = "search" =>
       cur[t] \in Modules /\ cur[t] \notin Elements(unseen) \cup Elements(seen)
  /\ \A i, j \in DOMAIN seen : i < j => Bottom(table[seen[i]]) >= Bottom(table[seen[j]])

ObjectInv ==
  /\ \A m \in Elements(unseen) : Fresh(ob[m], m)
  /\ \A m \in Elements(seen) : Searched(ob[m], m, table[m])
  /\ \A t \in Threads : /\ at[t] = "search" => Fresh(ob[cur[t]], cur[t])
                        /\ at[t] \in Registering => Fresh(ob[mod[t]], mod[t])

\* Which modules are linked.
LinkInv ==
  /\ \A m \in Modules : table[m] # <<>> =>
       /\ phase[m] = "in" => m \in Linked
       /\ phase[m] = "out" => m \notin Linked
  /\ \A t \in Threads :
       /\ at[t] \in {"regUnlock", "deregLock", "deregSearch"} => mod[t] \in Linked
       /\ at[t] \in {"regLock", "regLink", "free"} => mod[t] \notin Linked
       /\ at[t] = "abort" => Unhandled(table[mod[t]])

\* No thread runs in a module that is not in.
PcInv == \A t \in Threads, m \in Modules : pc[t] # 0 /\ InModule(m, pc[t]) => phase[m] = "in"

\* What a search at place l for p has found so far, if S is on the list seen.
SearchOK(l, p, c, x, tabs, S) ==
  /\ l \notin {"fini", "bases"} => x = NoFde
  /\ l = "bases" => x # NoFde
  /\ x # NoFde => /\ c \in Modules /\ Spans(tabs[c], p) /\ ~Unhandled(tabs[c])
                  /\ \E i \in Hits(tabs[c], p) : x = tabs[c][i]
  /\ l \in {"unseen", "search"} =>
       \A m \in S : Unhandled(tabs[m]) \/ Hits(tabs[m], p) = {}

SearchInv ==
  \A t \in Threads : SearchOK(at[t], pc[t], cur[t], f[t], table, Elements(seen))

RegistryInv ==
  /\ TypeInv /\ HolderInv /\ WorkInv /\ ListInv /\ ObjectInv /\ LinkInv
  /\ PcInv /\ SearchInv

-----------------------------------------------------------------------------
(* What the tables, the objects and the searches of objects are like.      *)
LEMMA TableFacts ==
  ASSUME table \in Layouts, NEW m \in Modules
  PROVE  /\ table[m] \in Seq(Fdes)
         /\ \A i \in DOMAIN table[m] : /\ table[m][i] \in Fdes
                                       /\ table[m][i].begin \in 0..MaxPc
                                       /\ table[m][i].range \in Nat \ {0}
                                       /\ table[m][i].omit \in BOOLEAN
         /\ Reached(table[m]) \subseteq Present(table[m])
         /\ ~Unhandled(table[m]) => Reached(table[m]) = Present(table[m])
<1>1. table[m] \in Seq(Fdes)
  BY LayoutAssumption DEF Fdes
<1>2. \A i \in DOMAIN table[m] : table[m][i] \in Fdes
  BY <1>1
<1>3. DOMAIN table[m] = 1..Len(table[m]) /\ Len(table[m]) \in Nat
  BY <1>1
<1>4. Reached(table[m]) \subseteq Present(table[m])
  BY DEF Reached, Present
<1>5. ~Unhandled(table[m]) => Reached(table[m]) = Present(table[m])
  <2> SUFFICES ASSUME ~Unhandled(table[m])
               PROVE  Reached(table[m]) = Present(table[m])
    OBVIOUS
  <2>1. \A i \in DOMAIN table[m] : \A j \in 1..i : ~table[m][j].omit
    BY <1>3 DEF Unhandled
  <2> QED
    BY <2>1 DEF Reached, Present
<1>6. \A i \in DOMAIN table[m] : /\ table[m][i].begin \in 0..MaxPc
                                 /\ table[m][i].range \in Nat \ {0}
                                 /\ table[m][i].omit \in BOOLEAN
  BY <1>2 DEF Fdes
<1> QED
  BY <1>1, <1>2, <1>4, <1>5, <1>6

(* What classify_object_over_fdes leaves in pc_begin: no FDE of the module *)
(* lies below it, and unless the module has none, one of them begins       *)
(* there.                                                                  *)
LEMMA LowFacts ==
  ASSUME table \in Layouts, NEW m \in Modules
  PROVE  /\ Bottom(table[m]) \in 1..TopAddress
         /\ ~Unhandled(table[m]) => \A i \in Present(table[m]) : Bottom(table[m]) <= table[m][i].begin
         /\ Bottom(table[m]) # TopAddress => \E i \in Present(table[m]) : Bottom(table[m]) = table[m][i].begin
         /\ Lowest(table[m], Bottom(table[m])) = Bottom(table[m])
<1> DEFINE B == {table[m][i].begin : i \in Reached(table[m])}
<1>0. MaxPc \in Nat /\ TopAddress = MaxPc + 1 /\ TopAddress \in Nat
  BY RegistryAssumption DEF TopAddress
<1>1. \A b \in B : b \in 1..MaxPc /\ \E i \in Present(table[m]) : b = table[m][i].begin
  BY TableFacts, <1>0 DEF Present
<1>2. \A i \in Present(table[m]) : ~Unhandled(table[m]) => table[m][i].begin \in B
  BY TableFacts
<1>3. \A x \in Nat : Lowest(table[m], x) = Lowermost({x} \cup B)
  BY DEF Lowest
<1> HIDE DEF B
<1>4. \A x \in Nat : /\ Lowest(table[m], x) \in {x} \cup B
                     /\ \A y \in {x} \cup B : Lowest(table[m], x) <= y
  <2> TAKE x \in Nat
  <2>1. {x} \cup B \subseteq Nat /\ {x} \cup B # {}
    BY <1>1
  <2> QED
    BY <2>1, <1>3, LowermostIsLeast
<1>5. /\ Bottom(table[m]) \in {TopAddress} \cup B
      /\ \A y \in {TopAddress} \cup B : Bottom(table[m]) <= y
      /\ Bottom(table[m]) \in Nat
  BY <1>0, <1>1, <1>4 DEF Bottom
<1>6. /\ Lowest(table[m], Bottom(table[m])) \in {Bottom(table[m])} \cup B
      /\ \A y \in {Bottom(table[m])} \cup B : Lowest(table[m], Bottom(table[m])) <= y
  BY <1>4, <1>5
<1> QED
  BY <1>0, <1>1, <1>2, <1>5, <1>6

\* Two modules with code at one place are the same.
LEMMA ModulesApart ==
  ASSUME table \in Layouts, NEW m \in Modules, NEW n \in Modules, NEW p \in 1..MaxPc,
         Spans(table[m], p), Spans(table[n], p)
  PROVE  m = n
  BY LayoutAssumption

(* An FDE that covers p belongs to a module with code at p, and is not the *)
(* result for nothing found.                                               *)
LEMMA HitFacts ==
  ASSUME table \in Layouts, NEW m \in Modules, NEW p \in 1..MaxPc, NEW i \in Hits(table[m], p)
  PROVE  /\ InModule(m, p) /\ table[m] # <<>>
         /\ table[m][i] # NoFde
         /\ i \in DOMAIN table[m] /\ table[m][i].begin # 0
         /\ ~Unhandled(table[m]) => Bottom(table[m]) <= p
<1>1. i \in Present(table[m]) /\ Covers(table[m][i], p)
  BY DEF Hits
<1>2. i \in DOMAIN table[m] /\ table[m][i].begin # 0 /\ table[m][i].begin \in Nat
  BY <1>1, TableFacts, RegistryAssumption DEF Present
<1>3. InModule(m, p)
  BY <1>1 DEF InModule, Spans, Covers
<1>4. table[m][i] # NoFde
  BY <1>2 DEF NoFde
<1>5. table[m] # <<>>
  BY <1>2
<1>6. ~Unhandled(table[m]) => Bottom(table[m]) <= p
  <2>1. ~Unhandled(table[m]) => Bottom(table[m]) <= table[m][i].begin
    BY <1>1, LowFacts
  <2> QED
    BY <1>1, <1>2, <2>1, LowFacts, RegistryAssumption DEF Covers, TopAddress
<1> QED
  BY <1>2, <1>3, <1>4, <1>5, <1>6

-----------------------------------------------------------------------------
(* The sort: fde_split, frame_heapsort and fde_merge, for arrays of any    *)
(* length.                                                                 *)

\* Largest takes the greatest element of a bounded set of numbers.
LEMMA LargestIsMost ==
  ASSUME NEW n \in Nat, NEW T, T \subseteq 0..n, T # {}
  PROVE  Largest(T) \in T /\ \A y \in T : y <= Largest(T)
<1> DEFINE R == {n - k : k \in T}
<1>1. R \subseteq Nat /\ R # {}
  <2>1. \A k \in T : n - k \in Nat
    OBVIOUS
  <2>2. PICK k : k \in T
    OBVIOUS
  <2>3. n - k \in R
    BY <2>2
  <2> QED
    BY <2>1, <2>3
<1>2. PICK x \in R : \A y \in R : x <= y
  <2> HIDE DEF R
  <2> QED
    BY <1>1, LeastNat
<1>3. PICK k \in T : x = n - k
  BY <1>2
<1>4. \A j \in T : n - k <= n - j
  BY <1>2, <1>3
<1>5. \A j \in T : j <= k
  BY <1>4
<1> QED
  BY <1>5 DEF Largest

\* Induction up to n, over a set.
LEMMA UpTo ==
  ASSUME NEW n \in Nat, NEW P, 0 \in P, \A i \in 1..n : i - 1 \in P => i \in P
  PROVE  \A i \in 0..n : i \in P
<1> DEFINE T == (0..n) \ P
<1> SUFFICES ASSUME T # {}
             PROVE  FALSE
  OBVIOUS
<1>1. T \subseteq Nat
  OBVIOUS
<1>2. PICK x \in T : \A y \in T : x <= y
  <2> HIDE DEF T
  <2> QED
    BY <1>1, LeastNat
<1>3. x \in 1..n /\ x - 1 \in 0..n /\ x - 1 \notin T
  BY <1>2
<1> QED
  BY <1>2, <1>3

\* g is what comes of a, step by step.
Runs(g, n, a, step) == g = [i \in 0..n |-> IF i = 0 THEN a ELSE step[i][g[i - 1]]]

(* A function may be defined from its value before, if each step leads     *)
(* from the states that may be there to those that may be there next.      *)
LEMMA Iteration ==
  ASSUME NEW n \in Nat, NEW a, NEW Good, NEW step,
         a \in Good[0],
         \A i \in 1..n : \A x \in Good[i - 1] : step[i][x] \in Good[i]
  PROVE  \E g : Runs(g, n, a, step) /\ \A i \in 0..n : g[i] \in Good[i]
<1> DEFINE Start(k) == \E g : /\ g = [i \in 0..k |-> IF i = 0 THEN a ELSE step[i][g[i - 1]]]
                              /\ \A i \in 0..k : g[i] \in Good[i]
           P == {k \in 0..n : Start(k)}
<1>1. 0 \in P
  <2> DEFINE g == [i \in 0..0 |-> a]
  <2>1. g = [i \in 0..0 |-> IF i = 0 THEN a ELSE step[i][g[i - 1]]] /\ \A i \in 0..0 : g[i] \in Good[i]
    OBVIOUS
  <2> HIDE DEF g
  <2> QED
    BY <2>1
<1>2. ASSUME NEW k \in 1..n, k - 1 \in P
      PROVE  k \in P
  <2>1. PICK g : /\ g = [i \in 0..(k - 1) |-> IF i = 0 THEN a ELSE step[i][g[i - 1]]]
                 /\ \A i \in 0..(k - 1) : g[i] \in Good[i]
    BY <1>2
  <2> DEFINE h == [i \in 0..k |-> IF i = 0 THEN a ELSE step[i][g[i - 1]]]
  <2>2. \A i \in 0..(k - 1) : h[i] = g[i]
    BY <2>1
  <2>3. h = [i \in 0..k |-> IF i = 0 THEN a ELSE step[i][h[i - 1]]]
    <3>1. \A i \in 0..k : i # 0 => h[i - 1] = g[i - 1]
      <4> HIDE DEF h
      <4>1. \A i \in 0..k : i # 0 => i - 1 \in 0..(k - 1)
        BY <1>2
      <4> QED
        BY <2>2, <4>1
    <3> QED
      BY <3>1
  <2>4. \A i \in 0..k : h[i] \in Good[i]
    BY <2>1, <2>2
  <2> HIDE DEF h
  <2>5. Start(k)
    BY <2>3, <2>4
  <2> QED
    BY <2>5
<1>3. \A k \in 0..n : k \in P
  <2> HIDE DEF P
  <2> QED
    BY <1>1, <1>2, UpTo
<1>4. n \in P /\ Start(n)
  <2>1. n \in P
    <3> HIDE DEF P
    <3> QED
      BY <1>3
  <2> QED
    BY <2>1
<1> QED
  BY <1>4 DEF Runs

\* What a longer sequence has.
LEMMA AppendedElements ==
  ASSUME NEW S, NEW s \in Seq(S), NEW x \in S
  PROVE  Append(s, x) \in Seq(S) /\ Elements(Append(s, x)) = Elements(s) \cup {x}
<1> DEFINE a == Append(s, x)
<1>1. a \in Seq(S) /\ Len(s) \in Nat
  OBVIOUS
<1>2. DOMAIN a = 1..(Len(s) + 1) /\ DOMAIN s = 1..Len(s)
  OBVIOUS
<1>3. a[Len(s) + 1] = x /\ \A i \in 1..Len(s) : a[i] = s[i]
  OBVIOUS
<1> HIDE DEF a
<1>4. ASSUME NEW y \in Elements(a)
      PROVE  y \in Elements(s) \cup {x}
  <2>1. PICK i \in 1..(Len(s) + 1) : y = a[i]
    BY <1>2, <1>4 DEF Elements
  <2>2. i = Len(s) + 1 \/ i \in 1..Len(s)
    BY <1>1
  <2> QED
    BY <1>2, <1>3, <2>1, <2>2 DEF Elements
<1>5. x \in Elements(a)
  <2>1. Len(s) + 1 \in DOMAIN a
    BY <1>1, <1>2
  <2> QED
    BY <1>3, <2>1 DEF Elements
<1>6. ASSUME NEW y \in Elements(s)
      PROVE  y \in Elements(a)
  <2>1. PICK i \in 1..Len(s) : y = s[i]
    BY <1>2, <1>6 DEF Elements
  <2>2. i \in DOMAIN a /\ a[i] = y
    BY <1>1, <1>2, <1>3, <2>1
  <2> QED
    BY <2>2 DEF Elements
<1>7. Elements(a) = Elements(s) \cup {x}
  BY <1>4, <1>5, <1>6
<1> QED
  BY <1>1, <1>7 DEF a

\* TakenAt takes what is at the places in P, and nothing else.
LEMMA TakenRight ==
  ASSUME NEW S, NEW v \in Seq(S), NEW P
  PROVE  /\ TakenAt(v, P) \in Seq(S)
         /\ Elements(TakenAt(v, P)) = {v[i] : i \in P \cap DOMAIN v}
<1> DEFINE n == Len(v)
           Done(i) == {v[j] : j \in P \cap (1..i)}
           Good == [i \in 0..n |-> {s \in Seq(S) : Elements(s) = Done(i)}]
           Op(i, s) == IF i \in P THEN Append(s, v[i]) ELSE s
           step == [i \in 1..n |-> [s \in Good[i - 1] |-> Op(i, s)]]
           F(g) == [i \in 0..n |-> IF i = 0 THEN <<>> ELSE IF i \in P THEN Append(g[i - 1], v[i]) ELSE g[i - 1]]
           taken == CHOOSE g : g = F(g)
<1>1. n \in Nat /\ DOMAIN v = 1..n /\ \A i \in 1..n : v[i] \in S
  OBVIOUS
<1>2. <<>> \in Good[0]
  BY <1>1 DEF Elements
<1>3. ASSUME NEW i \in 1..n, NEW s \in Good[i - 1]
      PROVE  Op(i, s) \in Good[i]
  <2>1. i - 1 \in 0..n /\ i \in 0..n
    BY <1>1
  <2>2. s \in Seq(S) /\ Elements(s) = Done(i - 1)
    BY <1>3, <2>1
  <2>3. CASE i \in P
    <3>1. Append(s, v[i]) \in Seq(S) /\ Elements(Append(s, v[i])) = Elements(s) \cup {v[i]}
      BY <1>1, <2>2, AppendedElements
    <3>2. Done(i) = Done(i - 1) \cup {v[i]}
      BY <1>1, <2>3
    <3> QED
      BY <2>1, <2>2, <2>3, <3>1, <3>2
  <2>4. CASE i \notin P
    <3>1. Done(i) = Done(i - 1)
      BY <1>1, <2>4
    <3> QED
      BY <2>1, <2>2, <2>4, <3>1
  <2> QED
    BY <2>3, <2>4
<1>4. taken = F(taken)
  <2>1. \A i \in 1..n : \A s \in Good[i - 1] : step[i][s] = Op(i, s)
    OBVIOUS
  <2> HIDE DEF step, Good, Op
  <2>2. PICK g : Runs(g, n, <<>>, step) /\ \A i \in 0..n : g[i] \in Good[i]
    <3>1. \A i \in 1..n : \A s \in Good[i - 1] : step[i][s] \in Good[i]
      BY <1>3, <2>1
    <3> HIDE DEF n
    <3> QED
      BY <1>1, <1>2, <3>1, Iteration
  <2>3. \A i \in 1..n : step[i][g[i - 1]] = Op(i, g[i - 1])
    BY <1>1, <2>1, <2>2
  <2>4. g = F(g)
    <3>1. \A i \in 0..n : i # 0 => step[i][g[i - 1]] = Op(i, g[i - 1])
      BY <1>1, <2>3
    <3>2. g = [i \in 0..n |-> IF i = 0 THEN <<>> ELSE Op(i, g[i - 1])]
      BY <2>2, <3>1 DEF Runs
    <3> QED
      BY <3>2 DEF Op
  <2> HIDE DEF F
  <2> QED
    BY <2>4
<1>5. \A i \in 0..n : taken[i] \in Good[i]
  <2> DEFINE Q == {i \in 0..n : taken[i] \in Good[i]}
  <2> HIDE DEF taken, Good
  <2>1. 0 \in Q
    BY <1>1, <1>2, <1>4
  <2>2. \A i \in 1..n : i - 1 \in Q => i \in Q
    <3> SUFFICES ASSUME NEW i \in 1..n, i - 1 \in Q
                 PROVE  i \in Q
      OBVIOUS
    <3>1. i \in 0..n /\ i # 0 /\ taken[i - 1] \in Good[i - 1]
      BY <1>1
    <3>2. taken[i] = Op(i, taken[i - 1])
      BY <1>4, <3>1
    <3>3. taken[i] \in Good[i]
      BY <1>3, <3>1, <3>2
    <3> QED
      BY <3>1, <3>3
  <2> HIDE DEF Q
  <2>3. \A i \in 0..n : i \in Q
    BY <1>1, <2>1, <2>2, UpTo
  <2> QED
    BY <2>3 DEF Q
<1>6. TakenAt(v, P) = taken[n]
  BY DEF TakenAt
<1>7. taken[n] \in Good[n]
  BY <1>1, <1>5
<1> HIDE DEF taken
<1>8. Done(n) = {v[i] : i \in P \cap DOMAIN v}
  BY <1>1
<1> QED
  BY <1>1, <1>6, <1>7, <1>8

\* What is sorted can be compared.
Keyed(S) == \A x \in S : x.begin \in Int

\* FirstNotAbove finds the last place of v[1..n] that is not above x.
LEMMA FirstNotAboveRight ==
  ASSUME NEW n \in Nat, NEW v, NEW x
  PROVE  LET k == FirstNotAbove(v, n, x)
         IN  /\ k \in 0..n
             /\ k # 0 => ~FdeLess(x, v[k])
             /\ \A j \in (k + 1)..n : FdeLess(x, v[j])
<1> DEFINE T == {0} \cup {k \in 1..n : ~FdeLess(x, v[k])}
           k == FirstNotAbove(v, n, x)
<1>1. T \subseteq 0..n /\ T # {}
  OBVIOUS
<1>2. k \in T /\ \A y \in T : y <= k
  <2>1. k = Largest(T)
    BY DEF FirstNotAbove
  <2> HIDE DEF T, k
  <2> QED
    BY <1>1, <2>1, LargestIsMost
<1>3. \A j \in (k + 1)..n : j \in 1..n /\ j \notin T
  <2>1. k \in Nat
    BY <1>1, <1>2
  <2> HIDE DEF k, T
  <2> QED
    BY <1>2, <2>1
<1> HIDE DEF k
<1> QED
  BY <1>1, <1>2, <1>3 DEF k

\* Two ascending sequences, the first not above the second, make one.
LEMMA JoinRight ==
  ASSUME NEW S, NEW s \in Seq(S), NEW t \in Seq(S)
  PROVE  /\ s \o t \in Seq(S)
         /\ Elements(s \o t) = Elements(s) \cup Elements(t)
         /\ /\ Ascending(s) /\ Ascending(t) /\ Keyed(S)
            /\ \A x \in Elements(s), y \in Elements(t) : x.begin <= y.begin
            => Ascending(s \o t)
<1>1. /\ s \o t \in Seq(S) /\ Len(s \o t) = Len(s) + Len(t)
      /\ Len(s) \in Nat /\ Len(t) \in Nat
      /\ \A i \in 1..(Len(s) + Len(t)) : (s \o t)[i] = IF i <= Len(s) THEN s[i] ELSE t[i - Len(s)]
  BY ConcatProperties
<1> DEFINE w == s \o t
<1>2. \A i \in 1..Len(s) : i \in DOMAIN w /\ w[i] = s[i]
  BY <1>1
<1>3. \A i \in 1..Len(t) : Len(s) + i \in DOMAIN w /\ w[Len(s) + i] = t[i]
  BY <1>1
<1>4. \A i \in DOMAIN w : \/ i \in DOMAIN s /\ w[i] = s[i]
                          \/ i > Len(s) /\ i - Len(s) \in DOMAIN t /\ w[i] = t[i - Len(s)]
  BY <1>1
<1> HIDE DEF w
<1>5. Elements(w) = Elements(s) \cup Elements(t)
  <2>1. \A x \in Elements(w) : x \in Elements(s) \cup Elements(t)
    BY <1>4 DEF Elements
  <2>2. \A x \in Elements(s) \cup Elements(t) : x \in Elements(w)
    BY <1>2, <1>3 DEF Elements
  <2> QED
    BY <2>1, <2>2
<1>6. ASSUME Ascending(s), Ascending(t), Keyed(S),
             \A x \in Elements(s), y \in Elements(t) : x.begin <= y.begin
      PROVE  Ascending(w)
  <2> SUFFICES ASSUME NEW i \in DOMAIN w, NEW j \in DOMAIN w, i < j
               PROVE  w[i].begin <= w[j].begin
    BY DEF Ascending
  <2>0. i \in Nat /\ j \in Nat
    BY <1>1 DEF w
  <2>1. CASE j \in DOMAIN s /\ w[j] = s[j]
    <3>1. i \in DOMAIN s /\ w[i] = s[i]
      BY <1>1, <1>4, <2>0, <2>1
    <3> QED
      BY <1>6, <2>1, <3>1 DEF Ascending
  <2>2. CASE j - Len(s) \in DOMAIN t /\ w[j] = t[j - Len(s)] /\ i \in DOMAIN s /\ w[i] = s[i]
    BY <1>6, <2>2 DEF Elements
  <2>3. CASE /\ j - Len(s) \in DOMAIN t /\ w[j] = t[j - Len(s)]
             /\ i - Len(s) \in DOMAIN t /\ w[i] = t[i - Len(s)]
    <3>1. i - Len(s) < j - Len(s)
      BY <1>1, <2>0
    <3> QED
      BY <1>6, <2>3, <3>1 DEF Ascending
  <2> QED
    BY <1>4, <2>1, <2>2, <2>3
<1> QED
  BY <1>1, <1>5, <1>6 DEF w

\* A piece of an ascending sequence is one.
LEMMA PieceRight ==
  ASSUME NEW S, NEW s \in Seq(S), NEW m \in 1..(Len(s) + 1), NEW n \in (m - 1)..Len(s)
  PROVE  /\ SubSeq(s, m, n) \in Seq(S)
         /\ Elements(SubSeq(s, m, n)) = {s[j] : j \in m..n}
         /\ Ascending(s) => Ascending(SubSeq(s, m, n))
<1> DEFINE w == SubSeq(s, m, n)
<1>1. /\ Len(s) \in Nat /\ DOMAIN s = 1..Len(s)
      /\ w \in Seq(S) /\ Len(w) = n - m + 1 /\ DOMAIN w = 1..(n - m + 1)
      /\ \A i \in 1..(n - m + 1) : w[i] = s[m + i - 1]
  BY SubSeqProperties
<1> HIDE DEF w
<1>2. Elements(w) = {s[j] : j \in m..n}
  <2>1. \A i \in DOMAIN w : m + i - 1 \in m..n
    BY <1>1
  <2>2. \A j \in m..n : j - m + 1 \in DOMAIN w /\ w[j - m + 1] = s[j]
    BY <1>1
  <2>3. \A x \in Elements(w) : x \in {s[j] : j \in m..n}
    BY <1>1, <2>1 DEF Elements
  <2>4. \A x \in {s[j] : j \in m..n} : x \in Elements(w)
    BY <2>2 DEF Elements
  <2> QED
    BY <2>3, <2>4
<1>3. Ascending(s) => Ascending(w)
  <2> SUFFICES ASSUME Ascending(s), NEW i \in DOMAIN w, NEW j \in DOMAIN w, i < j
               PROVE  w[i].begin <= w[j].begin
    BY DEF Ascending
  <2>1. /\ m + i - 1 \in DOMAIN s /\ m + j - 1 \in DOMAIN s /\ m + i - 1 < m + j - 1
        /\ w[i] = s[m + i - 1] /\ w[j] = s[m + j - 1]
    BY <1>1
  <2> QED
    BY <2>1 DEF Ascending
<1> QED
  BY <1>1, <1>2, <1>3 DEF w

\* Values of v at the places in c do not fall.
Rising(v, c) == \A k, l \in DOMAIN c : k < l => v[c[k]].begin <= v[c[l]].begin

\* One step of fde_split.
Chained(v, i, c) ==
  Append(SubSeq(c, 1, FirstNotAbove([k \in DOMAIN c |-> v[c[k]]], Len(c), v[i])), i)

\* A step of fde_split keeps the chain in order.
LEMMA ChainStep ==
  ASSUME NEW S, Keyed(S), NEW v \in Seq(S), NEW i \in DOMAIN v,
         NEW c \in Seq(DOMAIN v), Rising(v, c)
  PROVE  Chained(v, i, c) \in Seq(DOMAIN v) /\ Rising(v, Chained(v, i, c))
<1> DEFINE w == [k \in DOMAIN c |-> v[c[k]]]
           K == FirstNotAbove(w, Len(c), v[i])
           d == SubSeq(c, 1, K)
           e == Append(d, i)
<1>1. /\ Len(c) \in Nat /\ DOMAIN c = 1..Len(c) /\ \A k \in DOMAIN c : c[k] \in DOMAIN v
      /\ \A j \in DOMAIN v : v[j].begin \in Int
  BY DEF Keyed
<1>2. K \in 0..Len(c) /\ (K # 0 => ~FdeLess(v[i], w[K]))
  BY <1>1, FirstNotAboveRight
<1>3. K # 0 => v[c[K]].begin <= v[i].begin
  BY <1>1, <1>2 DEF FdeLess
<1> HIDE DEF K
<1>4. d \in Seq(DOMAIN v) /\ Len(d) = K /\ DOMAIN d = 1..K /\ \A k \in 1..K : d[k] = c[k]
  BY <1>1, <1>2, SubSeqProperties
<1> HIDE DEF d
<1>5. /\ e \in Seq(DOMAIN v) /\ DOMAIN e = 1..(K + 1) /\ e[K + 1] = i
      /\ \A k \in 1..K : e[k] = c[k]
  BY <1>2, <1>4, AppendProperties
<1> HIDE DEF e
<1>6. \A k \in 1..K : v[c[k]].begin <= v[i].begin
  <2> SUFFICES ASSUME NEW k \in 1..K
               PROVE  v[c[k]].begin <= v[i].begin
    OBVIOUS
  <2>1. k \in DOMAIN c /\ K \in DOMAIN c /\ K # 0 /\ (k = K \/ k < K)
    BY <1>1, <1>2
  <2>2. v[c[k]].begin <= v[c[K]].begin
    BY <1>1, <2>1 DEF Rising
  <2>3. v[c[k]].begin \in Int /\ v[c[K]].begin \in Int /\ v[i].begin \in Int
    BY <1>1, <2>1
  <2> QED
    BY <1>3, <2>1, <2>2, <2>3
<1>7. Rising(v, e)
  <2> SUFFICES ASSUME NEW k \in DOMAIN e, NEW l \in DOMAIN e, k < l
               PROVE  v[e[k]].begin <= v[e[l]].begin
    BY DEF Rising
  <2>1. k \in 1..K /\ (l \in 1..K \/ l = K + 1)
    BY <1>2, <1>5
  <2>2. CASE l = K + 1
    BY <1>5, <1>6, <2>1, <2>2
  <2>3. CASE l \in 1..K
    <3>1. k \in DOMAIN c /\ l \in DOMAIN c
      BY <1>1, <1>2, <2>1, <2>3
    <3> QED
      BY <1>5, <2>1, <2>3, <3>1 DEF Rising
  <2> QED
    BY <2>1, <2>2, <2>3
<1> QED
  BY <1>5, <1>7 DEF Chained, K, d, e

\* fde_split leaves a chain of places whose values do not fall.
LEMMA ChainRight ==
  ASSUME NEW S, Keyed(S), NEW v \in Seq(S)
  PROVE  Chain(v) \in Seq(DOMAIN v) /\ Rising(v, Chain(v))
<1> DEFINE n == Len(v)
           Good == [i \in 0..n |-> {c \in Seq(DOMAIN v) : Rising(v, c)}]
           step == [i \in 1..n |-> [c \in Good[i - 1] |-> Chained(v, i, c)]]
           F(g) == [i \in 0..n |-> IF i = 0 THEN <<>> ELSE Chained(v, i, g[i - 1])]
           chain == CHOOSE g : g = F(g)
<1>1. n \in Nat /\ DOMAIN v = 1..n
  OBVIOUS
<1>2. <<>> \in Good[0]
  BY <1>1 DEF Rising
<1>3. ASSUME NEW i \in 1..n, NEW c \in Good[i - 1]
      PROVE  Chained(v, i, c) \in Good[i]
  <2>1. i - 1 \in 0..n /\ i \in 0..n
    BY <1>1
  <2> QED
    BY <1>1, <1>3, <2>1, ChainStep
<1>4. chain = F(chain)
  <2>1. \A i \in 1..n : \A c \in Good[i - 1] : step[i][c] = Chained(v, i, c)
    OBVIOUS
  <2> HIDE DEF step, Good, F, n
  <2>2. \A i \in 1..n : \A c \in Good[i - 1] : step[i][c] \in Good[i]
    BY <1>3, <2>1
  <2>3. PICK g : Runs(g, n, <<>>, step) /\ \A i \in 0..n : g[i] \in Good[i]
    BY <1>1, <1>2, <2>2, Iteration
  <2>4. \A i \in 0..n : i # 0 => step[i][g[i - 1]] = Chained(v, i, g[i - 1])
    BY <1>1, <2>1, <2>3
  <2>5. g = F(g)
    BY <2>3, <2>4 DEF Runs, F
  <2> QED
    BY <2>5
<1>5. chain[n] \in Good[n]
  <2> DEFINE Q == {i \in 0..n : chain[i] \in Good[i]}
  <2> HIDE DEF chain, Good, n
  <2>1. 0 \in Q
    BY <1>1, <1>2, <1>4
  <2>2. ASSUME NEW i \in 1..n, i - 1 \in Q
        PROVE  i \in Q
    <3>1. i \in 0..n /\ i # 0 /\ chain[i - 1] \in Good[i - 1]
      BY <1>1, <2>2
    <3>2. chain[i] = Chained(v, i, chain[i - 1])
      BY <1>4, <3>1
    <3> QED
      BY <1>3, <3>1, <3>2
  <2> HIDE DEF Q
  <2>3. \A i \in 0..n : i \in Q
    BY <1>1, <2>1, <2>2, UpTo
  <2>4. n \in Q
    BY <1>1, <2>3
  <2> QED
    BY <2>4 DEF Q
<1>6. Chain(v) = chain[n]
  BY DEF Chain, Chained
<1> HIDE DEF chain
<1> QED
  BY <1>1, <1>5, <1>6

\* The linear sequence is in order.
LEMMA LinearRight ==
  ASSUME NEW S, Keyed(S), NEW v \in Seq(S)
  PROVE  /\ Linear(v) \in Seq(S) /\ Ascending(Linear(v))
         /\ Elements(Linear(v)) = {v[i] : i \in Elements(Chain(v))}
         /\ Elements(Chain(v)) \subseteq DOMAIN v
<1> DEFINE c == Chain(v)
           w == [k \in DOMAIN c |-> v[c[k]]]
<1>1. c \in Seq(DOMAIN v) /\ Rising(v, c)
  BY ChainRight
<1> HIDE DEF c
<1>2. Len(c) \in Nat /\ DOMAIN c = 1..Len(c) /\ \A k \in DOMAIN c : c[k] \in DOMAIN v /\ v[c[k]] \in S
  BY <1>1
<1>3. w \in Seq(S)
  BY <1>2, IsASeq
<1>4. Ascending(w)
  BY <1>1 DEF Rising, Ascending
<1>5. Elements(w) = {v[i] : i \in Elements(c)} /\ Elements(c) \subseteq DOMAIN v
  BY <1>2 DEF Elements
<1> QED
  BY <1>3, <1>4, <1>5 DEF Linear, c

\* Together with the erratic one, it has every element.
LEMMA SplitRight ==
  ASSUME NEW S, Keyed(S), NEW v \in Seq(S)
  PROVE  /\ Erratic(v) \in Seq(S)
         /\ Elements(Linear(v)) \cup Elements(Erratic(v)) = Elements(v)
<1> DEFINE C == Elements(Chain(v))
<1>1. Erratic(v) = TakenAt(v, DOMAIN v \ C)
  BY DEF Erratic, Elements
<1>2. /\ Elements(Linear(v)) = {v[i] : i \in C} /\ C \subseteq DOMAIN v
  BY LinearRight
<1> HIDE DEF C
<1>3. Erratic(v) \in Seq(S) /\ Elements(Erratic(v)) = {v[i] : i \in DOMAIN v \ C}
  BY <1>1, TakenRight
<1> QED
  BY <1>2, <1>3 DEF Elements

\* What fde_merge has done after n elements of v2: s follows the first k of v1.
Merged(v1, v2, n, k, s) ==
  /\ Ascending(s)
  /\ Elements(s) = {v1[j] : j \in (k + 1)..Len(v1)} \cup {v2[j] : j \in (Len(v2) - n + 1)..Len(v2)}
  /\ \A e \in Elements(s) : /\ \A j \in 1..k : v1[j].begin <= e.begin
                            /\ \A j \in 1..(Len(v2) - n) : v2[j].begin <= e.begin

\* One round of the loop of fde_merge.
MergeStep(v1, v2, n, p) ==
  LET x == v2[Len(v2) + 1 - n]
      k == FirstNotAbove(v1, p[1], x)
  IN  <<k, <<x>> \o SubSeq(v1, k + 1, p[1]) \o p[2]>>

\* A step of fde_merge puts the next element of v2 where it belongs.
LEMMA MergeStepRight ==
  ASSUME NEW S, Keyed(S), NEW v1 \in Seq(S), NEW v2 \in Seq(S), Ascending(v1), Ascending(v2),
         NEW n \in 1..Len(v2), NEW k \in 0..Len(v1), NEW s \in Seq(S),
         Merged(v1, v2, n - 1, k, s)
  PROVE  LET q == MergeStep(v1, v2, n, <<k, s>>)
         IN  q \in (0..Len(v1)) \X Seq(S) /\ Merged(v1, v2, n, q[1], q[2])
<1> DEFINE N == Len(v2) + 1 - n
           x == v2[N]
           K == FirstNotAbove(v1, k, x)
           piece == SubSeq(v1, K + 1, k)
           front == <<x>> \o piece
           r == front \o s
<1>1. /\ Len(v1) \in Nat /\ Len(v2) \in Nat /\ DOMAIN v1 = 1..Len(v1) /\ DOMAIN v2 = 1..Len(v2)
      /\ \A j \in DOMAIN v1 : v1[j] \in S /\ v1[j].begin \in Int
      /\ \A j \in DOMAIN v2 : v2[j] \in S /\ v2[j].begin \in Int
      /\ N \in 1..Len(v2)
  BY DEF Keyed
<1>2. x \in S /\ x.begin \in Int /\ x = v2[N]
  BY <1>1
<1>a. N = Len(v2) - n + 1 /\ N - 1 = Len(v2) - n /\ Len(v2) - (n - 1) = N
      /\ Len(v2) - (n - 1) + 1 = N + 1
  BY <1>1
<1> HIDE DEF N, x
<1>3. K \in 0..k /\ (K # 0 => ~FdeLess(x, v1[K])) /\ \A j \in (K + 1)..k : FdeLess(x, v1[j])
  <2>1. k \in Nat
    BY <1>1
  <2> QED
    BY <2>1, FirstNotAboveRight
<1> HIDE DEF K
<1>4. \A j \in 1..K : v1[j].begin <= x.begin
  <2> SUFFICES ASSUME NEW j \in 1..K
               PROVE  v1[j].begin <= x.begin
    OBVIOUS
  <2>1. j \in DOMAIN v1 /\ K \in DOMAIN v1 /\ K # 0 /\ (j = K \/ j < K)
    BY <1>1, <1>3
  <2>2. v1[j].begin \in Int /\ v1[K].begin \in Int
    BY <1>1, <2>1
  <2>3. v1[j].begin <= v1[K].begin
    BY <2>1, <2>2 DEF Ascending
  <2>4. v1[K].begin <= x.begin
    BY <1>2, <1>3, <2>1, <2>2 DEF FdeLess
  <2> QED
    BY <1>2, <2>2, <2>3, <2>4
<1>5. \A j \in (K + 1)..k : x.begin <= v1[j].begin
  <2>1. \A j \in (K + 1)..k : j \in DOMAIN v1
    BY <1>1, <1>3
  <2>2. \A j \in (K + 1)..k : x.begin < v1[j].begin /\ v1[j].begin \in Int
    BY <1>1, <1>3, <2>1 DEF FdeLess
  <2> QED
    BY <1>2, <2>2
<1>6. \A j \in 1..(N - 1) : v2[j].begin <= x.begin
  <2>1. \A j \in 1..(N - 1) : j \in DOMAIN v2 /\ N \in DOMAIN v2 /\ j < N
    BY <1>1
  <2> QED
    BY <1>2, <2>1 DEF Ascending
<1>7. piece \in Seq(S) /\ Elements(piece) = {v1[j] : j \in (K + 1)..k} /\ Ascending(piece)
  <2>1. K + 1 \in 1..(Len(v1) + 1) /\ k \in ((K + 1) - 1)..Len(v1)
    BY <1>1, <1>3
  <2> QED
    BY <2>1, PieceRight
<1>8. <<x>> \in Seq(S) /\ Elements(<<x>>) = {x} /\ Ascending(<<x>>)
  BY <1>2 DEF Elements, Ascending
<1> HIDE DEF piece
<1>9. front \in Seq(S) /\ Elements(front) = {x} \cup {v1[j] : j \in (K + 1)..k} /\ Ascending(front)
  <2>1. \A a \in Elements(<<x>>), b \in Elements(piece) : a.begin <= b.begin
    BY <1>5, <1>7, <1>8
  <2>2. /\ front \in Seq(S) /\ Elements(front) = Elements(<<x>>) \cup Elements(piece)
        /\ Ascending(front)
    BY <1>7, <1>8, <2>1, JoinRight
  <2> QED
    BY <1>7, <1>8, <2>2
<1>10. Elements(s) = {v1[j] : j \in (k + 1)..Len(v1)} \cup {v2[j] : j \in (N + 1)..Len(v2)}
  BY <1>a DEF Merged
<1>11. \A e \in Elements(s) : /\ \A j \in 1..k : v1[j].begin <= e.begin
                              /\ \A j \in 1..N : v2[j].begin <= e.begin
  BY <1>a DEF Merged
<1>12. \A e \in Elements(s) : x.begin <= e.begin
  BY <1>1, <1>2, <1>11
<1>13. \A y \in Elements(front), e \in Elements(s) : y.begin <= e.begin
  <2>1. \A j \in (K + 1)..k : j \in 1..k
    BY <1>3
  <2> QED
    BY <1>9, <1>11, <1>12, <2>1
<1> HIDE DEF front
<1>14. r \in Seq(S) /\ Ascending(r) /\ Elements(r) = Elements(front) \cup Elements(s)
  BY <1>9, <1>13, JoinRight DEF Merged
<1> HIDE DEF r
<1>15. Elements(r) = {v1[j] : j \in (K + 1)..Len(v1)} \cup {v2[j] : j \in N..Len(v2)}
  <2>1. \A j : j \in (K + 1)..Len(v1) <=> j \in (K + 1)..k \/ j \in (k + 1)..Len(v1)
    BY <1>1, <1>3
  <2>2. \A j : j \in N..Len(v2) <=> j = N \/ j \in (N + 1)..Len(v2)
    BY <1>1
  <2>3. {v1[j] : j \in (K + 1)..Len(v1)} = {v1[j] : j \in (K + 1)..k} \cup {v1[j] : j \in (k + 1)..Len(v1)}
    BY <2>1
  <2>4. {v2[j] : j \in N..Len(v2)} = {x} \cup {v2[j] : j \in (N + 1)..Len(v2)}
    BY <1>2, <2>2
  <2> QED
    BY <1>9, <1>10, <1>14, <2>3, <2>4
<1>16. \A e \in Elements(r) : /\ \A j \in 1..K : v1[j].begin <= e.begin
                              /\ \A j \in 1..(N - 1) : v2[j].begin <= e.begin
  <2> SUFFICES ASSUME NEW e \in Elements(r)
               PROVE  /\ \A j \in 1..K : v1[j].begin <= e.begin
                      /\ \A j \in 1..(N - 1) : v2[j].begin <= e.begin
    OBVIOUS
  <2>1. CASE e \in Elements(s)
    <3>1. \A j \in 1..K : j \in 1..k
      BY <1>3
    <3>2. \A j \in 1..(N - 1) : j \in 1..N
      BY <1>1
    <3> QED
      BY <1>11, <2>1, <3>1, <3>2
  <2>2. CASE e = x
    BY <1>4, <1>6, <2>2
  <2>3. CASE \E j \in (K + 1)..k : e = v1[j]
    <3>1. PICK i \in (K + 1)..k : e = v1[i]
      BY <2>3
    <3>2. i \in DOMAIN v1 /\ x.begin <= e.begin /\ e.begin \in Int
      <4>1. i \in DOMAIN v1
        BY <1>1, <1>3
      <4> QED
        BY <1>1, <1>5, <3>1, <4>1
    <3>3. \A j \in 1..K : v1[j].begin \in Int
      BY <1>1, <1>3
    <3>4. \A j \in 1..(N - 1) : v2[j].begin \in Int
      <4>1. \A j \in 1..(N - 1) : j \in DOMAIN v2
        BY <1>1
      <4> QED
        BY <1>1, <4>1
    <3> QED
      BY <1>2, <1>4, <1>6, <3>2, <3>3, <3>4
  <2> QED
    BY <1>9, <1>14, <2>1, <2>2, <2>3
<1>17. Merged(v1, v2, n, K, r)
  BY <1>a, <1>14, <1>15, <1>16 DEF Merged
<1>18. MergeStep(v1, v2, n, <<k, s>>) = <<K, r>>
  BY DEF MergeStep, K, r, front, piece, x, N
<1>19. K \in 0..Len(v1)
  BY <1>1, <1>3
<1> QED
  BY <1>14, <1>17, <1>18, <1>19

(* fde_merge makes one ascending array of two.                             *)
LEMMA MergeRight ==
  ASSUME NEW S, Keyed(S), NEW v1 \in Seq(S), NEW v2 \in Seq(S), Ascending(v1), Ascending(v2)
  PROVE  LET w == fde_merge(v1, v2)
         IN  w \in Seq(S) /\ Ascending(w) /\ Elements(w) = Elements(v1) \cup Elements(v2)
<1> DEFINE n == Len(v2)
           Good == [i \in 0..n |-> {p \in (0..Len(v1)) \X Seq(S) : Merged(v1, v2, i, p[1], p[2])}]
           step == [i \in 1..n |-> [p \in Good[i - 1] |-> MergeStep(v1, v2, i, p)]]
           a == <<Len(v1), <<>>>>
           F(g) == [i \in 0..n |-> IF i = 0 THEN a ELSE MergeStep(v1, v2, i, g[i - 1])]
           merged == CHOOSE g : g = F(g)
<1>1. n \in Nat /\ DOMAIN v2 = 1..n /\ Len(v1) \in Nat /\ DOMAIN v1 = 1..Len(v1)
  OBVIOUS
<1>2. a \in Good[0]
  <2>1. Elements(<<>>) = {} /\ Ascending(<<>>)
    BY DEF Elements, Ascending
  <2>2. (Len(v1) + 1)..Len(v1) = {} /\ (Len(v2) - 0 + 1)..Len(v2) = {}
    BY <1>1
  <2>3. Merged(v1, v2, 0, Len(v1), <<>>)
    BY <2>1, <2>2 DEF Merged
  <2>4. a \in (0..Len(v1)) \X Seq(S) /\ a[1] = Len(v1) /\ a[2] = <<>>
    <3>1. <<>> \in Seq(S) /\ Len(v1) \in 0..Len(v1)
      BY <1>1, EmptySeq
    <3> QED
      BY <3>1
  <2> HIDE DEF a
  <2> QED
    BY <1>1, <2>3, <2>4
<1>3. ASSUME NEW i \in 1..n, NEW p \in Good[i - 1]
      PROVE  MergeStep(v1, v2, i, p) \in Good[i]
  <2>1. i - 1 \in 0..n /\ i \in 0..n
    BY <1>1
  <2>2. p \in (0..Len(v1)) \X Seq(S) /\ Merged(v1, v2, i - 1, p[1], p[2])
    BY <1>3, <2>1
  <2>3. p = <<p[1], p[2]>> /\ p[1] \in 0..Len(v1) /\ p[2] \in Seq(S)
    BY <2>2
  <2> DEFINE q == MergeStep(v1, v2, i, p)
  <2>4. q \in (0..Len(v1)) \X Seq(S) /\ Merged(v1, v2, i, q[1], q[2])
    BY <1>1, <2>2, <2>3, MergeStepRight
  <2> HIDE DEF q
  <2>5. q \in Good[i]
    BY <2>1, <2>4
  <2> QED
    BY <2>5 DEF q
<1>4. merged = F(merged)
  <2>1. \A i \in 1..n : \A p \in Good[i - 1] : step[i][p] = MergeStep(v1, v2, i, p)
    OBVIOUS
  <2> HIDE DEF step, Good, F, n, a
  <2>2. \A i \in 1..n : \A p \in Good[i - 1] : step[i][p] \in Good[i]
    BY <1>3, <2>1
  <2>3. PICK g : Runs(g, n, a, step) /\ \A i \in 0..n : g[i] \in Good[i]
    BY <1>1, <1>2, <2>2, Iteration
  <2>4. \A i \in 0..n : i # 0 => step[i][g[i - 1]] = MergeStep(v1, v2, i, g[i - 1])
    BY <1>1, <2>1, <2>3
  <2>5. g = F(g)
    BY <2>3, <2>4 DEF Runs, F
  <2> QED
    BY <2>5
<1>5. merged[n] \in Good[n]
  <2> DEFINE Q == {i \in 0..n : merged[i] \in Good[i]}
  <2> HIDE DEF merged, Good, n, a
  <2>1. 0 \in Q
    BY <1>1, <1>2, <1>4
  <2>2. ASSUME NEW i \in 1..n, i - 1 \in Q
        PROVE  i \in Q
    <3>1. i \in 0..n /\ i # 0 /\ merged[i - 1] \in Good[i - 1]
      BY <1>1, <2>2
    <3>2. merged[i] = MergeStep(v1, v2, i, merged[i - 1])
      BY <1>4, <3>1
    <3> QED
      BY <1>3, <3>1, <3>2
  <2> HIDE DEF Q
  <2>3. \A i \in 0..n : i \in Q
    BY <1>1, <2>1, <2>2, UpTo
  <2>4. n \in Q
    BY <1>1, <2>3
  <2> QED
    BY <2>4 DEF Q
<1> DEFINE all == merged[n]
<1>6. fde_merge(v1, v2) = SubSeq(v1, 1, all[1]) \o all[2]
  BY DEF fde_merge, MergeStep
<1>7. all \in (0..Len(v1)) \X Seq(S) /\ Merged(v1, v2, n, all[1], all[2])
  <2> HIDE DEF merged
  <2> QED
    BY <1>1, <1>5
<1> HIDE DEF merged, all
<1> DEFINE k == all[1]
           s == all[2]
           front == SubSeq(v1, 1, k)
<1>8. k \in 0..Len(v1) /\ s \in Seq(S) /\ Merged(v1, v2, n, k, s)
  BY <1>7
<1> HIDE DEF k, s
<1>9. front \in Seq(S) /\ Ascending(front) /\ Elements(front) = {v1[j] : j \in 1..k}
  <2>1. 1 \in 1..(Len(v1) + 1) /\ k \in (1 - 1)..Len(v1)
    BY <1>1, <1>8
  <2> QED
    BY <2>1, PieceRight
<1> HIDE DEF front
<1>10. /\ Ascending(s)
       /\ Elements(s) = {v1[j] : j \in (k + 1)..Len(v1)} \cup {v2[j] : j \in 1..Len(v2)}
       /\ \A e \in Elements(s) : \A j \in 1..k : v1[j].begin <= e.begin
  <2>1. Len(v2) - n + 1 = 1
    BY <1>1
  <2> QED
    BY <1>8, <2>1 DEF Merged
<1>11. \A x \in Elements(front), y \in Elements(s) : x.begin <= y.begin
  BY <1>9, <1>10
<1>12. /\ front \o s \in Seq(S) /\ Ascending(front \o s)
       /\ Elements(front \o s) = Elements(front) \cup Elements(s)
  BY <1>8, <1>9, <1>10, <1>11, JoinRight
<1>13. Elements(front) \cup Elements(s) = Elements(v1) \cup Elements(v2)
  <2>1. \A j : j \in 1..Len(v1) <=> j \in 1..k \/ j \in (k + 1)..Len(v1)
    BY <1>1, <1>8
  <2>2. {v1[j] : j \in 1..Len(v1)} = {v1[j] : j \in 1..k} \cup {v1[j] : j \in (k + 1)..Len(v1)}
    BY <2>1
  <2>3. Elements(v1) = {v1[j] : j \in 1..Len(v1)} /\ Elements(v2) = {v2[j] : j \in 1..Len(v2)}
    BY <1>1 DEF Elements
  <2> QED
    BY <1>9, <1>10, <2>2, <2>3
<1> QED
  BY <1>6, <1>12, <1>13 DEF k, s, front

-----------------------------------------------------------------------------
\* The children of a place in a heap.
Children(i) == {2 * i, 2 * i + 1}

\* From lo on, no element of a[1..hi] is below one of its children, but perhaps that at skip.
HeapBut(a, lo, hi, skip) ==
  \A i \in lo..hi : i # skip => \A c \in Children(i) : c <= hi => a[c].begin <= a[i].begin

Heap(a, lo, hi) ==
  \A i \in lo..hi : \A c \in Children(i) : c <= hi => a[c].begin <= a[i].begin

\* Between a and b only a[lo..hi] was rearranged.
Rearranged(a, b, lo, hi) ==
  /\ DOMAIN b = DOMAIN a
  /\ \A k \in DOMAIN a : k \notin lo..hi => b[k] = a[k]
  /\ {b[k] : k \in lo..hi} = {a[k] : k \in lo..hi}

\* A swap rearranges.
LEMMA SwapRight ==
  ASSUME NEW S, NEW a \in Seq(S), NEW lo \in 1..Len(a), NEW hi \in 0..Len(a),
         NEW i \in lo..hi, NEW j \in lo..hi
  PROVE  /\ Swap(a, i, j) \in Seq(S) /\ Len(Swap(a, i, j)) = Len(a)
         /\ DOMAIN Swap(a, i, j) = DOMAIN a
         /\ Rearranged(a, Swap(a, i, j), lo, hi)
         /\ \A k \in DOMAIN a :
              Swap(a, i, j)[k] = IF k = j THEN a[i] ELSE IF k = i THEN a[j] ELSE a[k]
<1> DEFINE b == Swap(a, i, j)
<1>1. Len(a) \in Nat /\ DOMAIN a = 1..Len(a) /\ i \in DOMAIN a /\ j \in DOMAIN a
      /\ \A k \in lo..hi : k \in DOMAIN a
  OBVIOUS
<1>2. DOMAIN b = DOMAIN a /\ \A k \in DOMAIN a : b[k] = IF k = j THEN a[i] ELSE IF k = i THEN a[j] ELSE a[k]
  BY <1>1 DEF Swap
<1> HIDE DEF b
<1>3. \A k \in DOMAIN b : b[k] \in S
  BY <1>1, <1>2
<1>4. b \in Seq(S) /\ Len(b) = Len(a)
  <2>1. b = [k \in 1..Len(a) |-> b[k]]
    BY <1>1, <1>2, <1>3 DEF b, Swap
  <2> QED
    BY <1>1, <1>2, <1>3, <2>1, IsASeq
<1>5. {b[k] : k \in lo..hi} = {a[k] : k \in lo..hi}
  <2>1. \A k \in lo..hi : \E l \in lo..hi : b[k] = a[l]
    BY <1>1, <1>2
  <2>2. \A l \in lo..hi : \E k \in lo..hi : b[k] = a[l]
    <3> SUFFICES ASSUME NEW l \in lo..hi
                 PROVE  \E k \in lo..hi : b[k] = a[l]
      OBVIOUS
    <3>1. CASE l = i
      BY <1>1, <1>2, <3>1
    <3>2. CASE l = j
      BY <1>1, <1>2, <3>2
    <3>3. CASE l # i /\ l # j
      BY <1>1, <1>2, <3>3
    <3> QED
      BY <3>1, <3>2, <3>3
  <2>3. \A x \in {b[k] : k \in lo..hi} : x \in {a[k] : k \in lo..hi}
    <3> SUFFICES ASSUME NEW k \in lo..hi
                 PROVE  b[k] \in {a[l] : l \in lo..hi}
      OBVIOUS
    <3>1. PICK l \in lo..hi : b[k] = a[l]
      BY <2>1
    <3> QED
      BY <3>1
  <2>4. \A x \in {a[k] : k \in lo..hi} : x \in {b[k] : k \in lo..hi}
    BY <2>2
  <2> QED
    BY <2>3, <2>4
<1>6. Rearranged(a, b, lo, hi)
  BY <1>1, <1>2, <1>5 DEF Rearranged
<1> QED
  BY <1>2, <1>4, <1>6 DEF b

\* Rearranging twice rearranges.
LEMMA RearrangedTwice ==
  ASSUME NEW a, NEW b, NEW c, NEW lo, NEW hi, Rearranged(a, b, lo, hi), Rearranged(b, c, lo, hi)
  PROVE  Rearranged(a, c, lo, hi)
  BY DEF Rearranged

(* frame_downheap on its way: b is a heap, but for the element that sinks  *)
(* and is at i; its parent is not below its children.                      *)
Sinking(a, lo, hi, b, i) ==
  /\ Rearranged(a, b, 1, hi)
  /\ HeapBut(b, lo, hi, i)
  /\ \A p \in lo..hi : i \in Children(p) => \A c \in Children(i) : c <= hi => b[c].begin <= b[p].begin

\* It sinks no further.
Settled(hi, b, i) == ~(2 * i <= hi /\ FdeLess(b[i], b[BiggerChild(b, i, hi)]))

\* One round of the loop of frame_downheap.
SinkStep(hi, p) ==
  LET b == p[1]
      i == p[2]
      j == BiggerChild(b, i, hi)
  IN  IF 2 * i <= hi /\ FdeLess(b[i], b[j]) THEN <<Swap(b, i, j), j>> ELSE p

\* The bigger child is one, and the other is not above it.
LEMMA BiggerChildRight ==
  ASSUME NEW S, Keyed(S), NEW b \in Seq(S), NEW hi \in 0..Len(b), NEW i \in 1..hi, 2 * i <= hi
  PROVE  /\ BiggerChild(b, i, hi) \in Children(i)
         /\ BiggerChild(b, i, hi) \in (i + 1)..hi
         /\ \A c \in Children(i) : c <= hi => b[c].begin <= b[BiggerChild(b, i, hi)].begin
<1>1. 2 * i \in DOMAIN b /\ (2 * i + 1 <= hi => 2 * i + 1 \in DOMAIN b) /\ \A c \in DOMAIN b : b[c].begin \in Int
  BY DEF Keyed
<1>2. CASE 2 * i + 1 <= hi /\ FdeLess(b[2 * i], b[2 * i + 1])
  <2>1. BiggerChild(b, i, hi) = 2 * i + 1
    BY <1>2 DEF BiggerChild
  <2>2. b[2 * i].begin <= b[2 * i + 1].begin /\ b[2 * i + 1].begin <= b[2 * i + 1].begin
    BY <1>1, <1>2 DEF FdeLess
  <2> QED
    BY <1>2, <2>1, <2>2 DEF Children
<1>3. CASE ~(2 * i + 1 <= hi /\ FdeLess(b[2 * i], b[2 * i + 1]))
  <2>1. BiggerChild(b, i, hi) = 2 * i
    BY <1>3 DEF BiggerChild
  <2>2. b[2 * i].begin <= b[2 * i].begin /\ (2 * i + 1 <= hi => b[2 * i + 1].begin <= b[2 * i].begin)
    BY <1>1, <1>3 DEF FdeLess
  <2> QED
    BY <2>1, <2>2 DEF Children
<1> QED
  BY <1>2, <1>3

\* The element sinks by one place.
LEMMA SinkRight ==
  ASSUME NEW S, Keyed(S), NEW a, NEW b \in Seq(S), NEW hi \in 0..Len(b), NEW lo \in 1..hi,
         NEW i \in lo..hi, Sinking(a, lo, hi, b, i), ~Settled(hi, b, i)
  PROVE  LET j == BiggerChild(b, i, hi)
             w == Swap(b, i, j)
         IN  /\ w \in Seq(S) /\ Len(w) = Len(b) /\ j \in (i + 1)..hi
             /\ Sinking(a, lo, hi, w, j)
<1> DEFINE j == BiggerChild(b, i, hi)
           w == Swap(b, i, j)
<1>1. 2 * i <= hi /\ b[i].begin < b[j].begin /\ i \in 1..hi
  BY DEF Settled, FdeLess
<1>2. /\ j \in Children(i) /\ j \in (i + 1)..hi
      /\ \A c \in Children(i) : c <= hi => b[c].begin <= b[j].begin
  BY <1>1, BiggerChildRight
<1> HIDE DEF j
<1>3. j \in 1..hi /\ j \in lo..hi /\ i # j /\ 1 \in 1..Len(b) /\ j \in Nat
  BY <1>1, <1>2
<1>4. /\ w \in Seq(S) /\ Len(w) = Len(b) /\ Rearranged(b, w, 1, hi)
      /\ \A k \in DOMAIN b : w[k] = IF k = j THEN b[i] ELSE IF k = i THEN b[j] ELSE b[k]
  BY <1>1, <1>3, SwapRight
<1> HIDE DEF w
<1>5. Rearranged(a, w, 1, hi)
  BY <1>4, RearrangedTwice DEF Sinking
<1>6. /\ w[j] = b[i] /\ w[i] = b[j]
      /\ \A k \in 1..hi : k # i /\ k # j => w[k] = b[k]
      /\ \A k \in 1..hi : b[k].begin \in Int
  <2>1. \A k \in 1..hi : k \in DOMAIN b /\ b[k] \in S
    OBVIOUS
  <2>2. \A k \in 1..hi : b[k].begin \in Int
    BY <2>1 DEF Keyed
  <2> QED
    BY <1>1, <1>3, <1>4, <2>1, <2>2
<1>7. \A p, q \in 1..hi : \A c : c \in Children(p) /\ c \in Children(q) => p = q
  BY DEF Children
<1>8. \A p \in 1..hi : \A c \in Children(p) : c \in Nat /\ c > p
  BY DEF Children
<1>9. HeapBut(w, lo, hi, j)
  <2> SUFFICES ASSUME NEW p \in lo..hi, p # j, NEW c \in Children(p), c <= hi
               PROVE  w[c].begin <= w[p].begin
    BY DEF HeapBut
  <2>1. p \in 1..hi /\ c \in 1..hi /\ c > p
    BY <1>8
  <2>2. CASE p = i /\ c = j
    BY <1>1, <1>3, <1>6, <2>2
  <2>3. CASE p = i /\ c # j
    <3>1. c # i
      BY <2>1, <2>3
    <3>2. w[c] = b[c] /\ b[c].begin <= b[j].begin
      BY <1>2, <1>6, <2>1, <2>3, <3>1
    <3> QED
      BY <1>6, <2>3, <3>2
  <2>4. CASE p # i /\ c = i
    <3>1. b[j].begin <= b[p].begin
      BY <1>2, <1>3, <2>4 DEF Sinking
    <3> QED
      BY <1>6, <2>1, <2>4, <3>1
  <2>5. CASE p # i /\ c = j
    BY <1>1, <1>2, <1>7, <2>1, <2>5
  <2>6. CASE p # i /\ c # i /\ c # j
    <3>1. b[c].begin <= b[p].begin
      BY <2>6 DEF Sinking, HeapBut
    <3> QED
      BY <1>6, <2>1, <2>6, <3>1
  <2> QED
    BY <2>2, <2>3, <2>4, <2>5, <2>6
<1>10. ASSUME NEW p \in lo..hi, j \in Children(p), NEW c \in Children(j), c <= hi
       PROVE  w[c].begin <= w[p].begin
  <2>1. p = i
    BY <1>1, <1>2, <1>7, <1>10
  <2>2. c \in 1..hi /\ c > j /\ c > i /\ c # i /\ c # j
    BY <1>2, <1>3, <1>8, <1>10
  <2>3. b[c].begin <= b[j].begin
    BY <1>3, <1>10 DEF Sinking, HeapBut
  <2> QED
    BY <1>6, <2>1, <2>2, <2>3
<1>11. Sinking(a, lo, hi, w, j)
  BY <1>5, <1>9, <1>10 DEF Sinking
<1> QED
  BY <1>2, <1>4, <1>11 DEF j, w

\* An element that is settled leaves a heap.
LEMMA SettledHeap ==
  ASSUME NEW S, Keyed(S), NEW a, NEW b \in Seq(S), NEW hi \in 0..Len(b), NEW lo \in 1..hi,
         NEW i \in lo..hi, Sinking(a, lo, hi, b, i), Settled(hi, b, i)
  PROVE  Heap(b, lo, hi)
<1> DEFINE j == BiggerChild(b, i, hi)
<1> SUFFICES ASSUME NEW p \in lo..hi, NEW c \in Children(p), c <= hi
             PROVE  b[c].begin <= b[p].begin
  BY DEF Heap
<1>1. CASE p # i
  BY <1>1 DEF Sinking, HeapBut
<1>2. CASE p = i
  <2>1. 2 * i <= hi /\ i \in 1..hi
    BY <1>2 DEF Children
  <2>2. j \in (i + 1)..hi /\ \A d \in Children(i) : d <= hi => b[d].begin <= b[j].begin
    BY <2>1, BiggerChildRight
  <2>3. ~(b[i].begin < b[j].begin)
    BY <2>1 DEF Settled, FdeLess
  <2> HIDE DEF j
  <2>4. c \in 1..hi
    BY <1>2, <2>1 DEF Children
  <2>5. \A k \in 1..hi : k \in DOMAIN b /\ b[k] \in S
    OBVIOUS
  <2>6. \A k \in 1..hi : b[k].begin \in Int
    BY <2>5 DEF Keyed
  <2>7. j \in 1..hi
    BY <2>1, <2>2
  <2>8. b[c].begin <= b[j].begin
    BY <1>2, <2>2
  <2> QED
    BY <1>2, <2>1, <2>3, <2>4, <2>6, <2>7, <2>8
<1> QED
  BY <1>1, <1>2

(* frame_downheap extends a heap by the element at lo.                     *)
LEMMA DownheapRight ==
  ASSUME NEW S, Keyed(S), NEW a \in Seq(S), NEW hi \in 0..Len(a), NEW lo \in 1..hi,
         Heap(a, lo + 1, hi)
  PROVE  LET b == frame_downheap(a, lo, hi)
         IN  b \in Seq(S) /\ Len(b) = Len(a) /\ Rearranged(a, b, 1, hi) /\ Heap(b, lo, hi)
<1> DEFINE State(i, p) == /\ Len(p[1]) = Len(a)
                          /\ Sinking(a, lo, hi, p[1], p[2])
                          /\ p[2] >= lo + i \/ Settled(hi, p[1], p[2])
           Good == [i \in 0..hi |-> {p \in Seq(S) \X (lo..hi) : State(i, p)}]
           step == [i \in 1..hi |-> [p \in Good[i - 1] |-> SinkStep(hi, p)]]
           start == <<a, lo>>
           F(g) == [i \in 0..hi |-> IF i = 0 THEN start ELSE SinkStep(hi, g[i - 1])]
           sunk == CHOOSE g : g = F(g)
<1>1. hi \in Nat /\ lo \in Nat /\ lo \in lo..hi
  OBVIOUS
<1>2. start \in Good[0]
  <2>1. Rearranged(a, a, 1, hi)
    BY DEF Rearranged
  <2>2. HeapBut(a, lo, hi, lo)
    BY DEF Heap, HeapBut
  <2>3. \A p \in lo..hi : lo \notin Children(p)
    BY DEF Children
  <2>4. Sinking(a, lo, hi, a, lo)
    BY <2>1, <2>2, <2>3 DEF Sinking
  <2>5. lo >= lo + 0
    BY <1>1
  <2>6. start[1] = a /\ start[2] = lo /\ start \in Seq(S) \X (lo..hi)
    BY <1>1
  <2> HIDE DEF start
  <2>7. State(0, start)
    BY <2>4, <2>5, <2>6
  <2> HIDE DEF State
  <2> QED
    BY <1>1, <2>6, <2>7
<1>3. ASSUME NEW i \in 1..hi, NEW p \in Good[i - 1]
      PROVE  SinkStep(hi, p) \in Good[i]
  <2>1. i - 1 \in 0..hi /\ i \in 0..hi
    BY <1>1
  <2>2. p \in Seq(S) \X (lo..hi) /\ State(i - 1, p)
    BY <1>3, <2>1
  <2> DEFINE b == p[1]
             k == p[2]
             q == SinkStep(hi, p)
  <2>3. p = <<b, k>> /\ b \in Seq(S) /\ k \in lo..hi
    BY <2>2
  <2>4. /\ Len(b) = Len(a) /\ Sinking(a, lo, hi, b, k)
        /\ k >= lo + (i - 1) \/ Settled(hi, b, k)
    BY <2>2
  <2>5. CASE Settled(hi, b, k)
    <3>1. q = p
      BY <2>5 DEF SinkStep, Settled
    <3>2. State(i, p)
      BY <2>4, <2>5
    <3> HIDE DEF q, State
    <3>3. q \in Good[i]
      BY <2>1, <2>2, <3>1, <3>2
    <3> QED
      BY <3>3 DEF q
  <2>6. CASE ~Settled(hi, b, k)
    <3> DEFINE j == BiggerChild(b, k, hi)
               w == Swap(b, k, j)
    <3>1. q = <<w, j>>
      BY <2>6 DEF SinkStep, Settled
    <3> HIDE DEF b, k
    <3>2. w \in Seq(S) /\ Len(w) = Len(a) /\ j \in (k + 1)..hi /\ Sinking(a, lo, hi, w, j)
      BY <2>3, <2>4, <2>6, SinkRight
    <3> HIDE DEF w, j, q
    <3>3. j \in lo..hi /\ j >= lo + i
      BY <1>1, <2>3, <2>4, <2>6, <3>2
    <3>4. q \in Seq(S) \X (lo..hi) /\ q[1] = w /\ q[2] = j
      BY <3>1, <3>2, <3>3
    <3>5. State(i, q)
      BY <3>2, <3>3, <3>4
    <3> HIDE DEF State
    <3>6. q \in Good[i]
      BY <2>1, <3>4, <3>5
    <3> QED
      BY <3>6 DEF q
  <2> QED
    BY <2>5, <2>6
<1> HIDE DEF State
<1>4. sunk = F(sunk)
  <2>1. \A i \in 1..hi : \A p \in Good[i - 1] : step[i][p] = SinkStep(hi, p)
    OBVIOUS
  <2> HIDE DEF step, Good, F, start
  <2>2. \A i \in 1..hi : \A p \in Good[i - 1] : step[i][p] \in Good[i]
    BY <1>3, <2>1
  <2>3. PICK g : Runs(g, hi, start, step) /\ \A i \in 0..hi : g[i] \in Good[i]
    BY <1>1, <1>2, <2>2, Iteration
  <2>4. \A i \in 0..hi : i # 0 => step[i][g[i - 1]] = SinkStep(hi, g[i - 1])
    BY <1>1, <2>1, <2>3
  <2>5. g = F(g)
    BY <2>3, <2>4 DEF Runs, F
  <2> QED
    BY <2>5
<1>5. sunk[hi] \in Good[hi]
  <2> DEFINE Q == {i \in 0..hi : sunk[i] \in Good[i]}
  <2> HIDE DEF sunk, Good, start
  <2>1. 0 \in Q
    BY <1>1, <1>2, <1>4
  <2>2. ASSUME NEW i \in 1..hi, i - 1 \in Q
        PROVE  i \in Q
    <3>1. i \in 0..hi /\ i # 0 /\ sunk[i - 1] \in Good[i - 1]
      BY <1>1, <2>2
    <3>2. sunk[i] = SinkStep(hi, sunk[i - 1])
      BY <1>4, <3>1
    <3> QED
      BY <1>3, <3>1, <3>2
  <2> HIDE DEF Q
  <2>3. \A i \in 0..hi : i \in Q
    BY <1>1, <2>1, <2>2, UpTo
  <2>4. hi \in Q
    BY <1>1, <2>3
  <2> QED
    BY <2>4 DEF Q
<1>6. frame_downheap(a, lo, hi) = sunk[hi][1]
  BY DEF frame_downheap, SinkStep
<1> HIDE DEF sunk
<1> DEFINE b == sunk[hi][1]
           k == sunk[hi][2]
<1>7. b \in Seq(S) /\ k \in lo..hi /\ State(hi, sunk[hi])
  BY <1>1, <1>5
<1>8. /\ Len(b) = Len(a) /\ Sinking(a, lo, hi, b, k)
      /\ k >= lo + hi \/ Settled(hi, b, k)
  BY <1>7 DEF State
<1> HIDE DEF b, k
<1>9. Settled(hi, b, k)
  BY <1>1, <1>7, <1>8
<1>10. Heap(b, lo, hi)
  BY <1>7, <1>8, <1>9, SettledHeap
<1> QED
  BY <1>6, <1>7, <1>8, <1>10 DEF b, Sinking

\* The top of a heap is not below any element.
LEMMA HeapTop ==
  ASSUME NEW S, Keyed(S), NEW b \in Seq(S), NEW hi \in 0..Len(b), Heap(b, 1, hi)
  PROVE  \A k \in 1..hi : b[k].begin <= b[1].begin
<1> DEFINE T == {k \in 1..hi : ~(b[k].begin <= b[1].begin)}
<1> SUFFICES ASSUME T # {}
             PROVE  FALSE
  OBVIOUS
<1>1. T \subseteq Nat
  OBVIOUS
<1>2. PICK k \in T : \A l \in T : k <= l
  <2> HIDE DEF T
  <2> QED
    BY <1>1, LeastNat
<1>3. k \in 1..hi /\ ~(b[k].begin <= b[1].begin)
  BY <1>2
<1>4. \A l \in 1..hi : l \in DOMAIN b /\ b[l] \in S
  OBVIOUS
<1>5. \A l \in 1..hi : b[l].begin \in Int
  BY <1>4 DEF Keyed
<1>6. k # 1
  BY <1>3, <1>5
<1> DEFINE p == k \div 2
<1>7. p \in 1..hi /\ p < k /\ k \in Children(p)
  BY <1>3, <1>6 DEF Children
<1> HIDE DEF p
<1>8. b[k].begin <= b[p].begin
  BY <1>3, <1>7 DEF Heap
<1>9. b[p].begin <= b[1].begin
  BY <1>2, <1>7
<1>10. 1 \in 1..hi
  BY <1>3
<1> QED
  BY <1>3, <1>5, <1>7, <1>8, <1>9, <1>10

\* What is rearranged in a part is rearranged in the whole.
LEMMA RearrangedWider ==
  ASSUME NEW S, NEW a \in Seq(S), NEW b, NEW hi \in 0..Len(a), Rearranged(a, b, 1, hi)
  PROVE  Rearranged(a, b, 1, Len(a))
<1> DEFINE n == Len(a)
<1>1. n \in Nat /\ DOMAIN a = 1..n /\ hi \in 0..n
  OBVIOUS
<1> HIDE DEF n
<1>2. \A k \in 1..n : k \in 1..hi \/ b[k] = a[k]
  BY <1>1 DEF Rearranged
<1>3. \A k \in 1..hi : k \in 1..n
  BY <1>1
<1>4. {b[k] : k \in 1..hi} = {a[k] : k \in 1..hi}
  BY DEF Rearranged
<1>5. \A k \in 1..n : b[k] \in {a[l] : l \in 1..n}
  <2> SUFFICES ASSUME NEW k \in 1..n
               PROVE  b[k] \in {a[l] : l \in 1..n}
    OBVIOUS
  <2>1. CASE k \in 1..hi
    <3>1. b[k] \in {a[l] : l \in 1..hi}
      BY <1>4, <2>1
    <3> QED
      BY <1>3, <3>1
  <2> QED
    BY <1>2, <2>1
<1>6. \A k \in 1..n : a[k] \in {b[l] : l \in 1..n}
  <2> SUFFICES ASSUME NEW k \in 1..n
               PROVE  a[k] \in {b[l] : l \in 1..n}
    OBVIOUS
  <2>1. CASE k \in 1..hi
    <3>1. a[k] \in {b[l] : l \in 1..hi}
      BY <1>4, <2>1
    <3> QED
      BY <1>3, <3>1
  <2> QED
    BY <1>2, <2>1
<1>7. {b[k] : k \in 1..n} = {a[k] : k \in 1..n}
  BY <1>5, <1>6
<1> QED
  BY <1>1, <1>7 DEF Rearranged, n

\* From h on, no element is below one before it.
Topped(b, h, n) == \A k \in (h + 1)..n : \A j \in 1..k : b[j].begin <= b[k].begin

\* The array while the heap a[1..h] shrinks.
Shrinking(a, b, h, S) ==
  /\ b \in Seq(S) /\ Len(b) = Len(a)
  /\ Rearranged(a, b, 1, Len(a))
  /\ Heap(b, 1, h)
  /\ Topped(b, h, Len(a))

\* Its top is swapped to the end, and the heap restored.
LEMMA ShrinkRight ==
  ASSUME NEW S, Keyed(S), NEW a \in Seq(S), NEW h \in 2..Len(a), NEW b, Shrinking(a, b, h, S)
  PROVE  Shrinking(a, frame_downheap(Swap(b, 1, h), 1, h - 1), h - 1, S)
<1> DEFINE n == Len(a)
           w == Swap(b, 1, h)
           r == frame_downheap(w, 1, h - 1)
<1>1. /\ n \in Nat /\ DOMAIN a = 1..n /\ h \in 2..n /\ h - 1 \in 1..n
      /\ b \in Seq(S) /\ Len(b) = n /\ DOMAIN b = 1..n
      /\ \A k \in 1..n : b[k] \in S
  BY DEF Shrinking
<1>2. \A k \in 1..n : b[k].begin \in Int
  BY <1>1 DEF Keyed
<1>3. /\ w \in Seq(S) /\ Len(w) = n /\ DOMAIN w = 1..n /\ Rearranged(b, w, 1, h)
      /\ \A k \in 1..n : w[k] = IF k = h THEN b[1] ELSE IF k = 1 THEN b[h] ELSE b[k]
  <2>1. 1 \in 1..Len(b) /\ h \in 0..Len(b) /\ 1 \in 1..h /\ h \in 1..h
    BY <1>1
  <2> HIDE DEF n
  <2>2. b \in Seq(S)
    BY <1>1
  <2>3. /\ w \in Seq(S) /\ Len(w) = Len(b) /\ DOMAIN w = DOMAIN b /\ Rearranged(b, w, 1, h)
        /\ \A k \in DOMAIN b : w[k] = IF k = h THEN b[1] ELSE IF k = 1 THEN b[h] ELSE b[k]
    BY <2>1, <2>2, SwapRight
  <2> HIDE DEF w
  <2> QED
    BY <1>1, <2>3
<1> HIDE DEF w, n
<1>4. Heap(w, 2, h - 1)
  <2> SUFFICES ASSUME NEW i \in 2..(h - 1), NEW c \in Children(i), c <= h - 1
               PROVE  w[c].begin <= w[i].begin
    BY DEF Heap
  <2>1. i \in 1..h /\ i \in 1..n /\ c \in 1..n /\ c # h /\ c # 1 /\ i # h /\ i # 1 /\ c <= h
    BY <1>1 DEF Children
  <2>2. b[c].begin <= b[i].begin
    BY <2>1 DEF Shrinking, Heap
  <2> QED
    BY <1>3, <2>1, <2>2
<1>5. /\ r \in Seq(S) /\ Len(r) = n /\ Rearranged(w, r, 1, h - 1) /\ Heap(r, 1, h - 1)
  <2>1. h - 1 \in 0..Len(w) /\ 1 \in 1..(h - 1) /\ 1 + 1 = 2
    BY <1>1, <1>3
  <2> QED
    BY <1>3, <1>4, <2>1, DownheapRight
<1> HIDE DEF r
<1>6. Rearranged(a, r, 1, n)
  <2>1. Rearranged(b, w, 1, n)
    <3>1. h \in 0..Len(b)
      BY <1>1
    <3> QED
      BY <1>1, <1>3, <3>1, RearrangedWider
  <2>2. Rearranged(w, r, 1, n)
    <3>1. h - 1 \in 0..Len(w)
      BY <1>1, <1>3
    <3> QED
      BY <1>3, <1>5, <3>1, RearrangedWider
  <2> QED
    BY <2>1, <2>2, RearrangedTwice DEF Shrinking, n
<1>7. \A j \in 1..(h - 1) : \E l \in 1..h : r[j] = b[l]
  <2> SUFFICES ASSUME NEW j \in 1..(h - 1)
               PROVE  \E l \in 1..h : r[j] = b[l]
    OBVIOUS
  <2>1. r[j] \in {w[l] : l \in 1..(h - 1)}
    BY <1>5 DEF Rearranged
  <2>2. PICK l \in 1..(h - 1) : r[j] = w[l]
    BY <2>1
  <2>3. l \in 1..h /\ 1 \in 1..h /\ h \in 1..h /\ l \in 1..n
    BY <1>1
  <2> QED
    BY <1>3, <2>2, <2>3
<1>8. r[h] = b[1] /\ \A k \in (h + 1)..n : r[k] = b[k]
  <2>1. h \in 1..n /\ h \notin 1..(h - 1) /\ \A k \in (h + 1)..n : k \in 1..n /\ k \notin 1..(h - 1) /\ k # h /\ k # 1
    BY <1>1
  <2> QED
    BY <1>3, <1>5, <2>1 DEF Rearranged
<1>9. \A k \in 1..h : b[k].begin <= b[1].begin
  <2>1. h \in 0..Len(b)
    BY <1>1
  <2> QED
    BY <1>1, <2>1, HeapTop DEF Shrinking
<1>10. \A k \in (h + 1)..n : \A l \in 1..k : b[l].begin <= b[k].begin
  BY DEF Shrinking, Topped, n
<1>11. Topped(r, h - 1, n)
  <2> SUFFICES ASSUME NEW k \in h..n, NEW j \in 1..k
               PROVE  r[j].begin <= r[k].begin
    <3>1. (h - 1) + 1 = h
      BY <1>1
    <3> QED
      BY <3>1 DEF Topped
  <2>1. CASE k = h
    <3>1. CASE j = h
      BY <1>1, <1>2, <1>8, <2>1, <3>1
    <3>2. CASE j # h
      <4>1. j \in 1..(h - 1)
        BY <1>1, <2>1, <3>2
      <4> QED
        BY <1>7, <1>8, <1>9, <2>1, <4>1
    <3> QED
      BY <3>1, <3>2
  <2>2. CASE k # h
    <3>0. k \in (h + 1)..n
      BY <1>1, <2>2
    <3>1. CASE j \in 1..(h - 1)
      <4>1. PICK l \in 1..h : r[j] = b[l]
        BY <1>7, <3>1
      <4>2. l \in 1..k
        BY <1>1, <3>0
      <4> QED
        BY <1>8, <1>10, <3>0, <4>1, <4>2
    <3>2. CASE j = h
      <4>1. 1 \in 1..k
        BY <1>1, <3>0
      <4> QED
        BY <1>8, <1>10, <3>0, <3>2, <4>1
    <3>3. CASE j \in (h + 1)..n
      BY <1>8, <1>10, <3>0, <3>3
    <3> QED
      BY <1>1, <3>0, <3>1, <3>2, <3>3
  <2> QED
    BY <2>1, <2>2
<1> QED
  BY <1>5, <1>6, <1>11 DEF Shrinking, r, w, n

\* The array while the heap is built from the middle down.
HeapBuilt(a) ==
  CHOOSE g : g = [m \in 0..(Len(a) \div 2) |->
                    IF m = 0 THEN a ELSE frame_downheap(g[m - 1], Len(a) \div 2 + 1 - m, Len(a))]

\* The first loop of frame_heapsort makes a heap of the whole array.
LEMMA BuildRight ==
  ASSUME NEW S, Keyed(S), NEW a \in Seq(S)
  PROVE  Shrinking(a, HeapBuilt(a)[Len(a) \div 2], Len(a), S)
<1> DEFINE n == Len(a)
           h == n \div 2
           Op(m, b) == frame_downheap(b, h + 1 - m, n)
           State(m, b) == Len(b) = n /\ Rearranged(a, b, 1, n) /\ Heap(b, h + 1 - m, n)
           Good == [m \in 0..h |-> {b \in Seq(S) : State(m, b)}]
           step == [m \in 1..h |-> [b \in Good[m - 1] |-> Op(m, b)]]
           F(g) == [m \in 0..h |-> IF m = 0 THEN a ELSE Op(m, g[m - 1])]
           heap == CHOOSE g : g = F(g)
<1>1. n \in Nat /\ h \in Nat /\ 2 * h <= n /\ n < 2 * (h + 1) /\ DOMAIN a = 1..n
  OBVIOUS
<1>a. HeapBuilt(a) = heap
  BY DEF HeapBuilt
<1>b. Len(a) = n /\ Len(a) \div 2 = h
  OBVIOUS
<1> HIDE DEF h, n
<1>2. a \in Good[0]
  <2>1. Rearranged(a, a, 1, n)
    BY DEF Rearranged
  <2>2. Heap(a, h + 1 - 0, n)
    BY <1>1 DEF Heap, Children
  <2>3. State(0, a)
    BY <1>b, <2>1, <2>2
  <2> HIDE DEF State
  <2> QED
    BY <1>1, <2>3
<1>3. ASSUME NEW m \in 1..h, NEW b \in Good[m - 1]
      PROVE  Op(m, b) \in Good[m]
  <2>1. m - 1 \in 0..h /\ m \in 0..h /\ h + 1 - m \in 1..n /\ n \in 0..n
        /\ h + 1 - (m - 1) = (h + 1 - m) + 1
    BY <1>1
  <2>2. b \in Seq(S) /\ State(m - 1, b)
    BY <1>3, <2>1
  <2>3. Len(b) = n /\ Rearranged(a, b, 1, n) /\ Heap(b, (h + 1 - m) + 1, n)
    BY <2>1, <2>2
  <2> DEFINE r == Op(m, b)
  <2>4. r \in Seq(S) /\ Len(r) = n /\ Rearranged(b, r, 1, n) /\ Heap(r, h + 1 - m, n)
    BY <2>1, <2>2, <2>3, DownheapRight
  <2> HIDE DEF r
  <2>5. Rearranged(a, r, 1, n)
    BY <2>3, <2>4, RearrangedTwice
  <2>6. State(m, r)
    BY <2>4, <2>5
  <2> HIDE DEF State
  <2>7. r \in Good[m]
    BY <2>1, <2>4, <2>6
  <2> QED
    BY <2>7 DEF r
<1> HIDE DEF State, Op
<1>4. heap = F(heap)
  <2>1. \A m \in 1..h : \A b \in Good[m - 1] : step[m][b] = Op(m, b)
    OBVIOUS
  <2> HIDE DEF step, Good, F
  <2>2. \A m \in 1..h : \A b \in Good[m - 1] : step[m][b] \in Good[m]
    BY <1>3, <2>1
  <2>3. PICK g : Runs(g, h, a, step) /\ \A m \in 0..h : g[m] \in Good[m]
    BY <1>1, <1>2, <2>2, Iteration
  <2>4. \A m \in 0..h : m # 0 => step[m][g[m - 1]] = Op(m, g[m - 1])
    BY <1>1, <2>1, <2>3
  <2>5. g = F(g)
    BY <2>3, <2>4 DEF Runs, F
  <2> QED
    BY <2>5
<1>5. heap[h] \in Good[h]
  <2> DEFINE Q == {m \in 0..h : heap[m] \in Good[m]}
  <2> HIDE DEF heap, Good
  <2>1. 0 \in Q
    BY <1>1, <1>2, <1>4
  <2>2. ASSUME NEW m \in 1..h, m - 1 \in Q
        PROVE  m \in Q
    <3>1. m \in 0..h /\ m # 0 /\ heap[m - 1] \in Good[m - 1]
      BY <1>1, <2>2
    <3>2. heap[m] = Op(m, heap[m - 1])
      BY <1>4, <3>1
    <3> QED
      BY <1>3, <3>1, <3>2
  <2> HIDE DEF Q
  <2>3. \A m \in 0..h : m \in Q
    BY <1>1, <2>1, <2>2, UpTo
  <2>4. h \in Q
    BY <1>1, <2>3
  <2> QED
    BY <2>4 DEF Q
<1> HIDE DEF heap
<1>6. heap[h] \in Seq(S) /\ State(h, heap[h])
  BY <1>1, <1>5
<1>7. Len(heap[h]) = n /\ Rearranged(a, heap[h], 1, n) /\ Heap(heap[h], 1, n)
  <2>1. h + 1 - h = 1
    BY <1>1
  <2> QED
    BY <1>6, <2>1 DEF State
<1>8. Topped(heap[h], n, n)
  <2>1. (n + 1)..n = {}
    BY <1>1
  <2> QED
    BY <2>1 DEF Topped
<1> QED
  BY <1>6, <1>7, <1>8, <1>a, <1>b DEF Shrinking

\* frame_heapsort puts its array in ascending order.
LEMMA HeapsortRight ==
  ASSUME NEW S, Keyed(S), NEW a \in Seq(S)
  PROVE  LET b == frame_heapsort(a)
         IN  b \in Seq(S) /\ Ascending(b) /\ Elements(b) = Elements(a)
<1> DEFINE n == Len(a)
           top == HeapBuilt(a)[n \div 2]
           H(m) == IF m = 0 THEN n ELSE n + 1 - m
           Op(m, b) == IF m <= 1 THEN top ELSE frame_downheap(Swap(b, 1, n + 2 - m), 1, n + 1 - m)
           Good == [m \in 0..n |-> {b \in Seq(S) : Shrinking(a, b, H(m), S)}]
           step == [m \in 1..n |-> [b \in Good[m - 1] |-> Op(m, b)]]
           F(g) == [m \in 0..n |-> IF m <= 1 THEN top
                                   ELSE frame_downheap(Swap(g[m - 1], 1, n + 2 - m), 1, n + 1 - m)]
           left == CHOOSE g : g = F(g)
<1>1. n \in Nat /\ DOMAIN a = 1..n
  OBVIOUS
<1>a. frame_heapsort(a) = left[n]
  BY DEF frame_heapsort, HeapBuilt
<1>b. Shrinking(a, top, n, S)
  BY BuildRight
<1>c. Len(a) = n
  OBVIOUS
<1> HIDE DEF n, top
<1>2. top \in Good[0]
  <2>1. H(0) = n /\ top \in Seq(S)
    BY <1>b DEF Shrinking
  <2> HIDE DEF H
  <2> QED
    BY <1>1, <1>b, <2>1
<1>3. ASSUME NEW m \in 1..n, NEW b \in Good[m - 1]
      PROVE  Op(m, b) \in Good[m]
  <2>1. m - 1 \in 0..n /\ m \in 0..n
    BY <1>1
  <2>2. Shrinking(a, b, H(m - 1), S)
    BY <1>3, <2>1
  <2>3. Shrinking(a, Op(m, b), H(m), S)
    <3>1. CASE m = 1
      <4>1. H(m) = n /\ Op(m, b) = top
        BY <1>1, <3>1
      <4> QED
        BY <1>b, <4>1
    <3>2. CASE m # 1
      <4>1. H(m) = n + 1 - m /\ H(m - 1) = n + 2 - m /\ n + 2 - m \in 2..n /\ (n + 2 - m) - 1 = n + 1 - m
        BY <1>1, <3>2
      <4>2. Op(m, b) = frame_downheap(Swap(b, 1, n + 2 - m), 1, n + 1 - m)
        BY <1>1, <3>2
      <4> QED
        BY <1>c, <2>2, <4>1, <4>2, ShrinkRight
    <3> QED
      BY <3>1, <3>2
  <2> HIDE DEF Op, H
  <2>4. Op(m, b) \in Seq(S)
    BY <2>3 DEF Shrinking
  <2> QED
    BY <2>1, <2>3, <2>4
<1>4. left = F(left)
  <2>1. \A m \in 1..n : \A b \in Good[m - 1] : step[m][b] = Op(m, b)
    OBVIOUS
  <2> HIDE DEF step, Good, F, Op
  <2>2. \A m \in 1..n : \A b \in Good[m - 1] : step[m][b] \in Good[m]
    BY <1>3, <2>1
  <2>3. PICK g : Runs(g, n, top, step) /\ \A m \in 0..n : g[m] \in Good[m]
    BY <1>1, <1>2, <2>2, Iteration
  <2>4. \A m \in 0..n : m # 0 => step[m][g[m - 1]] = Op(m, g[m - 1])
    BY <1>1, <2>1, <2>3
  <2>5. g = [m \in 0..n |-> IF m = 0 THEN top ELSE Op(m, g[m - 1])]
    BY <2>3, <2>4 DEF Runs
  <2>6. g = F(g)
    BY <1>1, <2>5 DEF F, Op
  <2> QED
    BY <2>6
<1>5. left[n] \in Good[n]
  <2> DEFINE Q == {m \in 0..n : left[m] \in Good[m]}
  <2>0. left[0] = top /\ \A m \in 0..n : m # 0 => left[m] = Op(m, left[m - 1])
    <3> HIDE DEF left
    <3> QED
      BY <1>1, <1>4
  <2> HIDE DEF left, Good, Op
  <2>1. 0 \in Q
    BY <1>1, <1>2, <2>0
  <2>2. ASSUME NEW m \in 1..n, m - 1 \in Q
        PROVE  m \in Q
    <3>1. m \in 0..n /\ m # 0 /\ left[m - 1] \in Good[m - 1]
      BY <1>1, <2>2
    <3> QED
      BY <1>3, <2>0, <3>1
  <2> HIDE DEF Q
  <2>3. \A m \in 0..n : m \in Q
    BY <1>1, <2>1, <2>2, UpTo
  <2>4. n \in Q
    BY <1>1, <2>3
  <2> QED
    BY <2>4 DEF Q
<1> DEFINE b == left[n]
<1>6. Shrinking(a, b, H(n), S)
  <2> HIDE DEF left
  <2> QED
    BY <1>1, <1>5
<1> HIDE DEF left, b
<1>7. b \in Seq(S) /\ Len(b) = n /\ Rearranged(a, b, 1, n) /\ Topped(b, H(n), n)
  BY <1>6, <1>c DEF Shrinking
<1>8. Ascending(b)
  <2> SUFFICES ASSUME NEW i \in DOMAIN b, NEW j \in DOMAIN b, i < j
               PROVE  b[i].begin <= b[j].begin
    BY DEF Ascending
  <2>1. i \in 1..n /\ j \in 1..n
    BY <1>1, <1>7
  <2>2. H(n) = 1
    BY <1>1, <2>1
  <2> HIDE DEF H
  <2>3. j \in (1 + 1)..n /\ i \in 1..j
    BY <1>1, <2>1
  <2> QED
    BY <1>7, <2>2, <2>3 DEF Topped
<1>9. Elements(b) = Elements(a)
  <2>1. DOMAIN b = 1..n /\ {b[k] : k \in 1..n} = {a[k] : k \in 1..n}
    BY <1>1, <1>7 DEF Rearranged
  <2> QED
    BY <1>1, <2>1 DEF Elements
<1> QED
  BY <1>7, <1>8, <1>9, <1>a DEF b

(* end_fde_sort sorts, whether or not there is memory for the erratic      *)
(* array.                                                                  *)
THEOREM SortSortsAnything ==
  ASSUME NEW S, Keyed(S), NEW v \in Seq(S), NEW both \in BOOLEAN
  PROVE  LET w == end_fde_sort(v, both)
         IN  w \in Seq(S) /\ Ascending(w) /\ Elements(w) = Elements(v)
<1>1. CASE ~both
  BY <1>1, HeapsortRight DEF end_fde_sort
<1>2. CASE both
  <2> DEFINE lin == Linear(v)
             err == Erratic(v)
             srt == frame_heapsort(err)
  <2>1. lin \in Seq(S) /\ Ascending(lin)
    BY LinearRight
  <2>2. err \in Seq(S) /\ Elements(lin) \cup Elements(err) = Elements(v)
    BY SplitRight
  <2> HIDE DEF lin, err
  <2>3. srt \in Seq(S) /\ Ascending(srt) /\ Elements(srt) = Elements(err)
    BY <2>2, HeapsortRight
  <2>4. end_fde_sort(v, both) = fde_merge(lin, srt)
    BY <1>2 DEF end_fde_sort, lin, err
  <2> HIDE DEF srt
  <2>5. /\ fde_merge(lin, srt) \in Seq(S) /\ Ascending(fde_merge(lin, srt))
        /\ Elements(fde_merge(lin, srt)) = Elements(lin) \cup Elements(srt)
    BY <2>1, <2>3, MergeRight
  <2> QED
    BY <2>2, <2>3, <2>4, <2>5
<1> QED
  BY <1>1, <1>2

(* The array that end_fde_sort leaves has the FDEs of the table, without   *)
(* the removed functions, in ascending order.                              *)
LEMMA SortRight ==
  ASSUME table \in Layouts, NEW m \in Modules, NEW both \in BOOLEAN
  PROVE  LET v == Sorted[table[m]][both]
         IN  /\ v \in Seq(Fdes)
             /\ Ascending(v)
             /\ Elements(v) = {table[m][i] : i \in Present(table[m])}
<1> DEFINE tab == table[m]
           v == Collected(tab)
           w == end_fde_sort(v, both)
<1>1. table \in [Modules -> Seq(Fdes)]
  BY LayoutAssumption DEF Fdes
<1>2. tab \in Seq(Fdes) /\ tab \in Elements(table)
  BY <1>1 DEF Elements
<1>3. Sorted[tab][both] = w
  BY <1>2 DEF Sorted
<1> HIDE DEF tab
<1>4. Keyed(Fdes)
  BY RegistryAssumption DEF Keyed, Fdes
<1>5. v \in Seq(Fdes) /\ Elements(v) = {tab[i] : i \in Present(tab)}
  <2>1. Present(tab) \cap DOMAIN tab = Present(tab)
    BY DEF Present
  <2>2. v = TakenAt(tab, Present(tab))
    BY DEF Collected, Present
  <2> QED
    BY <1>2, <2>1, <2>2, TakenRight
<1> HIDE DEF v
<1>6. w \in Seq(Fdes) /\ Ascending(w) /\ Elements(w) = Elements(v)
  BY <1>4, <1>5, SortSortsAnything
<1> HIDE DEF w
<1> QED
  BY <1>3, <1>5, <1>6 DEF tab

\* What a search of a table may return.
RightAnswer(tab, p, x) ==
  \/ x = NoFde /\ (Unhandled(tab) \/ Hits(tab, p) = {})
  \/ ~Unhandled(tab) /\ \E i \in Hits(tab, p) : x = tab[i]

(* The binary search in a sorted array finds the FDE that covers p, if     *)
(* there is one.                                                           *)
LEMMA SortedSearch ==
  ASSUME table \in Layouts, NEW m \in Modules, NEW both \in BOOLEAN, NEW p \in 1..MaxPc,
         ~Unhandled(table[m])
  PROVE  RightAnswer(table[m], p, binary_search_fdes(Sorted[table[m]][both], p))
<1> DEFINE v == Sorted[table[m]][both]
           x == binary_search_fdes(v, p)
<1>1. /\ v \in Seq(Fdes) /\ Ascending(v)
      /\ Elements(v) = {table[m][i] : i \in Present(table[m])}
  BY SortRight
<1> HIDE DEF v
<1>2. \A k \in DOMAIN v : \E i \in Present(table[m]) : v[k] = table[m][i]
  BY <1>1 DEF Elements
<1>3. \A i \in Present(table[m]) : \E k \in DOMAIN v : v[k] = table[m][i]
  BY <1>1 DEF Elements
<1>4. \A i, j \in Present(table[m]) : Apart(table[m][i], table[m][j])
  BY LayoutAssumption DEF Apart
<1>5. \A i, j \in DOMAIN v : Apart(v[i], v[j])
  BY <1>2, <1>4
<1>6. Searchable(v)
  BY <1>1, <1>5 DEF Searchable
<1>7. \/ x = NoFde /\ \A i \in DOMAIN v : ~Covers(v[i], p)
      \/ \E i \in DOMAIN v : x = v[i] /\ Covers(v[i], p)
  BY <1>6, BinarySearchRight, RegistryAssumption
<1> HIDE DEF x
<1>8. RightAnswer(table[m], p, x)
  BY <1>2, <1>3, <1>7 DEF RightAnswer, Hits
<1> QED
  BY <1>8 DEF x, v

(* So does the linear search in the unsorted table.                        *)
LEMMA LinearSearch ==
  ASSUME table \in Layouts, NEW m \in Modules, NEW p \in 1..MaxPc, ~Unhandled(table[m])
  PROVE  RightAnswer(table[m], p, linear_search_fdes(table[m], p))
<1> DEFINE hits == {i \in DOMAIN table[m] : table[m][i].begin # 0 /\ Covers(table[m][i], p)}
<1>1. hits = Hits(table[m], p)
  BY DEF Hits, Present
<1>2. hits \subseteq Nat
  BY TableFacts
<1>3. linear_search_fdes(table[m], p)
        = IF hits = {} THEN NoFde ELSE table[m][Lowermost(hits)]
  BY DEF linear_search_fdes
<1> HIDE DEF hits
<1>4. hits # {} => Lowermost(hits) \in hits
  BY <1>2, LowermostIsLeast
<1> QED
  BY <1>1, <1>3, <1>4 DEF RightAnswer

\* An object that has no table of its own has no FDEs.
LEMMA EmptyTable ==
  /\ Reached(<<>>) = {} /\ ~Unhandled(<<>>)
  /\ \A p : linear_search_fdes(<<>>, p) = NoFde
  /\ \A x \in Nat : Lowest(<<>>, x) = x
<1>1. DOMAIN <<>> = {}
  OBVIOUS
<1>2. Reached(<<>>) = {} /\ ~Unhandled(<<>>) /\ \A p : linear_search_fdes(<<>>, p) = NoFde
  BY <1>1 DEF Reached, Unhandled, linear_search_fdes
<1>3. \A x \in Nat : {x} \cup {<<>>[i].begin : i \in Reached(<<>>)} = {x}
  BY <1>2
<1>4. \A x \in Nat : Lowermost({x}) = x
  BY LowermostIsLeast
<1> QED
  BY <1>2, <1>3, <1>4 DEF Lowest

(* init_object leaves an object as it is after a search: rejected if it    *)
(* has an FDE that cannot be handled, else classified and perhaps sorted.  *)
LEMMA InitObject ==
  ASSUME table \in Layouts, NEW m \in Modules, NEW o \in ObjectType, NEW mem \in Memory,
         Fresh(o, m) \/ (Searched(o, m, table[m]) /\ o.sorted = 0)
  PROVE  /\ init_object(o, mem) \in ObjectType
         /\ Searched(init_object(o, mem), m, table[m])
<1> DEFINE tab == IF o.single = NoModule THEN <<>> ELSE table[o.single]
           count == CountOf(Len(Collected(tab)))
           classified == IF o.count # 0 THEN o
                         ELSE [o EXCEPT !.pc_begin = Lowest(tab, o.pc_begin), !.count = count]
           new == init_object(o, mem)
<1>1. new = IF Unhandled(tab)
            THEN [o EXCEPT !.pc_begin = Lowest(tab, o.pc_begin), !.single = NoModule]
            ELSE IF Reached(tab) = {} \/ mem = "none" THEN classified
            ELSE [classified EXCEPT !.sorted = 1, !.orig_data = o.single,
                              !.array = Sorted[tab][mem = "both"]]
  BY DEF init_object
<1>2. /\ NoModule \notin Modules /\ MaxPc \in Nat /\ TopAddress \in Nat
      /\ TopAddress = MaxPc + 1 /\ Bottom(table[m]) \in 1..TopAddress /\ Bottom(table[m]) \in Nat
  BY RegistryAssumption, LowFacts DEF TopAddress
<1>3. o.live = 1 /\ o.sorted = 0
  BY DEF Fresh, Searched
<1>4. \/ tab = table[m] /\ o.single = m
      \/ tab = <<>> /\ o.single = NoModule /\ Unhandled(table[m]) /\ Searched(o, m, table[m])
  BY <1>2 DEF Fresh, Searched
<1>5. Lowest(tab, o.pc_begin) = Bottom(table[m])
  BY <1>2, <1>4, LowFacts, EmptyTable DEF Fresh, Searched, Bottom
<1>6. o.count # 0 => Searched(o, m, table[m])
  BY DEF Fresh
<1>7. tab \in {<<>>} \cup UNION {Elements(layout) : layout \in Layouts}
  <2>1. table \in [Modules -> Seq(Fdes)]
    BY LayoutAssumption DEF Fdes
  <2>2. table[m] \in Elements(table)
    BY <2>1 DEF Elements
  <2> QED
    BY <1>4, <2>2
<1>8. ~Unhandled(tab) => tab = table[m] \/ Unhandled(table[m])
  BY <1>4
<1>9. classified \in ObjectType /\ classified.live = 1 /\ classified.sorted = 0
      /\ classified.pc_begin = Bottom(table[m]) /\ classified.single = o.single
  <2>1. count \in Counts
    BY <1>7 DEF Counts
  <2>2. Bottom(table[m]) \in 0..TopAddress
    BY <1>2
  <2>3. CASE o.count # 0
    BY <2>3, <1>3, <1>6 DEF Searched
  <2>4. CASE o.count = 0
    <3>1. classified = [o EXCEPT !.pc_begin = Bottom(table[m]), !.count = count]
      BY <2>4, <1>5
    <3> HIDE DEF count, tab, classified
    <3> QED
      BY <1>3, <2>1, <2>2, <3>1 DEF ObjectType
  <2> QED
    BY <2>3, <2>4
<1> HIDE DEF classified
<1>10. CASE Unhandled(tab)
  <2>1. new = [o EXCEPT !.pc_begin = Bottom(table[m]), !.single = NoModule]
    BY <1>1, <1>5, <1>10
  <2>2. Unhandled(table[m])
    BY <1>4, <1>10, EmptyTable
  <2> HIDE DEF new, tab
  <2>3. new \in ObjectType /\ new.live = 1 /\ new.pc_begin = Bottom(table[m]) /\ new.sorted = 0 /\ new.single = NoModule
    <3>1. Bottom(table[m]) \in 0..TopAddress
      BY <1>2
    <3> QED
      BY <1>3, <2>1, <3>1 DEF ObjectType
  <2> QED
    BY <2>2, <2>3 DEF Searched, new
<1>11. CASE ~Unhandled(tab) /\ (Reached(tab) = {} \/ mem = "none")
  <2>1. new = classified
    BY <1>1, <1>11
  <2>2. Searched(classified, m, table[m])
    BY <1>4, <1>9, <1>11 DEF Searched
  <2> QED
    BY <1>9, <2>1, <2>2
<1>12. CASE ~Unhandled(tab) /\ Reached(tab) # {} /\ mem # "none"
  <2> DEFINE v == Sorted[table[m]][mem = "both"]
  <2>1. tab = table[m] /\ o.single = m
    BY <1>4, <1>12, EmptyTable
  <2>2. new = [classified EXCEPT !.sorted = 1, !.orig_data = m, !.array = v]
    BY <1>1, <1>12, <2>1
  <2>3. v \in Seq(Fdes)
    BY SortRight
  <2>4. \E both \in BOOLEAN : v = Sorted[table[m]][both]
    OBVIOUS
  <2>5. ~Unhandled(table[m])
    BY <1>12, <2>1
  <2> HIDE DEF v, tab, new
  <2>6. new \in ObjectType
    BY <1>9, <2>2, <2>3 DEF ObjectType
  <2>7. new.live = 1 /\ new.pc_begin = Bottom(table[m]) /\ new.sorted = 1 /\ new.orig_data = m /\ new.array = v
    BY <1>9, <2>2 DEF ObjectType
  <2> QED
    BY <2>4, <2>5, <2>6, <2>7 DEF Searched, new
<1> QED
  BY <1>10, <1>11, <1>12

(* A search of an object leaves it searched and finds what there is.       *)
LEMMA SearchObject ==
  ASSUME table \in Layouts, NEW m \in Modules, NEW o \in ObjectType, NEW mem \in Memory,
         NEW p \in 1..MaxPc, Fresh(o, m) \/ Searched(o, m, table[m])
  PROVE  /\ search_object(o, p, mem).object \in ObjectType
         /\ Searched(search_object(o, p, mem).object, m, table[m])
         /\ RightAnswer(table[m], p, search_object(o, p, mem).fde)
<1> DEFINE new == IF o.sorted = 1 THEN o ELSE init_object(o, mem)
           tab == IF new.single = NoModule THEN <<>> ELSE table[new.single]
           found == IF o.sorted = 0 /\ p < new.pc_begin THEN NoFde
                    ELSE IF new.sorted = 1 THEN binary_search_fdes(new.array, p)
                    ELSE linear_search_fdes(tab, p)
<1>1. search_object(o, p, mem).object = new /\ search_object(o, p, mem).fde = found
  BY DEF search_object
<1>2. new \in ObjectType /\ Searched(new, m, table[m])
  <2>1. CASE o.sorted = 1
    BY <2>1 DEF Fresh
  <2>2. CASE o.sorted # 1
    <3>1. o.sorted = 0
      BY <2>2 DEF ObjectType
    <3> QED
      BY <2>2, <3>1, InitObject
  <2> QED
    BY <2>1, <2>2
<1> HIDE DEF new
<1>3. NoModule \notin Modules /\ MaxPc \in Nat
  BY RegistryAssumption
<1>4. CASE o.sorted = 0 /\ p < new.pc_begin
  <2>1. found = NoFde
    BY <1>4
  <2>2. Unhandled(table[m]) \/ Hits(table[m], p) = {}
    <3> SUFFICES ASSUME ~Unhandled(table[m]), NEW i \in Hits(table[m], p)
                 PROVE  FALSE
      OBVIOUS
    <3>1. Bottom(table[m]) <= p
      BY HitFacts
    <3> QED
      BY <1>2, <1>3, <1>4, <3>1, LowFacts DEF Searched, TopAddress
  <2> QED
    BY <1>1, <1>2, <2>1, <2>2 DEF RightAnswer
<1>5. CASE ~(o.sorted = 0 /\ p < new.pc_begin) /\ new.sorted = 1
  <2>1. ~Unhandled(table[m]) /\ \E both \in BOOLEAN : new.array = Sorted[table[m]][both]
    BY <1>2, <1>5 DEF Searched
  <2>2. found = binary_search_fdes(new.array, p)
    BY <1>5
  <2>3. RightAnswer(table[m], p, found)
    BY <2>1, <2>2, SortedSearch
  <2> QED
    BY <1>1, <1>2, <2>3
<1>6. CASE ~(o.sorted = 0 /\ p < new.pc_begin) /\ new.sorted # 1
  <2>1. \/ Unhandled(table[m]) /\ new.single = NoModule
        \/ ~Unhandled(table[m]) /\ new.single = m
    BY <1>2, <1>6 DEF Searched
  <2>2. found = linear_search_fdes(tab, p)
    BY <1>6
  <2>3. RightAnswer(table[m], p, found)
    <3>1. CASE new.single = NoModule
      BY <2>1, <2>2, <3>1, <1>3, EmptyTable DEF RightAnswer
    <3>2. CASE ~Unhandled(table[m]) /\ new.single = m
      BY <2>2, <3>2, <1>3, LinearSearch
    <3> QED
      BY <2>1, <3>1, <3>2
  <2> QED
    BY <1>1, <1>2, <2>3
<1> QED
  BY <1>4, <1>5, <1>6

-----------------------------------------------------------------------------
(* What linking and unlinking does to a list.                              *)
LEMMA Prepended ==
  ASSUME NEW s \in Seq(Modules), NEW m \in Modules, m \notin Elements(s), Distinct(s)
  PROVE  LET r == <<m>> \o s
         IN  r \in Seq(Modules) /\ Distinct(r) /\ Elements(r) = Elements(s) \cup {m}
<1> DEFINE r == <<m>> \o s
<1>1. /\ r \in Seq(Modules) /\ Len(r) = Len(s) + 1 /\ Len(s) \in Nat
      /\ DOMAIN r = 1..(Len(s) + 1) /\ DOMAIN s = 1..Len(s)
      /\ \A i \in 1..(Len(s) + 1) : r[i] = IF i = 1 THEN m ELSE s[i - 1]
  OBVIOUS
<1> HIDE DEF r
<1>2. Distinct(r)
  <2>1. \A i \in 1..Len(s) : s[i] # m
    BY <1>1 DEF Elements
  <2>2. \A i, j \in 1..Len(s) : s[i] = s[j] => i = j
    BY <1>1 DEF Distinct
  <2> SUFFICES ASSUME NEW i \in 1..(Len(s) + 1), NEW j \in 1..(Len(s) + 1), r[i] = r[j]
               PROVE  i = j
    BY <1>1 DEF Distinct
  <2>3. i = 1 \/ i - 1 \in 1..Len(s)
    BY <1>1
  <2>4. j = 1 \/ j - 1 \in 1..Len(s)
    BY <1>1
  <2>5. i = 1 <=> j = 1
    BY <1>1, <2>1, <2>3, <2>4
  <2>6. i # 1 => i - 1 = j - 1
    BY <1>1, <2>2, <2>3, <2>4, <2>5
  <2> QED
    BY <2>5, <2>6
<1>3. Elements(r) \subseteq Elements(s) \cup {m}
  BY <1>1 DEF Elements
<1>4. Elements(s) \cup {m} \subseteq Elements(r)
  <2>1. r[1] = m /\ 1 \in DOMAIN r
    BY <1>1
  <2>2. \A i \in DOMAIN s : i + 1 \in DOMAIN r /\ r[i + 1] = s[i]
    BY <1>1
  <2> QED
    BY <2>1, <2>2 DEF Elements
<1> QED
  BY <1>1, <1>2, <1>3, <1>4 DEF r

(* Taking the head off a list without repetitions.                         *)
LEMMA Taken ==
  ASSUME NEW s \in Seq(Modules), s # <<>>, Distinct(s)
  PROVE  /\ Tail(s) \in Seq(Modules) /\ Distinct(Tail(s))
         /\ Head(s) \in Elements(s) /\ Head(s) \in Modules
         /\ Elements(Tail(s)) = Elements(s) \ {Head(s)}
<1> DEFINE r == Tail(s)
<1>1. /\ r \in Seq(Modules) /\ Len(r) = Len(s) - 1 /\ Len(s) \in Nat /\ Len(s) > 0
      /\ DOMAIN r = 1..(Len(s) - 1) /\ DOMAIN s = 1..Len(s)
      /\ \A i \in 1..(Len(s) - 1) : r[i] = s[i + 1]
      /\ Head(s) = s[1]
  OBVIOUS
<1> HIDE DEF r
<1>2. Distinct(r)
  BY <1>1 DEF Distinct
<1>3. Elements(r) \subseteq Elements(s) \ {Head(s)}
  BY <1>1 DEF Elements, Distinct
<1>4. Elements(s) \ {Head(s)} \subseteq Elements(r)
  <2>1. \A i \in DOMAIN s : s[i] # s[1] => i - 1 \in DOMAIN r /\ r[i - 1] = s[i]
    BY <1>1
  <2> QED
    BY <1>1, <2>1 DEF Elements
<1>5. Head(s) \in Elements(s) /\ Head(s) \in Modules
  BY <1>1 DEF Elements
<1> QED
  BY <1>1, <1>2, <1>3, <1>4, <1>5 DEF r

\* The object that is unlinked is the one of the module, and order is kept.
LEMMA UnlinkedFacts ==
  ASSUME NEW s \in Seq(Modules), Distinct(s), NEW m \in Elements(s),
         \A x \in Elements(s) : KeyOf(ob[x]) = m <=> x = m
  PROVE  LET r == Unlinked(s, m)
         IN  /\ r \in Seq(Modules) /\ Distinct(r) /\ Elements(r) = Elements(s) \ {m}
             /\ \A i, j \in DOMAIN r : i < j =>
                  \E k, l \in DOMAIN s : k < l /\ r[i] = s[k] /\ r[j] = s[l]
<1> DEFINE r == Unlinked(s, m)
           hit == {i \in DOMAIN s : KeyOf(ob[s[i]]) = m}
           n == Lowermost(hit)
<1>1. DOMAIN s = 1..Len(s) /\ Len(s) \in Nat
  OBVIOUS
<1>2. hit \subseteq Nat /\ hit # {}
  BY <1>1 DEF Elements
<1>3. r = [i \in 1..(Len(s) - 1) |-> IF i < n THEN s[i] ELSE s[i + 1]]
  BY DEF Unlinked
<1>4. n \in DOMAIN s /\ s[n] = m
  <2> HIDE DEF hit
  <2>1. n \in hit
    BY <1>2, LowermostIsLeast
  <2> QED
    BY <2>1 DEF Elements, hit
<1> HIDE DEF r, n, hit
<1>5. r \in Seq(Modules) /\ DOMAIN r = 1..(Len(s) - 1)
  BY <1>1, <1>3, <1>4
<1>6. \A i, j \in DOMAIN r : i < j =>
        \E k, l \in DOMAIN s : k < l /\ r[i] = s[k] /\ r[j] = s[l]
  <2> SUFFICES ASSUME NEW i \in DOMAIN r, NEW j \in DOMAIN r, i < j
               PROVE  \E k, l \in DOMAIN s : k < l /\ r[i] = s[k] /\ r[j] = s[l]
    OBVIOUS
  <2> DEFINE k == IF i < n THEN i ELSE i + 1
             l == IF j < n THEN j ELSE j + 1
  <2>1. k \in DOMAIN s /\ l \in DOMAIN s /\ k < l /\ r[i] = s[k] /\ r[j] = s[l]
    BY <1>1, <1>3, <1>4, <1>5
  <2> QED
    BY <2>1
<1>7. Distinct(r)
  BY <1>1, <1>3, <1>4, <1>5 DEF Distinct
<1>8. Elements(r) \subseteq Elements(s) \ {m}
  BY <1>1, <1>3, <1>4, <1>5 DEF Elements, Distinct
<1>9. Elements(s) \ {m} \subseteq Elements(r)
  <2> SUFFICES ASSUME NEW k \in DOMAIN s, s[k] # m
               PROVE  \E i \in DOMAIN r : r[i] = s[k]
    BY DEF Elements
  <2> DEFINE i == IF k < n THEN k ELSE k - 1
  <2>1. i \in DOMAIN r /\ r[i] = s[k]
    BY <1>1, <1>3, <1>4, <1>5
  <2> QED
    BY <2>1
<1> QED
  BY <1>5, <1>6, <1>7, <1>8, <1>9 DEF r

\* A list with something put in after the place n.
PutAfter(s, n, m) == SubSeq(s, 1, n) \o <<m>> \o SubSeq(s, n + 1, Len(s))

(* Linking an object into a list after the first n.                        *)
LEMMA PutIn ==
  ASSUME NEW s \in Seq(Modules), NEW m \in Modules, NEW n \in 0..Len(s)
  PROVE  LET r == PutAfter(s, n, m)
         IN  /\ r \in Seq(Modules) /\ DOMAIN r = 1..(Len(s) + 1)
             /\ \A i \in DOMAIN r : r[i] = IF i <= n THEN s[i] ELSE IF i = n + 1 THEN m ELSE s[i - 1]
<1> DEFINE a == SubSeq(s, 1, n)
           b == SubSeq(s, n + 1, Len(s))
<1>0. Len(s) \in Nat /\ DOMAIN s = 1..Len(s)
  OBVIOUS
<1>1. a \in Seq(Modules) /\ Len(a) = n /\ \A i \in 1..n : a[i] = s[i]
  BY <1>0
<1>2. b \in Seq(Modules) /\ Len(b) = Len(s) - n /\ \A i \in 1..(Len(s) - n) : b[i] = s[n + i]
  <2>0. n + 1 \in Int /\ Len(s) \in Int /\ \A i \in (n + 1)..Len(s) : s[i] \in Modules
    BY <1>0
  <2>4. /\ b \in Seq(Modules)
        /\ Len(b) = IF n + 1 <= Len(s) THEN Len(s) - (n + 1) + 1 ELSE 0
        /\ \A i \in 1..(Len(s) - (n + 1) + 1) : b[i] = s[(n + 1) + i - 1]
    BY <2>0, SubSeqProperties
  <2> HIDE DEF b
  <2>1. b \in Seq(Modules) /\ Len(b) = Len(s) - n
    BY <1>0, <2>4
  <2>2. \A i \in 1..(Len(s) - n) : b[i] = s[(n + 1) + i - 1]
    <3>1. Len(s) - (n + 1) + 1 = Len(s) - n
      BY <1>0
    <3> QED
      BY <2>4, <3>1
  <2>3. \A i \in 1..(Len(s) - n) : (n + 1) + i - 1 = n + i
    BY <1>0
  <2> QED
    BY <2>1, <2>2, <2>3
<1> HIDE DEF a, b
<1> DEFINE c == a \o <<m>>
<1>3. c \in Seq(Modules) /\ Len(c) = n + 1 /\ \A i \in 1..(n + 1) : c[i] = IF i <= n THEN s[i] ELSE m
  BY <1>1
<1> HIDE DEF c
<1> DEFINE r == c \o b
<1>4. /\ r \in Seq(Modules) /\ Len(r) = Len(s) + 1
      /\ \A i \in 1..(Len(s) + 1) : r[i] = IF i <= n + 1 THEN c[i] ELSE b[i - (n + 1)]
  BY <1>0, <1>2, <1>3
<1>5. \A i \in 1..(Len(s) + 1) : i > n + 1 => b[i - (n + 1)] = s[i - 1]
  <2> SUFFICES ASSUME NEW i \in 1..(Len(s) + 1), i > n + 1
               PROVE  b[i - (n + 1)] = s[i - 1]
    OBVIOUS
  <2>1. i - (n + 1) \in 1..(Len(s) - n) /\ n + (i - (n + 1)) = i - 1
    BY <1>0
  <2> QED
    BY <1>2, <2>1
<1>6. r = PutAfter(s, n, m)
  BY DEF a, b, c, PutAfter
<1> HIDE DEF r
<1>7. DOMAIN r = 1..(Len(s) + 1)
  BY <1>4
<1>8. \A i \in DOMAIN r : r[i] = IF i <= n THEN s[i] ELSE IF i = n + 1 THEN m ELSE s[i - 1]
  BY <1>0, <1>3, <1>4, <1>5, <1>7
<1> QED
  BY <1>4, <1>6, <1>7, <1>8

\* Putting a searched object into the list seen keeps the list in order.
LEMMA InsertedFacts ==
  ASSUME table \in Layouts, seen \in Seq(Modules), Distinct(seen),
         \A i \in DOMAIN seen : ob[seen[i]].pc_begin = Bottom(table[seen[i]]),
         \A i, j \in DOMAIN seen : i < j => Bottom(table[seen[i]]) >= Bottom(table[seen[j]]),
         NEW m \in Modules, m \notin Elements(seen), NEW o, o.pc_begin = Bottom(table[m])
  PROVE  LET r == Inserted(m, o)
         IN  /\ r \in Seq(Modules) /\ Distinct(r) /\ Elements(r) = Elements(seen) \cup {m}
             /\ \A i, j \in DOMAIN r : i < j => Bottom(table[r[i]]) >= Bottom(table[r[j]])
<1> DEFINE later == {i \in DOMAIN seen : GoesBefore(o, seen[i])}
           n == IF later = {} THEN Len(seen) ELSE Lowermost(later) - 1
           r == Inserted(m, o)
<1>1. DOMAIN seen = 1..Len(seen) /\ Len(seen) \in Nat /\ \A i \in DOMAIN seen : seen[i] \in Modules
  OBVIOUS
<1>2. later = {i \in DOMAIN seen : Bottom(table[seen[i]]) < Bottom(table[m])}
  BY DEF GoesBefore
<1>3. \A x \in Modules : Bottom(table[x]) \in Nat
  BY LowFacts, RegistryAssumption DEF TopAddress
<1>4. /\ n \in 0..Len(seen)
      /\ \A i \in DOMAIN seen : i <= n => Bottom(table[seen[i]]) >= Bottom(table[m])
      /\ \A i \in DOMAIN seen : i > n => Bottom(table[seen[i]]) <= Bottom(table[m])
  <2>1. CASE later = {}
    BY <1>1, <1>2, <1>3, <2>1
  <2>2. CASE later # {}
    <3> DEFINE k == Lowermost(later)
    <3>1. later \subseteq Nat
      BY <1>1
    <3>2. n = k - 1
      BY <2>2
    <3>3. k \in later /\ \A i \in later : k <= i
      <4> HIDE DEF later
      <4> QED
        BY <2>2, <3>1, LowermostIsLeast
    <3>4. k \in DOMAIN seen /\ Bottom(table[seen[k]]) < Bottom(table[m])
      BY <1>2, <3>3
    <3>5. \A i \in DOMAIN seen : i < k => ~(Bottom(table[seen[i]]) < Bottom(table[m]))
      <4> SUFFICES ASSUME NEW i \in DOMAIN seen, i < k, Bottom(table[seen[i]]) < Bottom(table[m])
                   PROVE  FALSE
        OBVIOUS
      <4>1. i \in later
        BY <1>2
      <4> HIDE DEF later, k
      <4> QED
        BY <1>1, <3>3, <3>4, <4>1
    <3>6. \A i \in DOMAIN seen : i >= k => Bottom(table[seen[i]]) <= Bottom(table[seen[k]])
      BY <1>1, <1>3, <3>4
    <3> HIDE DEF k, later, n
    <3>7. n \in 0..Len(seen)
      BY <1>1, <3>2, <3>4
    <3>8. \A i \in DOMAIN seen : i <= n => Bottom(table[seen[i]]) >= Bottom(table[m])
      <4> TAKE i \in DOMAIN seen
      <4> HAVE i <= n
      <4>1. i < k
        BY <1>1, <3>2, <3>4
      <4> QED
        BY <1>1, <1>3, <3>5, <4>1
    <3>9. \A i \in DOMAIN seen : i > n => Bottom(table[seen[i]]) <= Bottom(table[m])
      <4> TAKE i \in DOMAIN seen
      <4> HAVE i > n
      <4>1. i >= k
        BY <1>1, <3>2, <3>4
      <4>2. Bottom(table[seen[i]]) <= Bottom(table[seen[k]])
        BY <3>6, <4>1
      <4> QED
        BY <1>1, <1>3, <3>4, <4>2
    <3> QED
      BY <3>7, <3>8, <3>9
  <2> QED
    BY <2>1, <2>2
<1>5. r = PutAfter(seen, n, m)
  BY DEF Inserted, PutAfter
<1> HIDE DEF n, later, r
<1>6. /\ r \in Seq(Modules) /\ DOMAIN r = 1..(Len(seen) + 1)
      /\ \A i \in DOMAIN r :
           r[i] = IF i <= n THEN seen[i] ELSE IF i = n + 1 THEN m ELSE seen[i - 1]
  BY <1>4, <1>5, PutIn
<1>7. Distinct(r)
  BY <1>1, <1>4, <1>6 DEF Distinct, Elements
<1>8. Elements(r) \subseteq Elements(seen) \cup {m}
  <2> SUFFICES ASSUME NEW i \in DOMAIN r
               PROVE  r[i] \in Elements(seen) \cup {m}
    BY DEF Elements
  <2>1. CASE i <= n
    <3>1. i \in DOMAIN seen /\ r[i] = seen[i]
      BY <1>1, <1>4, <1>6, <2>1
    <3> QED
      BY <3>1 DEF Elements
  <2>2. CASE i > n + 1
    <3>1. i - 1 \in DOMAIN seen /\ r[i] = seen[i - 1]
      BY <1>1, <1>4, <1>6, <2>2
    <3> QED
      BY <3>1 DEF Elements
  <2>3. CASE i = n + 1
    BY <1>4, <1>6, <2>3
  <2> QED
    BY <1>4, <1>6, <2>1, <2>2, <2>3
<1>9. Elements(seen) \cup {m} \subseteq Elements(r)
  <2>1. n + 1 \in DOMAIN r /\ r[n + 1] = m
    BY <1>1, <1>4, <1>6
  <2>2. ASSUME NEW k \in DOMAIN seen
        PROVE  \E i \in DOMAIN r : r[i] = seen[k]
    <3> DEFINE i == IF k <= n THEN k ELSE k + 1
    <3>1. i \in DOMAIN r /\ r[i] = seen[k]
      BY <1>1, <1>4, <1>6
    <3> QED
      BY <3>1
  <2> QED
    BY <2>1, <2>2 DEF Elements
<1>10. \A i, j \in DOMAIN r : i < j => Bottom(table[r[i]]) >= Bottom(table[r[j]])
  <2> SUFFICES ASSUME NEW i \in DOMAIN r, NEW j \in DOMAIN r, i < j
               PROVE  Bottom(table[r[i]]) >= Bottom(table[r[j]])
    OBVIOUS
  <2>1. i \in 1..(Len(seen) + 1) /\ j \in 1..(Len(seen) + 1) /\ n \in Nat
    BY <1>4, <1>6
  <2>2. /\ r[i] = IF i <= n THEN seen[i] ELSE IF i = n + 1 THEN m ELSE seen[i - 1]
        /\ r[j] = IF j <= n THEN seen[j] ELSE IF j = n + 1 THEN m ELSE seen[j - 1]
    BY <1>6
  <2>3. /\ i <= n => i \in DOMAIN seen
        /\ j <= n => j \in DOMAIN seen
        /\ i - 1 > n => i - 1 \in DOMAIN seen
        /\ j - 1 > n => j - 1 \in DOMAIN seen
    BY <1>1, <1>4, <2>1
  <2>4. CASE j <= n
    <3>1. i <= n /\ r[i] = seen[i] /\ r[j] = seen[j]
      BY <2>1, <2>2, <2>4
    <3> QED
      BY <2>3, <2>4, <3>1
  <2>5. CASE j = n + 1
    <3>1. i <= n /\ r[i] = seen[i] /\ r[j] = m
      BY <2>1, <2>2, <2>5
    <3> QED
      BY <1>4, <2>3, <3>1
  <2>6. CASE i = n + 1
    <3>1. j - 1 > n /\ r[i] = m /\ r[j] = seen[j - 1]
      BY <2>1, <2>2, <2>6
    <3> QED
      BY <1>1, <1>3, <1>4, <2>3, <3>1
  <2>7. CASE i - 1 > n
    <3>1. i - 1 < j - 1 /\ j - 1 > n /\ r[i] = seen[i - 1] /\ r[j] = seen[j - 1]
      BY <2>1, <2>2, <2>7
    <3> QED
      BY <2>3, <2>7, <3>1
  <2>8. CASE i <= n /\ j - 1 > n
    <3>1. i < j - 1 /\ r[i] = seen[i] /\ r[j] = seen[j - 1]
      BY <2>1, <2>2, <2>8
    <3> QED
      BY <2>3, <2>8, <3>1
  <2> QED
    BY <2>1, <2>4, <2>5, <2>6, <2>7, <2>8
<1> QED
  BY <1>6, <1>7, <1>8, <1>9, <1>10 DEF r

-----------------------------------------------------------------------------
(* The invariant holds initially and is kept by every step.                *)
LEMMA NoObjectTyped ==
  NoObject \in ObjectType /\ NoObject.count = 0 /\ NoObject.sorted = 0
<1>1. 0 \in 0..TopAddress
  BY RegistryAssumption DEF TopAddress
<1>2. 0 \in Counts
  BY DEF Counts
<1> QED
  BY <1>1, <1>2 DEF NoObject, ObjectType

(* The registry begins with the invariant.                                 *)
LEMMA InvInit ==
  ASSUME RegistryInit
  PROVE  RegistryInv
<1>1. Linked = {} /\ Elements(unseen) = {} /\ Elements(seen) = {}
  BY DEF RegistryInit, Linked, Elements
<1>2. NoObject \in ObjectType
  BY NoObjectTyped
<1>3. TypeInv
  BY <1>2 DEF RegistryInit, TypeInv, RegistryTypeOK, Places
<1>4. HolderInv /\ WorkInv /\ ListInv /\ ObjectInv
  BY <1>1, RegistryAssumption DEF RegistryInit, HolderInv, WorkInv, ListInv, ObjectInv, Distinct,
     Holding, Finding, Registering, Running, Leaving
<1>5. LinkInv /\ PcInv /\ SearchInv
  BY <1>1 DEF RegistryInit, LinkInv, PcInv, SearchInv, SearchOK
<1> QED
  BY <1>3, <1>4, <1>5 DEF RegistryInv

(* The types of the variables, one by one.                                 *)
LEMMA TypeFacts ==
  ASSUME TypeInv
  PROVE  /\ at \in [Threads -> Places]
         /\ mod \in [Threads -> Modules \cup {NoModule}]
         /\ pc \in [Threads -> Pcs \cup {0}]
         /\ cur \in [Threads -> Modules \cup {NoModule}]
         /\ DOMAIN f = Threads
         /\ phase \in [Modules -> {"out", "coming", "in", "leaving"}]
         /\ table \in Layouts /\ ob \in [Modules -> ObjectType]
         /\ unseen \in Seq(Modules) /\ seen \in Seq(Modules)
         /\ NoModule \notin Modules /\ NoThread \notin Threads /\ Pcs \subseteq 1..MaxPc /\ MaxPc \in Nat
  BY RegistryAssumption DEF TypeInv, RegistryTypeOK

\* A step of t that leaves the lists and the objects alone.
LEMMA Quiet ==
  ASSUME TypeInv, ListInv, ObjectInv, NEW t \in Threads, NEW l,
         at[t] # "search", l # "search", l \in Registering => at[t] \in Registering,
         at' = [at EXCEPT ![t] = l], UNCHANGED <<table, unseen, seen, ob>>,
         \A u \in Threads : at'[u] = "search" => cur'[u] = cur[u],
         \A u \in Threads : at'[u] \in Registering => mod'[u] = mod[u]
  PROVE  Linked' = Linked /\ ListInv' /\ ObjectInv'
<1>1. \A u \in Threads : at'[u] = "search" <=> at[u] = "search"
  BY DEF TypeInv
<1>2. Linked' = Linked
  <2>1. {u \in Threads : at'[u] = "search"} = {u \in Threads : at[u] = "search"}
    BY <1>1
  <2>2. {cur'[u] : u \in {w \in Threads : at'[w] = "search"}}
          = {cur[u] : u \in {w \in Threads : at[w] = "search"}}
    BY <1>1, <2>1
  <2> QED
    BY <2>2 DEF Linked, Elements
<1>3. ListInv'
  BY <1>1 DEF ListInv, Elements, Distinct
<1>4. \A u \in Threads : at'[u] \in Registering => at[u] \in Registering
  BY DEF TypeInv
<1>5. ObjectInv'
  BY <1>1, <1>4 DEF ObjectInv, Elements
<1> QED
  BY <1>2, <1>3, <1>5

(* Locking the object mutex keeps the invariant, wherever it is locked.    *)
LEMMA LockKeeps ==
  ASSUME RegistryInv, NEW t \in Threads, RegisterLock(t) \/ DeregisterLock(t) \/ FindLock(t)
  PROVE  RegistryInv' /\ Linked' = Linked
<1> USE DEF RegistryInv
<1>1. /\ mutex = NoThread /\ mutex' = t
      /\ \/ at[t] = "regLock" /\ at' = [at EXCEPT ![t] = "regLink"]
         \/ at[t] = "deregLock" /\ at' = [at EXCEPT ![t] = "deregSearch"]
         \/ at[t] = "findLock" /\ at' = [at EXCEPT ![t] = "seen"]
      /\ UNCHANGED <<table, phase, unseen, seen, ob, mod, pc, cur, f>>
  BY DEF RegisterLock, DeregisterLock, FindLock, LockMutex, Goto, lists, locals
<1>2. Linked' = Linked /\ ListInv' /\ ObjectInv'
  BY <1>1, Quiet DEF Registering
<1>3. TypeInv'
  BY <1>1 DEF TypeInv, RegistryTypeOK, Places, Registering, Leaving, Finding
<1>4. HolderInv'
  BY <1>1, RegistryAssumption DEF HolderInv, Holding, TypeInv
<1>5. WorkInv'
  BY <1>1 DEF WorkInv, TypeInv, Registering, Running, Leaving, Finding
<1>6. LinkInv'
  BY <1>1, <1>2 DEF LinkInv, TypeInv
<1>7. PcInv'
  BY <1>1 DEF PcInv, InModule
<1>8. SearchInv'
  BY <1>1 DEF SearchInv, SearchOK, TypeInv
<1> QED
  BY <1>2, <1>3, <1>4, <1>5, <1>6, <1>7, <1>8

(* A registration unlocks the mutex.                                       *)
LEMMA RegisterUnlockKeeps ==
  ASSUME RegistryInv, NEW t \in Threads, RegisterUnlock(t)
  PROVE  RegistryInv' /\ Linked' = Linked
<1> USE DEF RegistryInv
<1>0. /\ at \in [Threads -> Places]
      /\ mod \in [Threads -> Modules \cup {NoModule}]
      /\ pc \in [Threads -> Pcs \cup {0}]
      /\ cur \in [Threads -> Modules \cup {NoModule}]
      /\ DOMAIN f = Threads
      /\ phase \in [Modules -> {"out", "coming", "in", "leaving"}]
      /\ NoModule \notin Modules /\ NoThread \notin Threads /\ 0 \notin Pcs
  BY TypeFacts
<1>1. /\ at[t] = "regUnlock" /\ at' = [at EXCEPT ![t] = "ctors"]
      /\ mutex' = NoThread /\ phase' = [phase EXCEPT ![mod[t]] = "in"]
      /\ UNCHANGED <<table, unseen, seen, ob, mod, pc, cur, f>>
  BY DEF RegisterUnlock, Goto, lists, locals
<1>2. Linked' = Linked /\ ListInv' /\ ObjectInv'
  <2>1. /\ \A u \in Threads : at'[u] = "search" => cur'[u] = cur[u]
        /\ \A u \in Threads : at'[u] \in Registering => mod'[u] = mod[u]
    BY <1>0, <1>1 DEF Registering
  <2> QED
    BY <1>1, <2>1, Quiet DEF Registering
<1>3. TypeInv'
  BY <1>0, <1>1 DEF TypeInv, RegistryTypeOK, Places, Registering, Running, Leaving, Finding
<1>4. HolderInv'
  BY <1>0, <1>1 DEF HolderInv, Holding
<1>5. WorkInv'
  BY <1>0, <1>1 DEF WorkInv, Registering, Running, Leaving, Finding
<1>6. LinkInv'
  BY <1>0, <1>1, <1>2 DEF LinkInv, WorkInv, Registering, Running, Leaving
<1>7. PcInv'
  BY <1>0, <1>1 DEF PcInv, InModule, WorkInv, Registering
<1>8. SearchInv'
  BY <1>0, <1>1 DEF SearchInv, SearchOK
<1> QED
  BY <1>2, <1>3, <1>4, <1>5, <1>6, <1>7, <1>8

(* The constructors of a module begin to run.                              *)
LEMMA ConstructedKeeps ==
  ASSUME RegistryInv, NEW t \in Threads, Constructed(t)
  PROVE  RegistryInv' /\ Linked' = Linked
<1> USE DEF RegistryInv
<1>0. /\ at \in [Threads -> Places]
      /\ mod \in [Threads -> Modules \cup {NoModule}]
      /\ pc \in [Threads -> Pcs \cup {0}]
      /\ cur \in [Threads -> Modules \cup {NoModule}]
      /\ DOMAIN f = Threads
      /\ phase \in [Modules -> {"out", "coming", "in", "leaving"}]
      /\ NoModule \notin Modules /\ NoThread \notin Threads /\ 0 \notin Pcs
  BY TypeFacts
<1>1. /\ at[t] = "ctors" /\ at' = [at EXCEPT ![t] = "idle"]
      /\ mod' = [mod EXCEPT ![t] = NoModule]
      /\ UNCHANGED <<table, phase, unseen, seen, mutex, ob, pc, cur, f>>
  BY DEF Constructed, Goto, lists, locals
<1>2. Linked' = Linked /\ ListInv' /\ ObjectInv'
  <2>1. /\ \A u \in Threads : at'[u] = "search" => cur'[u] = cur[u]
        /\ \A u \in Threads : at'[u] \in Registering => mod'[u] = mod[u]
    BY <1>0, <1>1 DEF Registering
  <2> QED
    BY <1>1, <2>1, Quiet DEF Registering
<1>3. TypeInv'
  BY <1>0, <1>1 DEF TypeInv, RegistryTypeOK, Places, Registering, Running, Leaving, Finding
<1>4. HolderInv'
  BY <1>0, <1>1 DEF HolderInv, Holding
<1>5. WorkInv'
  BY <1>0, <1>1 DEF WorkInv, Registering, Running, Leaving, Finding
<1>6. LinkInv'
  BY <1>0, <1>1, <1>2 DEF LinkInv, WorkInv, Registering, Running, Leaving
<1>7. PcInv'
  BY <1>0, <1>1 DEF PcInv, InModule, WorkInv, Registering
<1>8. SearchInv'
  BY <1>0, <1>1 DEF SearchInv, SearchOK
<1> QED
  BY <1>2, <1>3, <1>4, <1>5, <1>6, <1>7, <1>8

(* A module begins to leave.                                               *)
LEMMA UnloadKeeps ==
  ASSUME RegistryInv, NEW t \in Threads, NEW m \in Modules, Unload(t, m)
  PROVE  RegistryInv' /\ Linked' = Linked
<1> USE DEF RegistryInv
<1>0. /\ at \in [Threads -> Places]
      /\ mod \in [Threads -> Modules \cup {NoModule}]
      /\ pc \in [Threads -> Pcs \cup {0}]
      /\ cur \in [Threads -> Modules \cup {NoModule}]
      /\ DOMAIN f = Threads
      /\ phase \in [Modules -> {"out", "coming", "in", "leaving"}]
      /\ NoModule \notin Modules /\ NoThread \notin Threads /\ 0 \notin Pcs
  BY TypeFacts
<1>1. /\ at[t] = "idle" /\ at' = [at EXCEPT ![t] = "dtors"]
      /\ phase[m] = "in" /\ \A u \in Threads : mod[u] # m
      /\ mod' = [mod EXCEPT ![t] = m]
      /\ UNCHANGED <<table, phase, unseen, seen, mutex, ob, pc, cur, f>>
  BY DEF Unload, Goto, lists, locals
<1>2. Linked' = Linked /\ ListInv' /\ ObjectInv'
  <2>1. /\ \A u \in Threads : at'[u] = "search" => cur'[u] = cur[u]
        /\ \A u \in Threads : at'[u] \in Registering => mod'[u] = mod[u]
    BY <1>0, <1>1 DEF Registering
  <2> QED
    BY <1>1, <2>1, Quiet DEF Registering
<1>3. TypeInv'
  BY <1>0, <1>1 DEF TypeInv, RegistryTypeOK, Places, Registering, Running, Leaving, Finding
<1>4. HolderInv'
  BY <1>0, <1>1 DEF HolderInv, Holding
<1>5. WorkInv'
  BY <1>0, <1>1 DEF WorkInv, Registering, Running, Leaving, Finding
<1>6. LinkInv'
  BY <1>0, <1>1, <1>2 DEF LinkInv, WorkInv, Registering, Running, Leaving
<1>7. PcInv'
  BY <1>0, <1>1 DEF PcInv, InModule, WorkInv, Registering
<1>8. SearchInv'
  BY <1>0, <1>1 DEF SearchInv, SearchOK
<1> QED
  BY <1>2, <1>3, <1>4, <1>5, <1>6, <1>7, <1>8

(* The destructors of a module have run.                                   *)
LEMMA DestructedKeeps ==
  ASSUME RegistryInv, NEW t \in Threads, Destructed(t)
  PROVE  RegistryInv' /\ Linked' = Linked
<1> USE DEF RegistryInv
<1>0. /\ at \in [Threads -> Places]
      /\ mod \in [Threads -> Modules \cup {NoModule}]
      /\ pc \in [Threads -> Pcs \cup {0}]
      /\ cur \in [Threads -> Modules \cup {NoModule}]
      /\ DOMAIN f = Threads
      /\ phase \in [Modules -> {"out", "coming", "in", "leaving"}]
      /\ NoModule \notin Modules /\ NoThread \notin Threads /\ 0 \notin Pcs
  BY TypeFacts
<1>1. /\ at[t] = "dtors" /\ \A u \in Threads : pc[u] # 0 => ~InModule(mod[t], pc[u])
      /\ \/ /\ table[mod[t]] = <<>> /\ at' = [at EXCEPT ![t] = "idle"]
            /\ phase' = [phase EXCEPT ![mod[t]] = "out"] /\ mod' = [mod EXCEPT ![t] = NoModule]
         \/ /\ table[mod[t]] # <<>> /\ at' = [at EXCEPT ![t] = "deregLock"]
            /\ phase' = [phase EXCEPT ![mod[t]] = "leaving"] /\ mod' = mod
      /\ UNCHANGED <<table, unseen, seen, mutex, ob, pc, cur, f>>
  BY DEF Destructed, Unmap, Goto, lists, locals
<1>2. Linked' = Linked /\ ListInv' /\ ObjectInv'
  <2>1. /\ \A u \in Threads : at'[u] = "search" => cur'[u] = cur[u]
        /\ \A u \in Threads : at'[u] \in Registering => mod'[u] = mod[u]
    BY <1>0, <1>1 DEF Registering
  <2> QED
    BY <1>1, <2>1, Quiet DEF Registering
<1>3. TypeInv'
  <2>1. mod[t] \in Modules
    BY <1>0, <1>1 DEF WorkInv, Finding
  <2>2. /\ phase' \in [Modules -> {"out", "coming", "in", "leaving"}]
        /\ mod' \in [Threads -> Modules \cup {NoModule}]
        /\ at' \in [Threads -> Places]
    BY <1>0, <1>1, <2>1 DEF Places, Leaving
  <2> QED
    BY <1>1, <2>2 DEF TypeInv, RegistryTypeOK
<1>4. HolderInv'
  BY <1>0, <1>1 DEF HolderInv, Holding
<1>5. WorkInv'
  BY <1>0, <1>1 DEF WorkInv, Registering, Running, Leaving, Finding
<1>6. LinkInv'
  <2>1. mod[t] \in Modules /\ phase[mod[t]] = "in"
    BY <1>0, <1>1 DEF WorkInv, Finding, Running
  <2>2. table[mod[t]] # <<>> => mod[t] \in Linked
    BY <2>1 DEF LinkInv
  <2> QED
    BY <1>0, <1>1, <1>2, <2>1, <2>2 DEF LinkInv
<1>7. PcInv'
  BY <1>0, <1>1 DEF PcInv, InModule, WorkInv, Registering
<1>8. SearchInv'
  <2>1. \A u \in Threads : u # t =>
          SearchOK(at'[u], pc'[u], cur'[u], f'[u], table', Elements(seen'))
    BY <1>0, <1>1 DEF SearchInv
  <2>2. SearchOK(at[t], pc[t], cur[t], f[t], table, Elements(seen))
    BY DEF SearchInv
  <2>3. SearchOK(at'[t], pc'[t], cur'[t], f'[t], table', Elements(seen'))
    BY <1>0, <1>1, <2>2 DEF SearchOK
  <2> QED
    BY <2>1, <2>3 DEF SearchInv
<1> QED
  BY <1>2, <1>3, <1>4, <1>5, <1>6, <1>7, <1>8

(* A search begins.                                                        *)
LEMMA FindKeeps ==
  ASSUME RegistryInv, NEW t \in Threads, NEW p \in Pcs, Find(t, p)
  PROVE  RegistryInv' /\ Linked' = Linked
<1> USE DEF RegistryInv
<1>0. /\ at \in [Threads -> Places]
      /\ mod \in [Threads -> Modules \cup {NoModule}]
      /\ pc \in [Threads -> Pcs \cup {0}]
      /\ cur \in [Threads -> Modules \cup {NoModule}]
      /\ DOMAIN f = Threads
      /\ phase \in [Modules -> {"out", "coming", "in", "leaving"}]
      /\ NoModule \notin Modules /\ NoThread \notin Threads /\ 0 \notin Pcs
  BY TypeFacts
<1>1. /\ at[t] = "idle" /\ at' = [at EXCEPT ![t] = "findLock"]
      /\ \A m \in Modules : InModule(m, p) => phase[m] = "in"
      /\ pc' = [pc EXCEPT ![t] = p] /\ p # 0
      /\ UNCHANGED <<table, phase, unseen, seen, mutex, ob, mod, cur, f>>
  BY <1>0 DEF Find, Goto, lists, locals
<1>2. Linked' = Linked /\ ListInv' /\ ObjectInv'
  <2>1. /\ \A u \in Threads : at'[u] = "search" => cur'[u] = cur[u]
        /\ \A u \in Threads : at'[u] \in Registering => mod'[u] = mod[u]
    BY <1>0, <1>1 DEF Registering
  <2> QED
    BY <1>1, <2>1, Quiet DEF Registering
<1>3. TypeInv'
  BY <1>0, <1>1 DEF TypeInv, RegistryTypeOK, Places, Registering, Running, Leaving, Finding
<1>4. HolderInv'
  BY <1>0, <1>1 DEF HolderInv, Holding
<1>5. WorkInv'
  BY <1>0, <1>1 DEF WorkInv, Registering, Running, Leaving, Finding
<1>6. LinkInv'
  BY <1>0, <1>1, <1>2 DEF LinkInv, WorkInv, Registering, Running, Leaving
<1>7. PcInv'
  BY <1>0, <1>1 DEF PcInv, InModule, WorkInv, Registering
<1>8. SearchInv'
  BY <1>0, <1>1 DEF SearchInv, SearchOK
<1> QED
  BY <1>2, <1>3, <1>4, <1>5, <1>6, <1>7, <1>8

(* A search unlocks the mutex.                                             *)
LEMMA FiniKeeps ==
  ASSUME RegistryInv, NEW t \in Threads, Fini(t)
  PROVE  RegistryInv' /\ Linked' = Linked
<1> USE DEF RegistryInv
<1>0. /\ at \in [Threads -> Places]
      /\ mod \in [Threads -> Modules \cup {NoModule}]
      /\ pc \in [Threads -> Pcs \cup {0}]
      /\ cur \in [Threads -> Modules \cup {NoModule}]
      /\ DOMAIN f = Threads
      /\ phase \in [Modules -> {"out", "coming", "in", "leaving"}]
      /\ NoModule \notin Modules /\ NoThread \notin Threads /\ 0 \notin Pcs
  BY TypeFacts
<1>1. /\ at[t] = "fini" /\ mutex' = NoThread
      /\ \/ /\ f[t] # NoFde /\ at' = [at EXCEPT ![t] = "bases"]
            /\ UNCHANGED <<pc, cur, f>>
         \/ /\ f[t] = NoFde /\ at' = [at EXCEPT ![t] = "idle"]
            /\ pc' = [pc EXCEPT ![t] = 0] /\ cur' = [cur EXCEPT ![t] = NoModule]
            /\ f' = [f EXCEPT ![t] = NoFde]
      /\ UNCHANGED <<table, phase, unseen, seen, ob, mod>>
  BY DEF Fini, Leave, Goto, lists, locals
<1>2. Linked' = Linked /\ ListInv' /\ ObjectInv'
  <2>1. /\ \A u \in Threads : at'[u] = "search" => cur'[u] = cur[u]
        /\ \A u \in Threads : at'[u] \in Registering => mod'[u] = mod[u]
    BY <1>0, <1>1 DEF Registering
  <2> QED
    BY <1>1, <2>1, Quiet DEF Registering
<1>3. TypeInv'
  BY <1>0, <1>1 DEF TypeInv, RegistryTypeOK, Places, Registering, Running, Leaving, Finding
<1>4. HolderInv'
  BY <1>0, <1>1 DEF HolderInv, Holding
<1>5. WorkInv'
  BY <1>0, <1>1 DEF WorkInv, Registering, Running, Leaving, Finding
<1>6. LinkInv'
  BY <1>0, <1>1, <1>2 DEF LinkInv, WorkInv, Registering, Running, Leaving
<1>7. PcInv'
  BY <1>0, <1>1 DEF PcInv, InModule, WorkInv, Registering
<1>8. SearchInv'
  <2>1. \A u \in Threads : u # t =>
          SearchOK(at'[u], pc'[u], cur'[u], f'[u], table', Elements(seen'))
    BY <1>0, <1>1 DEF SearchInv
  <2>2. SearchOK(at[t], pc[t], cur[t], f[t], table, Elements(seen))
    BY DEF SearchInv
  <2>3. SearchOK(at'[t], pc'[t], cur'[t], f'[t], table', Elements(seen'))
    BY <1>0, <1>1, <2>2 DEF SearchOK
  <2> QED
    BY <2>1, <2>3 DEF SearchInv
<1> QED
  BY <1>2, <1>3, <1>4, <1>5, <1>6, <1>7, <1>8

(* A search returns.                                                       *)
LEMMA ReturnKeeps ==
  ASSUME RegistryInv, NEW t \in Threads, ReadBases(t)
  PROVE  RegistryInv' /\ Linked' = Linked
<1> USE DEF RegistryInv
<1>0. /\ at \in [Threads -> Places]
      /\ mod \in [Threads -> Modules \cup {NoModule}]
      /\ pc \in [Threads -> Pcs \cup {0}]
      /\ cur \in [Threads -> Modules \cup {NoModule}]
      /\ DOMAIN f = Threads
      /\ phase \in [Modules -> {"out", "coming", "in", "leaving"}]
      /\ NoModule \notin Modules /\ NoThread \notin Threads /\ 0 \notin Pcs
  BY TypeFacts
<1>1. /\ at[t] = "bases" /\ at' = [at EXCEPT ![t] = "idle"]
      /\ pc' = [pc EXCEPT ![t] = 0] /\ cur' = [cur EXCEPT ![t] = NoModule]
      /\ f' = [f EXCEPT ![t] = NoFde]
      /\ UNCHANGED <<table, phase, unseen, seen, mutex, ob, mod>>
  BY DEF ReadBases, Leave, Goto, lists, locals
<1>2. Linked' = Linked /\ ListInv' /\ ObjectInv'
  <2>1. /\ \A u \in Threads : at'[u] = "search" => cur'[u] = cur[u]
        /\ \A u \in Threads : at'[u] \in Registering => mod'[u] = mod[u]
    BY <1>0, <1>1 DEF Registering
  <2> QED
    BY <1>1, <2>1, Quiet DEF Registering
<1>3. TypeInv'
  BY <1>0, <1>1 DEF TypeInv, RegistryTypeOK, Places, Registering, Running, Leaving, Finding
<1>4. HolderInv'
  BY <1>0, <1>1 DEF HolderInv, Holding
<1>5. WorkInv'
  BY <1>0, <1>1 DEF WorkInv, Registering, Running, Leaving, Finding
<1>6. LinkInv'
  BY <1>0, <1>1, <1>2 DEF LinkInv, WorkInv, Registering, Running, Leaving
<1>7. PcInv'
  BY <1>0, <1>1 DEF PcInv, InModule, WorkInv, Registering
<1>8. SearchInv'
  BY <1>0, <1>1 DEF SearchInv, SearchOK
<1> QED
  BY <1>2, <1>3, <1>4, <1>5, <1>6, <1>7, <1>8

\* A module that is out is nobody's.
LEMMA NobodyHas ==
  ASSUME TypeInv, WorkInv, NEW m \in Modules, phase[m] = "out", NEW u \in Threads
  PROVE  mod[u] # m
<1>1. at[u] \in Places /\ NoModule \notin Modules
  BY TypeFacts
<1> QED
  BY <1>1 DEF WorkInv, Places

\* A list holds modules.
LEMMA ElementsTyped ==
  ASSUME NEW s \in Seq(Modules)
  PROVE  Elements(s) \subseteq Modules
  BY DEF Elements

(* A module is loaded.                                                     *)
LEMMA LoadKeeps ==
  ASSUME RegistryInv, NEW t \in Threads, NEW m \in Modules, NEW asTable \in BOOLEAN,
         Load(t, m, asTable)
  PROVE  RegistryInv' /\ Linked' = Linked
<1> USE DEF RegistryInv
<1>0. /\ at \in [Threads -> Places]
      /\ mod \in [Threads -> Modules \cup {NoModule}]
      /\ pc \in [Threads -> Pcs \cup {0}]
      /\ cur \in [Threads -> Modules \cup {NoModule}]
      /\ DOMAIN f = Threads
      /\ phase \in [Modules -> {"out", "coming", "in", "leaving"}]
      /\ table \in Layouts /\ ob \in [Modules -> ObjectType]
      /\ unseen \in Seq(Modules) /\ seen \in Seq(Modules)
      /\ NoModule \notin Modules /\ NoThread \notin Threads /\ Pcs \subseteq 1..MaxPc /\ MaxPc \in Nat
  BY TypeFacts
<1> DEFINE new == [NoObject EXCEPT !.live = 1, !.pc_begin = TopAddress, !.single = m]
<1>1. /\ phase[m] = "out" /\ ob[m].live = 0 /\ at[t] = "idle" /\ mod' = [mod EXCEPT ![t] = m]
      /\ \/ /\ table[m] = <<>> /\ at' = [at EXCEPT ![t] = "ctors"]
            /\ phase' = [phase EXCEPT ![m] = "in"] /\ ob' = ob
         \/ /\ at' = [at EXCEPT ![t] = "regLock"] /\ phase' = [phase EXCEPT ![m] = "coming"]
            /\ ob' = [ob EXCEPT ![m] = new]
      /\ UNCHANGED <<table, unseen, seen, mutex, pc, cur, f>>
  BY DEF Load, Goto, lists
<1>2. \A u \in Threads : mod[u] # m
  BY <1>1, NobodyHas
<1>3. new \in ObjectType /\ Fresh(new, m)
  <2>1. NoObject \in ObjectType /\ NoObject.count = 0 /\ NoObject.sorted = 0
    BY NoObjectTyped
  <2>2. TopAddress \in 0..TopAddress
    BY RegistryAssumption DEF TopAddress
  <2> QED
    BY <2>1, <2>2 DEF ObjectType, Fresh
<1> HIDE DEF new
<1>4. /\ \A u \in Threads : at[u] = "search" => cur[u] # m /\ at'[u] = "search"
      /\ \A u \in Threads : at'[u] = "search" => at[u] = "search"
      /\ m \notin Elements(unseen) /\ m \notin Elements(seen)
  BY <1>0, <1>1 DEF ObjectInv, Fresh, Searched
<1>5. Linked' = Linked /\ m \notin Linked
  <2>1. {cur'[u] : u \in {w \in Threads : at'[w] = "search"}}
          = {cur[u] : u \in {w \in Threads : at[w] = "search"}}
    BY <1>0, <1>1
  <2> QED
    BY <1>1, <1>4, <2>1 DEF Linked
<1>6. TypeInv'
  <2>1. /\ at' \in [Threads -> Places] /\ mod' \in [Threads -> Modules \cup {NoModule}]
        /\ phase' \in [Modules -> {"out", "coming", "in", "leaving"}]
        /\ ob' \in [Modules -> ObjectType]
    BY <1>0, <1>1, <1>3 DEF Places, Registering, Running
  <2> QED
    BY <1>1, <2>1 DEF TypeInv, RegistryTypeOK
<1>7. HolderInv'
  BY <1>0, <1>1 DEF HolderInv, Holding
<1>8. WorkInv'
  BY <1>0, <1>1, <1>2 DEF WorkInv, Registering, Running, Leaving, Finding
<1>9. ListInv'
  BY <1>1, <1>4 DEF ListInv
<1>10. ObjectInv'
  <2>1. /\ \A x \in Elements(unseen) : Fresh(ob'[x], x)
        /\ \A x \in Elements(seen) : Searched(ob'[x], x, table[x])
    BY <1>0, <1>1, <1>4, ElementsTyped DEF ObjectInv
  <2>2. \A u \in Threads : at'[u] = "search" => Fresh(ob'[cur[u]], cur[u])
    BY <1>0, <1>1, <1>4 DEF ObjectInv, ListInv
  <2>3. \A u \in Threads : at'[u] \in Registering => Fresh(ob'[mod'[u]], mod'[u])
    <3> SUFFICES ASSUME NEW u \in Threads, at'[u] \in Registering
                 PROVE  Fresh(ob'[mod'[u]], mod'[u])
      OBVIOUS
    <3>1. CASE u = t
      BY <1>0, <1>1, <1>3, <3>1 DEF Registering
    <3>2. CASE u # t
      <4>1. at[u] \in Registering /\ mod'[u] = mod[u]
        BY <1>0, <1>1, <3>2
      <4>2. mod[u] \in Modules
        <5>1. at[u] \notin {"idle"} \cup Finding
          BY <4>1 DEF Registering, Finding
        <5>2. mod[u] # NoModule
          BY <5>1 DEF WorkInv
        <5> QED
          BY <1>0, <5>2
      <4>3. ob'[mod[u]] = ob[mod[u]]
        BY <1>0, <1>1, <1>2, <4>2
      <4> QED
        BY <4>1, <4>3 DEF ObjectInv
    <3> QED
      BY <3>1, <3>2
  <2> QED
    BY <1>1, <2>1, <2>2, <2>3 DEF ObjectInv
<1>11. LinkInv'
  BY <1>0, <1>1, <1>2, <1>5 DEF LinkInv
<1>12. PcInv'
  BY <1>0, <1>1 DEF PcInv, InModule
<1>13. SearchInv'
  <2>1. \A u \in Threads : u # t =>
          SearchOK(at'[u], pc'[u], cur'[u], f'[u], table', Elements(seen'))
    BY <1>0, <1>1 DEF SearchInv
  <2>2. SearchOK(at[t], pc[t], cur[t], f[t], table, Elements(seen))
    BY DEF SearchInv
  <2>3. SearchOK(at'[t], pc'[t], cur'[t], f'[t], table', Elements(seen'))
    BY <1>0, <1>1, <2>2 DEF SearchOK
  <2> QED
    BY <2>1, <2>3 DEF SearchInv
<1> QED
  BY <1>5, <1>6, <1>7, <1>8, <1>9, <1>10, <1>11, <1>12, <1>13

\* Nobody but t is at a place where the mutex is held.
LEMMA OnlyHolder ==
  ASSUME HolderInv, NEW t \in Threads, at[t] \in Holding
  PROVE  \A u \in Threads : u # t => at[u] \notin Holding
  BY DEF HolderInv

(* An object is linked into unseen_objects.                                *)
LEMMA RegisterLinkKeeps ==
  ASSUME RegistryInv, NEW t \in Threads, RegisterLink(t)
  PROVE  RegistryInv' /\ Linked' = Linked \cup {mod[t]}
<1> USE DEF RegistryInv
<1>0. /\ at \in [Threads -> Places]
      /\ mod \in [Threads -> Modules \cup {NoModule}]
      /\ pc \in [Threads -> Pcs \cup {0}]
      /\ cur \in [Threads -> Modules \cup {NoModule}]
      /\ DOMAIN f = Threads
      /\ phase \in [Modules -> {"out", "coming", "in", "leaving"}]
      /\ table \in Layouts /\ ob \in [Modules -> ObjectType]
      /\ unseen \in Seq(Modules) /\ seen \in Seq(Modules)
      /\ NoModule \notin Modules /\ NoThread \notin Threads /\ Pcs \subseteq 1..MaxPc /\ MaxPc \in Nat
  BY TypeFacts
<1>1. /\ at[t] = "regLink" /\ at' = [at EXCEPT ![t] = "regUnlock"]
      /\ unseen' = <<mod[t]>> \o unseen
      /\ UNCHANGED <<table, phase, seen, mutex, ob, mod, pc, cur, f>>
  BY DEF RegisterLink, Goto, locals
<1>2. \A u \in Threads : u # t => at[u] \notin Holding
  BY <1>1, OnlyHolder DEF Holding
<1>3. /\ mod[t] \in Modules /\ mod[t] \notin Linked
      /\ \A u \in Threads : at[u] # "search" /\ at'[u] # "search"
  BY <1>0, <1>1, <1>2 DEF WorkInv, LinkInv, Finding, Holding
<1>4. mod[t] \notin Elements(unseen) /\ mod[t] \notin Elements(seen)
  BY <1>3 DEF Linked
<1>5. /\ unseen' \in Seq(Modules) /\ Distinct(unseen')
      /\ Elements(unseen') = Elements(unseen) \cup {mod[t]}
  BY <1>0, <1>1, <1>3, <1>4, Prepended DEF ListInv
<1>6. Linked' = Linked \cup {mod[t]}
  BY <1>1, <1>3, <1>5 DEF Linked
<1>7. TypeInv'
  BY <1>0, <1>1, <1>5 DEF TypeInv, RegistryTypeOK, Places, Registering
<1>8. HolderInv'
  BY <1>0, <1>1 DEF HolderInv, Holding
<1>9. WorkInv'
  BY <1>0, <1>1 DEF WorkInv, Registering, Running, Leaving, Finding
<1>10. ListInv'
  BY <1>1, <1>3, <1>4, <1>5 DEF ListInv
<1>11. ObjectInv'
  <2>1. Fresh(ob[mod[t]], mod[t])
    BY <1>1 DEF ObjectInv, Registering
  <2> QED
    BY <1>0, <1>1, <1>3, <1>5, <2>1 DEF ObjectInv, Registering
<1>12. LinkInv'
  BY <1>0, <1>1, <1>3, <1>6 DEF LinkInv, WorkInv, Registering
<1>13. PcInv'
  BY <1>1 DEF PcInv, InModule
<1>14. SearchInv'
  BY <1>0, <1>1 DEF SearchInv, SearchOK
<1> QED
  BY <1>6, <1>7, <1>8, <1>9, <1>10, <1>11, <1>12, <1>13, <1>14

(* An object is freed after it was deregistered.                           *)
LEMMA FreeObjectKeeps ==
  ASSUME RegistryInv, NEW t \in Threads, FreeObject(t)
  PROVE  RegistryInv' /\ Linked' = Linked
<1> USE DEF RegistryInv
<1>0. /\ at \in [Threads -> Places]
      /\ mod \in [Threads -> Modules \cup {NoModule}]
      /\ pc \in [Threads -> Pcs \cup {0}]
      /\ cur \in [Threads -> Modules \cup {NoModule}]
      /\ DOMAIN f = Threads
      /\ phase \in [Modules -> {"out", "coming", "in", "leaving"}]
      /\ table \in Layouts /\ ob \in [Modules -> ObjectType]
      /\ unseen \in Seq(Modules) /\ seen \in Seq(Modules)
      /\ NoModule \notin Modules /\ NoThread \notin Threads /\ Pcs \subseteq 1..MaxPc /\ MaxPc \in Nat
  BY TypeFacts
<1> DEFINE m == mod[t]
<1>1. /\ at[t] = "free" /\ at' = [at EXCEPT ![t] = "idle"]
      /\ ob' = [ob EXCEPT ![m] = NoObject]
      /\ phase' = [phase EXCEPT ![m] = "out"] /\ mod' = [mod EXCEPT ![t] = NoModule]
      /\ UNCHANGED <<table, unseen, seen, mutex, pc, cur, f>>
  BY DEF FreeObject, Unmap, Goto, lists
<1>2. m \in Modules /\ m \notin Linked /\ phase[m] = "leaving"
  <2>1. m \in Modules
    <3>1. at[t] \notin {"idle"} \cup Finding
      BY <1>1 DEF Finding
    <3>2. m # NoModule
      BY <3>1 DEF WorkInv
    <3> QED
      BY <1>0, <3>2
  <2>2. phase[m] = "leaving"
    BY <1>1 DEF WorkInv, Leaving
  <2>3. m \notin Linked
    BY <1>1 DEF LinkInv
  <2> QED
    BY <2>1, <2>2, <2>3
<1>3. \A u \in Threads : u # t => mod[u] # m
  BY <1>0, <1>2 DEF WorkInv
<1>4. NoObject \in ObjectType
  BY NoObjectTyped
<1> HIDE DEF m
<1>5. /\ \A u \in Threads : at'[u] = "search" <=> at[u] = "search"
      /\ m \notin Elements(unseen) /\ m \notin Elements(seen)
      /\ \A u \in Threads : at[u] = "search" => cur[u] # m
  BY <1>0, <1>1, <1>2 DEF Linked
<1>6. Linked' = Linked
  <2>1. {cur'[u] : u \in {w \in Threads : at'[w] = "search"}}
          = {cur[u] : u \in {w \in Threads : at[w] = "search"}}
    BY <1>1, <1>5
  <2> QED
    BY <1>1, <2>1 DEF Linked
<1>7. TypeInv'
  <2>1. /\ at' \in [Threads -> Places] /\ mod' \in [Threads -> Modules \cup {NoModule}]
        /\ phase' \in [Modules -> {"out", "coming", "in", "leaving"}]
        /\ ob' \in [Modules -> ObjectType]
    BY <1>0, <1>1, <1>4 DEF Places
  <2> QED
    BY <1>1, <2>1 DEF TypeInv, RegistryTypeOK
<1>8. HolderInv'
  BY <1>0, <1>1 DEF HolderInv, Holding
<1>9. WorkInv'
  BY <1>0, <1>1, <1>2, <1>3 DEF WorkInv, Registering, Running, Leaving, Finding, m
<1>10. ListInv'
  BY <1>1, <1>5 DEF ListInv
<1>11. ObjectInv'
  <2>1. /\ \A x \in Elements(unseen) : Fresh(ob'[x], x)
        /\ \A x \in Elements(seen) : Searched(ob'[x], x, table[x])
    BY <1>0, <1>1, <1>5, ElementsTyped DEF ObjectInv
  <2>2. \A u \in Threads : at'[u] = "search" => Fresh(ob'[cur[u]], cur[u])
    BY <1>0, <1>1, <1>5 DEF ObjectInv, ListInv
  <2>3. \A u \in Threads : at'[u] \in Registering => Fresh(ob'[mod'[u]], mod'[u])
    BY <1>0, <1>1, <1>3 DEF ObjectInv, Registering
  <2> QED
    BY <1>1, <2>1, <2>2, <2>3 DEF ObjectInv
<1>12. LinkInv'
  BY <1>0, <1>1, <1>2, <1>3, <1>6 DEF LinkInv
<1>13. PcInv'
  BY <1>0, <1>1, <1>2 DEF PcInv, InModule
<1>14. SearchInv'
  BY <1>0, <1>1 DEF SearchInv, SearchOK
<1> QED
  BY <1>6, <1>7, <1>8, <1>9, <1>10, <1>11, <1>12, <1>13, <1>14

(* The object that is looked for is known by its module, unless the module *)
(* was rejected.                                                           *)
LEMMA Keys ==
  ASSUME TypeInv, ObjectInv
  PROVE  /\ \A x \in Elements(unseen) : KeyOf(ob[x]) = x
         /\ \A x \in Elements(seen) : \/ KeyOf(ob[x]) = x
                                      \/ KeyOf(ob[x]) = NoModule /\ Unhandled(table[x])
<1>1. \A x \in Elements(unseen) : KeyOf(ob[x]) = x
  BY DEF ObjectInv, Fresh, KeyOf
<1>2. \A x \in Elements(seen) : \/ KeyOf(ob[x]) = x
                                \/ KeyOf(ob[x]) = NoModule /\ Unhandled(table[x])
  BY DEF ObjectInv, Searched, KeyOf
<1> QED
  BY <1>1, <1>2

\* What DeregisterSearch does.
LEMMA DeregisterCases ==
  ASSUME RegistryInv, NEW t \in Threads, DeregisterSearch(t)
  PROVE  /\ at[t] = "deregSearch" /\ mutex' = NoThread
         /\ UNCHANGED <<table, phase, ob, mod, pc, cur, f>>
         /\ mod[t] \in Modules
         /\ unseen' \in Seq(Modules) /\ seen' \in Seq(Modules)
         /\ Distinct(unseen') /\ Distinct(seen')
         /\ \A i, j \in DOMAIN seen' : i < j => Bottom(table[seen'[i]]) >= Bottom(table[seen'[j]])
         /\ \/ /\ at' = [at EXCEPT ![t] = "free"]
               /\ Elements(unseen') = Elements(unseen) \ {mod[t]}
               /\ Elements(seen') = Elements(seen) \ {mod[t]}
            \/ /\ at' = [at EXCEPT ![t] = "abort"]
               /\ UNCHANGED <<unseen, seen>>
               /\ Unhandled(table[mod[t]])
<1> USE DEF RegistryInv
<1>0. /\ at \in [Threads -> Places]
      /\ mod \in [Threads -> Modules \cup {NoModule}]
      /\ pc \in [Threads -> Pcs \cup {0}]
      /\ cur \in [Threads -> Modules \cup {NoModule}]
      /\ DOMAIN f = Threads
      /\ phase \in [Modules -> {"out", "coming", "in", "leaving"}]
      /\ table \in Layouts /\ ob \in [Modules -> ObjectType]
      /\ unseen \in Seq(Modules) /\ seen \in Seq(Modules)
      /\ NoModule \notin Modules /\ NoThread \notin Threads /\ Pcs \subseteq 1..MaxPc /\ MaxPc \in Nat
  BY TypeFacts
<1> DEFINE m == mod[t]
           Is(x) == KeyOf(ob[x]) = m
<1>1. /\ at[t] = "deregSearch" /\ mutex' = NoThread
      /\ UNCHANGED <<table, phase, ob, mod, pc, cur, f>>
      /\ \/ /\ \E x \in Elements(unseen) : Is(x)
            /\ unseen' = Unlinked(unseen, m) /\ seen' = seen
            /\ at' = [at EXCEPT ![t] = "free"]
         \/ /\ \E x \in Elements(seen) : Is(x)
            /\ seen' = Unlinked(seen, m) /\ unseen' = unseen
            /\ at' = [at EXCEPT ![t] = "free"]
         \/ /\ \A x \in Elements(unseen) \cup Elements(seen) : ~Is(x)
            /\ at' = [at EXCEPT ![t] = "abort"]
            /\ unseen' = unseen /\ seen' = seen
  BY DEF DeregisterSearch, Goto, locals
<1>2. m \in Modules /\ m \in Linked
  <2>1. at[t] \notin {"idle"} \cup Finding
    BY <1>1 DEF Finding
  <2>2. m # NoModule
    BY <2>1 DEF WorkInv
  <2> QED
    BY <1>0, <1>1, <2>2 DEF LinkInv
<1>3. \A u \in Threads : at[u] # "search"
  BY <1>1, OnlyHolder DEF Holding
<1>4. m \in Elements(unseen) \cup Elements(seen)
  BY <1>2, <1>3 DEF Linked
<1>5. /\ \A x \in Elements(unseen) : Is(x) <=> x = m
      /\ \A x \in Elements(seen) : Is(x) => x = m
      /\ m \in Elements(seen) /\ ~Is(m) => Unhandled(table[m])
  BY <1>0, <1>2, Keys
<1>6. Elements(unseen) \cap Elements(seen) = {} /\ Distinct(unseen) /\ Distinct(seen)
      /\ \A i, j \in DOMAIN seen : i < j => Bottom(table[seen[i]]) >= Bottom(table[seen[j]])
  BY DEF ListInv
<1> HIDE DEF m
<1>7. CASE /\ \E x \in Elements(unseen) : Is(x)
           /\ unseen' = Unlinked(unseen, m) /\ seen' = seen
           /\ at' = [at EXCEPT ![t] = "free"]
  <2>1. m \in Elements(unseen) /\ m \notin Elements(seen)
    BY <1>5, <1>6, <1>7
  <2>2. /\ unseen' \in Seq(Modules) /\ Distinct(unseen')
        /\ Elements(unseen') = Elements(unseen) \ {m}
    BY <1>0, <1>5, <1>6, <1>7, <2>1, UnlinkedFacts
  <2> QED
    BY <1>0, <1>1, <1>2, <1>6, <1>7, <2>1, <2>2 DEF m
<1>8. CASE /\ \E x \in Elements(seen) : Is(x)
           /\ seen' = Unlinked(seen, m) /\ unseen' = unseen
           /\ at' = [at EXCEPT ![t] = "free"]
  <2>1. m \in Elements(seen) /\ m \notin Elements(unseen)
    BY <1>5, <1>6, <1>8
  <2>2. \A x \in Elements(seen) : Is(x) <=> x = m
    BY <1>5, <1>8
  <2>3. /\ seen' \in Seq(Modules) /\ Distinct(seen')
        /\ Elements(seen') = Elements(seen) \ {m}
        /\ \A i, j \in DOMAIN seen' : i < j =>
             \E k, l \in DOMAIN seen : k < l /\ seen'[i] = seen[k] /\ seen'[j] = seen[l]
    BY <1>0, <1>6, <1>8, <2>1, <2>2, UnlinkedFacts
  <2>4. \A i, j \in DOMAIN seen' : i < j => Bottom(table[seen'[i]]) >= Bottom(table[seen'[j]])
    BY <1>6, <2>3
  <2> QED
    BY <1>0, <1>1, <1>2, <1>6, <1>8, <2>1, <2>3, <2>4 DEF m
<1>9. CASE /\ \A x \in Elements(unseen) \cup Elements(seen) : ~Is(x)
           /\ at' = [at EXCEPT ![t] = "abort"]
           /\ unseen' = unseen /\ seen' = seen
  <2>1. Unhandled(table[m])
    BY <1>4, <1>5, <1>9
  <2> QED
    BY <1>0, <1>1, <1>2, <1>6, <1>9, <2>1 DEF m
<1> QED
  BY <1>1, <1>7, <1>8, <1>9

(* An object is looked for in both lists and unlinked.                     *)
LEMMA DeregisterSearchKeeps ==
  ASSUME RegistryInv, NEW t \in Threads, DeregisterSearch(t)
  PROVE  /\ RegistryInv'
         /\ \/ at' = [at EXCEPT ![t] = "free"] /\ Linked' = Linked \ {mod[t]}
            \/ at' = [at EXCEPT ![t] = "abort"] /\ Linked' = Linked
<1> USE DEF RegistryInv
<1>0. /\ at \in [Threads -> Places]
      /\ mod \in [Threads -> Modules \cup {NoModule}]
      /\ pc \in [Threads -> Pcs \cup {0}]
      /\ cur \in [Threads -> Modules \cup {NoModule}]
      /\ DOMAIN f = Threads
      /\ phase \in [Modules -> {"out", "coming", "in", "leaving"}]
      /\ table \in Layouts /\ ob \in [Modules -> ObjectType]
      /\ unseen \in Seq(Modules) /\ seen \in Seq(Modules)
      /\ NoModule \notin Modules /\ NoThread \notin Threads /\ Pcs \subseteq 1..MaxPc /\ MaxPc \in Nat
  BY TypeFacts
<1> DEFINE m == mod[t]
<1>1. /\ at[t] = "deregSearch" /\ mutex' = NoThread
      /\ UNCHANGED <<table, phase, ob, mod, pc, cur, f>>
      /\ m \in Modules
      /\ unseen' \in Seq(Modules) /\ seen' \in Seq(Modules)
      /\ Distinct(unseen') /\ Distinct(seen')
      /\ \A i, j \in DOMAIN seen' : i < j => Bottom(table[seen'[i]]) >= Bottom(table[seen'[j]])
      /\ \/ /\ at' = [at EXCEPT ![t] = "free"]
            /\ Elements(unseen') = Elements(unseen) \ {m}
            /\ Elements(seen') = Elements(seen) \ {m}
         \/ /\ at' = [at EXCEPT ![t] = "abort"]
            /\ Elements(unseen') = Elements(unseen)
            /\ Elements(seen') = Elements(seen)
            /\ Unhandled(table[m])
  BY DeregisterCases
<1>2. \A u \in Threads : u # t => at[u] \notin Holding
  BY <1>1, OnlyHolder DEF Holding
<1>3. \A u \in Threads : at[u] # "search" /\ at'[u] # "search"
  BY <1>0, <1>1, <1>2 DEF Holding
<1>4. \A u \in Threads : u # t => mod[u] # m
  BY <1>0, <1>1 DEF WorkInv
<1>5. /\ Linked = Elements(unseen) \cup Elements(seen)
      /\ Linked' = Elements(unseen') \cup Elements(seen')
  BY <1>3 DEF Linked
<1>6. phase[m] = "leaving"
  BY <1>1 DEF WorkInv, Leaving
<1> HIDE DEF m
<1>7. TypeInv'
  BY <1>0, <1>1 DEF TypeInv, RegistryTypeOK, Places, Leaving
<1>8. HolderInv'
  BY <1>0, <1>1, <1>2 DEF HolderInv, Holding
<1>9. WorkInv'
  BY <1>0, <1>1 DEF WorkInv, Registering, Running, Leaving, Finding
<1>10. ListInv'
  BY <1>1, <1>3 DEF ListInv
<1>11. ObjectInv'
  BY <1>0, <1>1, <1>3 DEF ObjectInv, Registering
<1>12. LinkInv'
  <2>1. CASE at' = [at EXCEPT ![t] = "free"]
    <3>1. Linked' = Linked \ {m}
      BY <1>0, <1>1, <1>5, <2>1
    <3>2. \A x \in Modules : table[x] # <<>> =>
             /\ phase[x] = "in" => x \in Linked'
             /\ phase[x] = "out" => x \notin Linked'
      BY <1>6, <3>1 DEF LinkInv
    <3>3. ASSUME NEW u \in Threads
          PROVE  /\ at'[u] \in {"regUnlock", "deregLock", "deregSearch"} => mod[u] \in Linked'
                 /\ at'[u] \in {"regLock", "regLink", "free"} => mod[u] \notin Linked'
                 /\ at'[u] = "abort" => Unhandled(table[mod[u]])
      <4>1. CASE u = t
        BY <1>0, <2>1, <3>1, <4>1 DEF m
      <4>2. CASE u # t
        BY <1>0, <1>4, <2>1, <3>1, <4>2 DEF LinkInv
      <4> QED
        BY <4>1, <4>2
    <3> QED
      BY <1>1, <3>2, <3>3 DEF LinkInv
  <2>2. CASE at' = [at EXCEPT ![t] = "abort"]
    BY <1>0, <1>1, <1>5, <2>2 DEF LinkInv, m
  <2> QED
    BY <1>1, <2>1, <2>2
<1>13. PcInv'
  BY <1>1 DEF PcInv, InModule
<1>14. SearchInv'
  BY <1>0, <1>1, <1>2 DEF SearchInv, SearchOK, Holding
<1>15. \/ at' = [at EXCEPT ![t] = "free"] /\ Linked' = Linked \ {mod[t]}
       \/ at' = [at EXCEPT ![t] = "abort"] /\ Linked' = Linked
  BY <1>1, <1>5 DEF m
<1> QED
  BY <1>15, <1>7, <1>8, <1>9, <1>10, <1>11, <1>12, <1>13, <1>14

(* A search takes the next unseen object and initialises it.               *)
LEMMA TakeUnseenKeeps ==
  ASSUME RegistryInv, NEW t \in Threads, TakeUnseen(t)
  PROVE  RegistryInv' /\ Linked' = Linked
<1> USE DEF RegistryInv
<1>0. /\ at \in [Threads -> Places]
      /\ mod \in [Threads -> Modules \cup {NoModule}]
      /\ pc \in [Threads -> Pcs \cup {0}]
      /\ cur \in [Threads -> Modules \cup {NoModule}]
      /\ DOMAIN f = Threads
      /\ phase \in [Modules -> {"out", "coming", "in", "leaving"}]
      /\ table \in Layouts /\ ob \in [Modules -> ObjectType]
      /\ unseen \in Seq(Modules) /\ seen \in Seq(Modules)
      /\ NoModule \notin Modules /\ NoThread \notin Threads /\ Pcs \subseteq 1..MaxPc /\ MaxPc \in Nat
  BY TypeFacts
<1>1. /\ at[t] = "unseen"
      /\ \/ /\ unseen = <<>> /\ at' = [at EXCEPT ![t] = "fini"]
            /\ unseen' = unseen /\ cur' = cur
         \/ /\ unseen # <<>> /\ at' = [at EXCEPT ![t] = "search"]
            /\ unseen' = Tail(unseen) /\ cur' = [cur EXCEPT ![t] = Head(unseen)]
      /\ UNCHANGED <<table, phase, seen, mutex, ob, mod, pc, f>>
  BY DEF TakeUnseen, Goto
<1>2. \A u \in Threads : u # t => at[u] \notin Holding
  BY <1>1, OnlyHolder DEF Holding
<1>3. \A u \in Threads : at[u] # "search"
  BY <1>1, <1>2 DEF Holding
<1>4. Linked = Elements(unseen) \cup Elements(seen)
  BY <1>3 DEF Linked
<1>5. unseen # <<>> => /\ Tail(unseen) \in Seq(Modules) /\ Distinct(Tail(unseen))
                       /\ Head(unseen) \in Elements(unseen) /\ Head(unseen) \in Modules
                       /\ Elements(Tail(unseen)) = Elements(unseen) \ {Head(unseen)}
  BY <1>0, Taken DEF ListInv
<1>6. Linked' = Linked
  <2>1. CASE at' = [at EXCEPT ![t] = "fini"]
    <3>1. \A u \in Threads : at'[u] # "search"
      BY <1>0, <1>3, <2>1
    <3>2. unseen' = unseen
      BY <1>0, <1>1, <2>1
    <3> QED
      BY <1>1, <1>4, <3>1, <3>2 DEF Linked
  <2>2. CASE /\ unseen # <<>> /\ at' = [at EXCEPT ![t] = "search"]
             /\ unseen' = Tail(unseen) /\ cur' = [cur EXCEPT ![t] = Head(unseen)]
    <3>1. {u \in Threads : at'[u] = "search"} = {t}
      BY <1>0, <1>3, <2>2
    <3>2. cur'[t] = Head(unseen)
      BY <1>0, <2>2
    <3>3. Linked' = Elements(unseen') \cup Elements(seen') \cup {cur'[t]}
      BY <3>1 DEF Linked
    <3> QED
      BY <1>1, <1>4, <1>5, <2>2, <3>2, <3>3
  <2> QED
    BY <1>1, <2>1, <2>2
<1>7. TypeInv'
  <2>1. /\ at' \in [Threads -> Places] /\ unseen' \in Seq(Modules)
        /\ cur' \in [Threads -> Modules \cup {NoModule}]
    <3>1. {"fini", "search"} \subseteq Places
      BY DEF Places, Finding
    <3>2. at' \in [Threads -> Places]
      BY <1>0, <1>1, <3>1
    <3>3. unseen' \in Seq(Modules)
      BY <1>0, <1>1, <1>5
    <3>4. cur' \in [Threads -> Modules \cup {NoModule}]
      BY <1>0, <1>1, <1>5
    <3> QED
      BY <3>2, <3>3, <3>4
  <2> QED
    BY <1>1, <2>1 DEF TypeInv, RegistryTypeOK
<1>8. HolderInv'
  BY <1>0, <1>1 DEF HolderInv, Holding
<1>9. WorkInv'
  BY <1>0, <1>1 DEF WorkInv, Registering, Running, Leaving, Finding
<1>10. ListInv'
  BY <1>0, <1>1, <1>3, <1>5 DEF ListInv
<1>11. ObjectInv'
  BY <1>0, <1>1, <1>3, <1>5 DEF ObjectInv, Registering
<1>12. LinkInv'
  BY <1>0, <1>1, <1>6 DEF LinkInv
<1>13. PcInv'
  BY <1>1 DEF PcInv, InModule
<1>14. SearchInv'
  <2>1. \A u \in Threads : u # t =>
          SearchOK(at'[u], pc'[u], cur'[u], f'[u], table', Elements(seen'))
    BY <1>0, <1>1 DEF SearchInv
  <2>2. SearchOK(at[t], pc[t], cur[t], f[t], table, Elements(seen))
    BY DEF SearchInv
  <2>3. SearchOK(at'[t], pc'[t], cur'[t], f'[t], table', Elements(seen'))
    BY <1>0, <1>1, <2>2 DEF SearchOK
  <2> QED
    BY <2>1, <2>3 DEF SearchInv
<1> QED
  BY <1>6, <1>7, <1>8, <1>9, <1>10, <1>11, <1>12, <1>13, <1>14

(* Only the first object of the list seen that starts at or below p can    *)
(* have an FDE for p: the others start below it, and modules are apart.    *)
LEMMA FirstCandidate ==
  ASSUME table \in Layouts, seen \in Seq(Modules), NEW p \in 1..MaxPc,
         \A i, j \in DOMAIN seen : i < j => Bottom(table[seen[i]]) >= Bottom(table[seen[j]]),
         NEW k \in DOMAIN seen, Bottom(table[seen[k]]) <= p,
         \A i \in DOMAIN seen : Bottom(table[seen[i]]) <= p => k <= i,
         NEW j \in DOMAIN seen, ~Unhandled(table[seen[j]]), Hits(table[seen[j]], p) # {}
  PROVE  seen[j] = seen[k]
<1> DEFINE m == seen[k]
           n == seen[j]
           b == Bottom(table[m])
<1>1. m \in Modules /\ n \in Modules /\ MaxPc \in Nat /\ TopAddress = MaxPc + 1
  BY RegistryAssumption DEF TopAddress
<1>2. PICK h \in Hits(table[n], p) : TRUE
  OBVIOUS
<1>3. /\ h \in Present(table[n]) /\ p < table[n][h].begin + table[n][h].range
      /\ table[n][h].begin \in Nat /\ table[n][h].range \in Nat
  BY <1>1, <1>2, TableFacts DEF Hits, Covers, Present
<1>4. /\ b \in 1..TopAddress /\ Bottom(table[n]) \in 1..TopAddress
      /\ b # TopAddress => \E i \in Present(table[m]) : b = table[m][i].begin
      /\ Bottom(table[n]) # TopAddress =>
           \E i \in Present(table[n]) : Bottom(table[n]) = table[n][i].begin
  BY <1>1, LowFacts
<1>5. Bottom(table[n]) <= p
  BY <1>1, <1>2, HitFacts
<1>6. Bottom(table[n]) <= b
  <2>1. k <= j
    BY <1>5
  <2>2. k = j \/ k < j
    BY <2>1
  <2> QED
    BY <1>1, <1>4, <2>2
<1> HIDE DEF m, n, b
<1>7. b <= p
  BY DEF b, m
<1>8. b \in 1..MaxPc /\ b # TopAddress /\ Bottom(table[n]) # TopAddress
  BY <1>1, <1>4, <1>5, <1>7
<1>9. PICK i \in Present(table[m]) : b = table[m][i].begin
  BY <1>4, <1>8
<1>10. PICK l \in Present(table[n]) : Bottom(table[n]) = table[n][l].begin
  BY <1>4, <1>8
<1>11. Spans(table[m], b)
  <2>1. table[m][i].range \in Nat \ {0}
    BY <1>1, <1>9, TableFacts DEF Present
  <2>2. b <= b /\ b < b + table[m][i].range
    BY <1>8, <2>1
  <2> QED
    BY <1>9, <2>2 DEF Spans
<1>12. Spans(table[n], b)
  <2>1. b < table[n][h].begin + table[n][h].range
    BY <1>3, <1>7, <1>8
  <2>2. table[n][l].begin <= b
    BY <1>6, <1>10
  <2> QED
    BY <1>3, <1>10, <2>1, <2>2 DEF Spans
<1>13. m = n
  BY <1>1, <1>8, <1>11, <1>12, ModulesApart
<1> QED
  BY <1>13 DEF m, n

(* A search goes through the seen objects.                                 *)
LEMMA SearchSeenKeeps ==
  ASSUME RegistryInv, NEW t \in Threads, SearchSeen(t)
  PROVE  /\ RegistryInv' /\ Linked' = Linked
         /\ at'[t] \in {"unseen", "fini"}
         /\ at'[t] = "fini" => f'[t] # NoFde /\ cur'[t] \in Elements(seen)
         /\ \A u \in Threads : u # t => at'[u] = at[u] /\ f'[u] = f[u]
<1> USE DEF RegistryInv
<1>0. /\ at \in [Threads -> Places]
      /\ mod \in [Threads -> Modules \cup {NoModule}]
      /\ pc \in [Threads -> Pcs \cup {0}]
      /\ cur \in [Threads -> Modules \cup {NoModule}]
      /\ DOMAIN f = Threads
      /\ phase \in [Modules -> {"out", "coming", "in", "leaving"}]
      /\ table \in Layouts /\ ob \in [Modules -> ObjectType]
      /\ unseen \in Seq(Modules) /\ seen \in Seq(Modules)
      /\ NoModule \notin Modules /\ NoThread \notin Threads /\ Pcs \subseteq 1..MaxPc /\ MaxPc \in Nat
  BY TypeFacts
<1> DEFINE p == pc[t]
           C == Candidates(p)
<1>1. at[t] = "seen" /\ UNCHANGED <<table, phase, unseen, seen, mutex, mod, pc>>
  BY DEF SearchSeen, lists
<1>2. \A u \in Threads : u # t => at[u] \notin Holding
  BY <1>1, OnlyHolder DEF Holding
<1>3. p \in 1..MaxPc
  <2>1. at[t] \in Finding
    BY <1>1 DEF Finding
  <2>2. p # 0
    BY <2>1 DEF WorkInv
  <2> QED
    BY <1>0, <2>2
<1>4. /\ \A i \in DOMAIN seen : seen[i] \in Elements(seen) /\ seen[i] \in Modules
      /\ \A x \in Elements(seen) : \E i \in DOMAIN seen : x = seen[i]
  BY <1>0 DEF Elements
<1>5. \A i \in DOMAIN seen : /\ Bottom(table[seen[i]]) \in Nat
                             /\ ob[seen[i]].pc_begin = Bottom(table[seen[i]])
  BY <1>0, <1>4, LowFacts, RegistryAssumption DEF ObjectInv, Searched, TopAddress
<1>6. C \subseteq DOMAIN seen /\ \A i \in DOMAIN seen : i \in C <=> Bottom(table[seen[i]]) <= p
  BY <1>3, <1>5 DEF Candidates
<1>7. /\ at' \in [Threads -> Places] /\ cur' \in [Threads -> Modules \cup {NoModule}]
      /\ ob' \in [Modules -> ObjectType] /\ DOMAIN f' = Threads
      /\ \A x \in Modules : x \notin Elements(seen) => ob'[x] = ob[x]
      /\ \A x \in Elements(seen) : Searched(ob'[x], x, table[x])
      /\ \A u \in Threads : u # t => at'[u] = at[u] /\ cur'[u] = cur[u] /\ f'[u] = f[u]
      /\ at'[t] \in {"unseen", "fini"}
      /\ at'[t] = "fini" => f'[t] # NoFde /\ cur'[t] \in Elements(seen)
      /\ SearchOK(at'[t], p, cur'[t], f'[t], table, Elements(seen))
  <2> HIDE DEF p, C
  <2>1. CASE /\ C = {} /\ at' = [at EXCEPT ![t] = "unseen"] /\ UNCHANGED <<ob, cur, f>>
    <3>1. \A x \in Elements(seen) : Unhandled(table[x]) \/ Hits(table[x], p) = {}
      <4> SUFFICES ASSUME NEW x \in Elements(seen), ~Unhandled(table[x]), Hits(table[x], p) # {}
                   PROVE  FALSE
        OBVIOUS
      <4>1. PICK i \in DOMAIN seen : x = seen[i]
        BY <1>4
      <4>2. PICK h \in Hits(table[x], p) : TRUE
        OBVIOUS
      <4>3. Bottom(table[x]) <= p
        BY <1>0, <1>3, <1>4, <4>1, <4>2, HitFacts
      <4> QED
        BY <1>6, <2>1, <4>1, <4>3
    <3>2. SearchOK(at[t], p, cur[t], f[t], table, Elements(seen))
      BY DEF SearchInv, p
    <3>3. SearchOK(at'[t], p, cur'[t], f'[t], table, Elements(seen))
      BY <1>0, <1>1, <2>1, <3>1, <3>2 DEF SearchOK
    <3> QED
      BY <1>0, <2>1, <3>3 DEF Places, Finding, ObjectInv
  <2>2. ASSUME C # {}, NEW mem \in Memory, NEW m, NEW s,
               m = seen[Lowermost(C)], s = search_object(ob[m], p, mem),
               ob' = [ob EXCEPT ![m] = s.object], cur' = [cur EXCEPT ![t] = m],
               f' = [f EXCEPT ![t] = s.fde],
               at' = [at EXCEPT ![t] = IF s.fde # NoFde THEN "fini" ELSE "unseen"]
        PROVE  /\ at' \in [Threads -> Places] /\ cur' \in [Threads -> Modules \cup {NoModule}]
               /\ ob' \in [Modules -> ObjectType] /\ DOMAIN f' = Threads
               /\ \A x \in Modules : x \notin Elements(seen) => ob'[x] = ob[x]
               /\ \A x \in Elements(seen) : Searched(ob'[x], x, table[x])
               /\ \A u \in Threads : u # t => at'[u] = at[u] /\ cur'[u] = cur[u] /\ f'[u] = f[u]
               /\ at'[t] \in {"unseen", "fini"}
               /\ at'[t] = "fini" => f'[t] # NoFde /\ cur'[t] \in Elements(seen)
               /\ SearchOK(at'[t], p, cur'[t], f'[t], table, Elements(seen))
    <3> DEFINE k == Lowermost(C)
    <3>1. k \in C /\ \A i \in C : k <= i
      <4>1. C \subseteq Nat
        BY <1>0, <1>6
      <4> QED
        BY <2>2, <4>1, LowermostIsLeast
    <3>2. k \in DOMAIN seen /\ m = seen[k] /\ m \in Modules /\ m \in Elements(seen)
      BY <1>4, <1>6, <2>2, <3>1
    <3> HIDE DEF k
    <3>3. ob[m] \in ObjectType /\ Searched(ob[m], m, table[m])
      BY <1>0, <3>2 DEF ObjectInv
    <3>4. /\ s.object \in ObjectType /\ Searched(s.object, m, table[m])
          /\ RightAnswer(table[m], p, s.fde)
      BY <1>0, <1>3, <2>2, <3>2, <3>3, SearchObject
    <3>5. /\ at'[t] = IF s.fde # NoFde THEN "fini" ELSE "unseen"
          /\ cur'[t] = m /\ f'[t] = s.fde
      BY <1>0, <2>2
    <3>6. SearchOK(at'[t], p, cur'[t], f'[t], table, Elements(seen))
      <4>1. CASE s.fde # NoFde
        <5>1. ~Unhandled(table[m]) /\ \E i \in Hits(table[m], p) : s.fde = table[m][i]
          BY <3>4, <4>1 DEF RightAnswer
        <5>2. Spans(table[m], p)
          BY <1>0, <1>3, <3>2, <5>1, HitFacts DEF InModule
        <5> QED
          BY <3>2, <3>5, <4>1, <5>1, <5>2 DEF SearchOK
      <4>2. CASE s.fde = NoFde
        <5>1. Unhandled(table[m]) \/ Hits(table[m], p) = {}
          <6>1. ~Unhandled(table[m]) => \A i \in Hits(table[m], p) : table[m][i] # NoFde
            BY <1>0, <1>3, <3>2, HitFacts
          <6> QED
            BY <3>4, <4>2, <6>1 DEF RightAnswer
        <5>2. \A x \in Elements(seen) : Unhandled(table[x]) \/ Hits(table[x], p) = {}
          <6> SUFFICES ASSUME NEW x \in Elements(seen), ~Unhandled(table[x]), Hits(table[x], p) # {}
                       PROVE  FALSE
            OBVIOUS
          <6>1. PICK j \in DOMAIN seen : x = seen[j]
            BY <1>4
          <6>2. x = m
            <7>1. \A i, l \in DOMAIN seen : i < l => Bottom(table[seen[i]]) >= Bottom(table[seen[l]])
              BY DEF ListInv
            <7>2. Bottom(table[seen[k]]) <= p /\ \A i \in DOMAIN seen : Bottom(table[seen[i]]) <= p => k <= i
              BY <1>6, <3>1, <3>2
            <7> QED
              BY <1>0, <1>3, <3>2, <6>1, <7>1, <7>2, FirstCandidate
          <6> QED
            BY <5>1, <6>2
        <5> QED
          BY <3>5, <4>2, <5>2 DEF SearchOK
      <4> QED
        BY <4>1, <4>2
    <3>7. /\ at' \in [Threads -> Places] /\ cur' \in [Threads -> Modules \cup {NoModule}]
          /\ ob' \in [Modules -> ObjectType] /\ DOMAIN f' = Threads
          /\ \A u \in Threads : u # t => at'[u] = at[u] /\ cur'[u] = cur[u] /\ f'[u] = f[u]
      BY <1>0, <2>2, <3>2, <3>4 DEF Places, Finding
    <3>8. /\ \A x \in Modules : x \notin Elements(seen) => ob'[x] = ob[x]
          /\ \A x \in Elements(seen) : Searched(ob'[x], x, table[x])
      BY <1>0, <2>2, <3>2, <3>4, ElementsTyped DEF ObjectInv
    <3> QED
      BY <3>2, <3>5, <3>6, <3>7, <3>8
  <2> QED
    BY <2>1, <2>2 DEF SearchSeen, Goto, C, p
<1> HIDE DEF p, C
<1>8. \A u \in Threads : at[u] # "search" /\ at'[u] # "search"
  BY <1>1, <1>2, <1>7 DEF Holding
<1>9. Linked' = Linked
  BY <1>1, <1>8 DEF Linked
<1>10. TypeInv'
  BY <1>1, <1>7 DEF TypeInv, RegistryTypeOK
<1>11. HolderInv'
  BY <1>1, <1>7 DEF HolderInv, Holding
<1>12. WorkInv'
  BY <1>0, <1>1, <1>7 DEF WorkInv, Registering, Running, Leaving, Finding
<1>13. ListInv'
  BY <1>1, <1>8 DEF ListInv
<1>14. ObjectInv'
  <2>1. \A x \in Elements(unseen) : Fresh(ob'[x], x)
    <3>1. Elements(unseen) \cap Elements(seen) = {} /\ Elements(unseen) \subseteq Modules
      BY <1>0, ElementsTyped DEF ListInv
    <3> QED
      BY <1>7, <3>1 DEF ObjectInv
  <2>2. \A u \in Threads : at'[u] \in Registering => Fresh(ob'[mod[u]], mod[u])
    <3> SUFFICES ASSUME NEW u \in Threads, at'[u] \in Registering
                 PROVE  Fresh(ob'[mod[u]], mod[u])
      OBVIOUS
    <3>1. u # t /\ at[u] \in Registering
      BY <1>7 DEF Registering
    <3>2. mod[u] \in Modules /\ at[u] = "regLock"
      BY <1>0, <1>2, <3>1 DEF WorkInv, Registering, Finding, Holding
    <3>3. mod[u] \notin Elements(seen)
      BY <3>2 DEF LinkInv, Linked
    <3> QED
      BY <1>7, <3>1, <3>2, <3>3 DEF ObjectInv
  <2> QED
    BY <1>1, <1>7, <1>8, <2>1, <2>2 DEF ObjectInv
<1>15. LinkInv'
  <2>1. \A u \in Threads : at'[u] \in {"regUnlock", "deregLock", "deregSearch", "regLock", "regLink", "free", "abort"}
           => at'[u] = at[u]
    BY <1>7
  <2> QED
    BY <1>1, <1>9, <2>1 DEF LinkInv
<1>16. PcInv'
  BY <1>1 DEF PcInv, InModule
<1>17. SearchInv'
  BY <1>1, <1>7 DEF SearchInv, p
<1> QED
  BY <1>7, <1>9, <1>10, <1>11, <1>12, <1>13, <1>14, <1>15, <1>16, <1>17

\* What SearchUnseen does.
LEMMA SearchUnseenCases ==
  ASSUME RegistryInv, NEW t \in Threads, SearchUnseen(t)
  PROVE  LET m == cur[t]
         IN  /\ at[t] = "search" /\ m \in Modules /\ pc[t] \in 1..MaxPc
             /\ UNCHANGED <<table, phase, unseen, mutex, mod, pc, cur>>
             /\ seen' \in Seq(Modules) /\ Distinct(seen')
             /\ Elements(seen') = Elements(seen) \cup {m}
             /\ \A i, j \in DOMAIN seen' : i < j => Bottom(table[seen'[i]]) >= Bottom(table[seen'[j]])
             /\ \E o, x : /\ ob' = [ob EXCEPT ![m] = o] /\ f' = [f EXCEPT ![t] = x]
                          /\ at' = [at EXCEPT ![t] = IF x # NoFde THEN "fini" ELSE "unseen"]
                          /\ o \in ObjectType /\ Searched(o, m, table[m])
                          /\ RightAnswer(table[m], pc[t], x)
<1> USE DEF RegistryInv
<1>0. /\ at \in [Threads -> Places]
      /\ mod \in [Threads -> Modules \cup {NoModule}]
      /\ pc \in [Threads -> Pcs \cup {0}]
      /\ cur \in [Threads -> Modules \cup {NoModule}]
      /\ DOMAIN f = Threads
      /\ phase \in [Modules -> {"out", "coming", "in", "leaving"}]
      /\ table \in Layouts /\ ob \in [Modules -> ObjectType]
      /\ unseen \in Seq(Modules) /\ seen \in Seq(Modules)
      /\ NoModule \notin Modules /\ NoThread \notin Threads /\ Pcs \subseteq 1..MaxPc /\ MaxPc \in Nat
  BY TypeFacts
<1> DEFINE m == cur[t]
           p == pc[t]
<1>1. at[t] = "search" /\ UNCHANGED <<table, phase, unseen, mutex, mod, pc, cur>>
  BY DEF SearchUnseen
<1>2. p \in 1..MaxPc
  <2>1. at[t] \in Finding
    BY <1>1 DEF Finding
  <2>2. p # 0
    BY <2>1 DEF WorkInv
  <2> QED
    BY <1>0, <2>2
<1>3. /\ m \in Modules /\ m \notin Elements(seen) /\ Fresh(ob[m], m) /\ ob[m] \in ObjectType
  BY <1>0, <1>1 DEF ListInv, ObjectInv
<1>4. PICK mem \in Memory :
        LET s == search_object(ob[m], p, mem)
        IN  /\ ob' = [ob EXCEPT ![m] = s.object]
            /\ seen' = Inserted(m, s.object)
            /\ f' = [f EXCEPT ![t] = s.fde]
            /\ at' = [at EXCEPT ![t] = IF s.fde # NoFde THEN "fini" ELSE "unseen"]
  BY DEF SearchUnseen, Goto
<1> DEFINE o == search_object(ob[m], p, mem).object
           x == search_object(ob[m], p, mem).fde
<1>5. /\ o \in ObjectType /\ Searched(o, m, table[m]) /\ RightAnswer(table[m], p, x)
  BY <1>0, <1>2, <1>3, SearchObject
<1>6. /\ ob' = [ob EXCEPT ![m] = o] /\ seen' = Inserted(m, o) /\ f' = [f EXCEPT ![t] = x]
      /\ at' = [at EXCEPT ![t] = IF x # NoFde THEN "fini" ELSE "unseen"]
  BY <1>4
<1> HIDE DEF o, x, m, p
<1>7. /\ Distinct(seen)
      /\ \A i \in DOMAIN seen : ob[seen[i]].pc_begin = Bottom(table[seen[i]])
      /\ \A i, j \in DOMAIN seen : i < j => Bottom(table[seen[i]]) >= Bottom(table[seen[j]])
  BY DEF ListInv, ObjectInv, Searched, Elements
<1>8. o.pc_begin = Bottom(table[m])
  BY <1>5 DEF Searched
<1>9. /\ seen' \in Seq(Modules) /\ Distinct(seen') /\ Elements(seen') = Elements(seen) \cup {m}
      /\ \A i, j \in DOMAIN seen' : i < j => Bottom(table[seen'[i]]) >= Bottom(table[seen'[j]])
  <2> HIDE DEF RegistryInv
  <2> QED
    BY <1>0, <1>3, <1>6, <1>7, <1>8, InsertedFacts
<1> QED
  BY <1>1, <1>2, <1>3, <1>5, <1>6, <1>9 DEF m, p

(* A search looks into the object it has initialised and links it into     *)
(* seen_objects.                                                           *)
LEMMA SearchUnseenKeeps ==
  ASSUME RegistryInv, NEW t \in Threads, SearchUnseen(t)
  PROVE  RegistryInv' /\ Linked' = Linked
<1> USE DEF RegistryInv
<1>0. /\ at \in [Threads -> Places]
      /\ mod \in [Threads -> Modules \cup {NoModule}]
      /\ pc \in [Threads -> Pcs \cup {0}]
      /\ cur \in [Threads -> Modules \cup {NoModule}]
      /\ DOMAIN f = Threads
      /\ phase \in [Modules -> {"out", "coming", "in", "leaving"}]
      /\ table \in Layouts /\ ob \in [Modules -> ObjectType]
      /\ unseen \in Seq(Modules) /\ seen \in Seq(Modules)
      /\ NoModule \notin Modules /\ NoThread \notin Threads /\ Pcs \subseteq 1..MaxPc /\ MaxPc \in Nat
  BY TypeFacts
<1> DEFINE m == cur[t]
           p == pc[t]
<1>1. /\ at[t] = "search" /\ m \in Modules /\ p \in 1..MaxPc
      /\ UNCHANGED <<table, phase, unseen, mutex, mod, pc, cur>>
      /\ seen' \in Seq(Modules) /\ Distinct(seen')
      /\ Elements(seen') = Elements(seen) \cup {m}
      /\ \A i, j \in DOMAIN seen' : i < j => Bottom(table[seen'[i]]) >= Bottom(table[seen'[j]])
  BY SearchUnseenCases
<1>2. PICK o, x : /\ ob' = [ob EXCEPT ![m] = o] /\ f' = [f EXCEPT ![t] = x]
                  /\ at' = [at EXCEPT ![t] = IF x # NoFde THEN "fini" ELSE "unseen"]
                  /\ o \in ObjectType /\ Searched(o, m, table[m])
                  /\ RightAnswer(table[m], p, x)
  BY SearchUnseenCases
<1>3. \A u \in Threads : u # t => at[u] \notin Holding
  BY <1>1, OnlyHolder DEF Holding
<1>4. /\ \A u \in Threads : u # t => at'[u] = at[u] /\ f'[u] = f[u]
      /\ at'[t] = IF x # NoFde THEN "fini" ELSE "unseen"
      /\ f'[t] = x /\ DOMAIN f' = Threads /\ at' \in [Threads -> Places]
      /\ ob' \in [Modules -> ObjectType] /\ ob'[m] = o
      /\ \A y \in Modules : y # m => ob'[y] = ob[y]
  BY <1>0, <1>1, <1>2 DEF Places, Finding
<1>5. m \notin Elements(unseen) /\ m \notin Elements(seen) /\ m \in Linked
  BY <1>1 DEF ListInv, Linked
<1>6. SearchOK(at'[t], p, m, x, table, Elements(seen'))
  <2>0. SearchOK("search", p, m, f[t], table, Elements(seen))
    BY <1>1 DEF SearchInv
  <2>1. CASE x # NoFde
    <3>1. ~Unhandled(table[m]) /\ \E i \in Hits(table[m], p) : x = table[m][i]
      BY <1>2, <2>1 DEF RightAnswer
    <3>2. Spans(table[m], p)
      BY <1>0, <1>1, <3>1, HitFacts DEF InModule
    <3> QED
      BY <1>1, <1>4, <2>1, <3>1, <3>2 DEF SearchOK
  <2>2. CASE x = NoFde
    <3>1. Unhandled(table[m]) \/ Hits(table[m], p) = {}
      <4>1. ~Unhandled(table[m]) => \A i \in Hits(table[m], p) : table[m][i] # NoFde
        BY <1>0, <1>1, HitFacts
      <4> QED
        BY <1>2, <2>2, <4>1 DEF RightAnswer
    <3> QED
      BY <1>1, <1>4, <2>0, <2>2, <3>1 DEF SearchOK
  <2> QED
    BY <2>1, <2>2
<1>7. \A u \in Threads : u # t => at[u] # "search" /\ at'[u] # "search"
  BY <1>3, <1>4 DEF Holding
<1>8. at'[t] # "search"
  BY <1>4
<1>9. Linked' = Linked
  <2>1. {u \in Threads : at[u] = "search"} = {t} /\ {u \in Threads : at'[u] = "search"} = {}
    BY <1>1, <1>7, <1>8
  <2>2. Linked = Elements(unseen) \cup Elements(seen) \cup {m}
    BY <2>1 DEF Linked
  <2>3. Linked' = Elements(unseen') \cup Elements(seen')
    BY <2>1 DEF Linked
  <2> QED
    BY <1>1, <2>2, <2>3
<1> HIDE DEF m, p
<1>10. TypeInv'
  BY <1>0, <1>1, <1>4 DEF TypeInv, RegistryTypeOK
<1>11. HolderInv'
  BY <1>1, <1>4 DEF HolderInv, Holding
<1>12. WorkInv'
  <2>1. at[t] \in Finding /\ at'[t] \in Finding
    BY <1>1, <1>4 DEF Finding
  <2>2. \A l \in Finding : l \notin Registering \cup Running \cup Leaving
    BY DEF Finding, Registering, Running, Leaving
  <2> QED
    BY <1>1, <1>4, <2>1, <2>2 DEF WorkInv
<1>13. ListInv'
  BY <1>1, <1>5, <1>7, <1>8 DEF ListInv
<1>14. ObjectInv'
  <2>1. \A y \in Elements(unseen) : Fresh(ob'[y], y)
    BY <1>0, <1>4, <1>5, ElementsTyped DEF ObjectInv
  <2>2. \A y \in Elements(seen') : Searched(ob'[y], y, table[y])
    BY <1>0, <1>1, <1>2, <1>4, <1>5, ElementsTyped DEF ObjectInv
  <2>3. \A u \in Threads : at'[u] \in Registering => Fresh(ob'[mod[u]], mod[u])
    <3> SUFFICES ASSUME NEW u \in Threads, at'[u] \in Registering
                 PROVE  Fresh(ob'[mod[u]], mod[u])
      OBVIOUS
    <3>1. u # t /\ at[u] \in Registering
      BY <1>4 DEF Registering
    <3>2. mod[u] \in Modules /\ at[u] = "regLock"
      BY <1>0, <1>3, <3>1 DEF WorkInv, Registering, Finding, Holding
    <3>3. mod[u] # m
      BY <1>5, <3>2 DEF LinkInv
    <3> QED
      BY <1>4, <3>1, <3>2, <3>3 DEF ObjectInv
  <2> QED
    BY <1>1, <1>7, <1>8, <2>1, <2>2, <2>3 DEF ObjectInv
<1>15. LinkInv'
  <2>1. \A u \in Threads : at'[u] \in {"regUnlock", "deregLock", "deregSearch", "regLock", "regLink", "free", "abort"}
           => at'[u] = at[u]
    BY <1>4
  <2> QED
    BY <1>1, <1>9, <2>1 DEF LinkInv
<1>16. PcInv'
  BY <1>1 DEF PcInv, InModule
<1>17. SearchInv'
  <2> SUFFICES ASSUME NEW u \in Threads
               PROVE  SearchOK(at'[u], pc[u], cur[u], f'[u], table, Elements(seen'))
    BY <1>1 DEF SearchInv
  <2>1. CASE u = t
    BY <1>4, <1>6, <2>1 DEF m, p
  <2>2. CASE u # t
    BY <1>3, <1>4, <2>2 DEF SearchInv, SearchOK, Holding
  <2> QED
    BY <2>1, <2>2
<1> QED
  BY <1>9, <1>10, <1>11, <1>12, <1>13, <1>14, <1>15, <1>16, <1>17

(* Every step keeps the invariant.                                         *)
LEMMA InvNext ==
  ASSUME RegistryInv, [RegistryNext]_registryVars
  PROVE  RegistryInv'
<1>1. CASE UNCHANGED registryVars
  BY <1>1 DEF registryVars, lists, locals, RegistryInv, TypeInv, RegistryTypeOK, HolderInv, WorkInv,
     ListInv, ObjectInv, LinkInv, PcInv, SearchInv, Linked, InModule
<1>2. ASSUME NEW t \in Threads, NEW m \in Modules,
             Load(t, m, TRUE) \/ Load(t, m, FALSE) \/ Unload(t, m)
      PROVE  RegistryInv'
  BY <1>2, LoadKeeps, UnloadKeeps
<1>3. ASSUME NEW t \in Threads, NEW p \in Pcs, Find(t, p)
      PROVE  RegistryInv'
  BY <1>3, FindKeeps
<1>4. ASSUME NEW t \in Threads, LoadStep(t)
      PROVE  RegistryInv'
  BY <1>4, LockKeeps, RegisterLinkKeeps, RegisterUnlockKeeps, ConstructedKeeps, DestructedKeeps,
     DeregisterSearchKeeps, FreeObjectKeeps DEF LoadStep
<1>5. ASSUME NEW t \in Threads, FindStep(t)
      PROVE  RegistryInv'
  BY <1>5, LockKeeps, SearchSeenKeeps, TakeUnseenKeeps, SearchUnseenKeeps, FiniKeeps,
     ReturnKeeps DEF FindStep
<1> QED
  BY <1>1, <1>2, <1>3, <1>4, <1>5 DEF RegistryNext

(* The invariant holds in every behaviour.                                 *)
LEMMA InvAlways == RegistrySpec => []RegistryInv
<1>1. RegistryInit => RegistryInv
  BY InvInit
<1>2. RegistryInv /\ [RegistryNext]_registryVars => RegistryInv'
  BY InvNext
<1> QED
  BY <1>1, <1>2, PTL DEF RegistrySpec

-----------------------------------------------------------------------------
(* What the invariant says about the registry.                             *)

\* The registry's variables have their types.
THEOREM RegistryTypes == RegistrySpec => []RegistryTypeOK
<1>1. RegistryInv => RegistryTypeOK
  BY DEF RegistryInv, TypeInv
<1> QED
  BY <1>1, InvAlways, PTL

(* No freed object is on a list or read by a search that has released the  *)
(* mutex, for any number of threads and modules.                           *)
THEOREM NoFreedObjectIsRead == RegistrySpec => []NoFreedRead
<1>1. RegistryInv => NoFreedRead
  <2> SUFFICES ASSUME RegistryInv
               PROVE  NoFreedRead
    OBVIOUS
  <2> USE DEF RegistryInv
  <2>1. \A m \in Linked : ob[m].live = 1
    BY DEF Linked, ObjectInv, Fresh, Searched
  <2>2. ASSUME NEW t \in Threads, at[t] = "bases"
        PROVE  ob[cur[t]].live = 1
    <3>1. cur[t] \in Modules /\ Spans(table[cur[t]], pc[t])
      BY <2>2 DEF SearchInv, SearchOK
    <3>2. pc[t] # 0
      BY <2>2 DEF WorkInv, Finding
    <3>3. phase[cur[t]] = "in"
      BY <3>1, <3>2 DEF PcInv, InModule
    <3>4. table[cur[t]] # <<>>
      BY <3>1 DEF Spans, Present
    <3> QED
      BY <2>1, <3>1, <3>3, <3>4 DEF LinkInv
  <2> QED
    BY <2>1, <2>2 DEF NoFreedRead
<1> QED
  BY <1>1, InvAlways, PTL

(* Deregistration finds the object of every module that init_object can    *)
(* handle, wherever it is and whether or not it was sorted in between.     *)
THEOREM AbortsOnlyUnhandled == RegistrySpec => []AbortOnlyUnhandled
<1>1. RegistryInv => AbortOnlyUnhandled
  BY DEF RegistryInv, LinkInv, AbortOnlyUnhandled
<1> QED
  BY <1>1, InvAlways, PTL

(* Unloading takes a module off the lists before its memory goes, unless   *)
(* its table is empty.                                                     *)
THEOREM UnloadedModulesAreGone == RegistrySpec => []UnloadedIsGone
<1>1. RegistryInv => UnloadedIsGone
  <2> SUFFICES ASSUME RegistryInv
               PROVE  UnloadedIsGone
    OBVIOUS
  <2>1. Linked \subseteq Modules
    <3>1. Elements(unseen) \subseteq Modules /\ Elements(seen) \subseteq Modules
      BY ElementsTyped, TypeFacts DEF RegistryInv
    <3> QED
      BY <3>1 DEF RegistryInv, ListInv, Linked
  <2> QED
    BY <2>1 DEF RegistryInv, LinkInv, UnloadedIsGone
<1> QED
  BY <1>1, InvAlways, PTL

\* A module's constructors and destructors run while its table is registered.
THEOREM TablesThereWhileRunning == RegistrySpec => []FramesWhileRunning
<1>1. RegistryInv => FramesWhileRunning
  <2> SUFFICES ASSUME RegistryInv
               PROVE  FramesWhileRunning
    OBVIOUS
  <2> SUFFICES ASSUME NEW t \in Threads, at[t] \in {"ctors", "dtors"}, table[mod[t]] # <<>>
               PROVE  mod[t] \in Linked
    BY DEF FramesWhileRunning
  <2>1. mod[t] \in Modules
    <3>1. mod[t] # NoModule
      BY DEF RegistryInv, WorkInv, Finding
    <3> QED
      BY <3>1, TypeFacts DEF RegistryInv
  <2>2. phase[mod[t]] = "in"
    BY DEF RegistryInv, WorkInv, Running
  <2> QED
    BY <2>1, <2>2 DEF RegistryInv, LinkInv
<1> QED
  BY <1>1, InvAlways, PTL

-----------------------------------------------------------------------------
(* The lists, the sort and the searches implement the abstract registry.   *)
Registered == Linked \ {mod[t] : t \in {u \in Threads : at[u] = "regUnlock"}}
Answers == [t \in Threads |-> IF t \in Answered THEN f[t] ELSE NoFde]

(* A step that changes none of what the abstract registry sees is a        *)
(* stutter of it.                                                          *)
LEMMA AbsSame ==
  ASSUME UNCHANGED <<table, Registered, pc, Answered, Answers>>
  PROVE  UNCHANGED Abs!absVars
  BY DEF Abs!absVars, Registered, Answers

(* A step that only adds a module is an abstract registration.             *)
LEMMA AbsRegisters ==
  ASSUME NEW m \in Modules, Registered' = Registered \cup {m},
         UNCHANGED <<table, pc, Answered, Answers>>
  PROVE  Abs!AbsNext
<1>1. Abs!Register(m)
  BY DEF Abs!Register, Registered, Answers
<1> QED
  BY <1>1 DEF Abs!AbsNext

(* A step that only removes a module is an abstract deregistration.        *)
LEMMA AbsDeregisters ==
  ASSUME NEW m \in Modules, Registered' = Registered \ {m},
         UNCHANGED <<table, pc, Answered, Answers>>
  PROVE  Abs!AbsNext
<1>1. Abs!Deregister(m)
  BY DEF Abs!Deregister, Registered, Answers
<1> QED
  BY <1>1 DEF Abs!AbsNext

(* A step in which a thread begins to search is an abstract question.      *)
LEMMA AbsAsks ==
  ASSUME NEW t \in Threads, NEW p \in Pcs, pc[t] = 0, pc' = [pc EXCEPT ![t] = p],
         UNCHANGED <<table, Registered, Answered, Answers>>
  PROVE  Abs!AbsNext
<1>1. Abs!Ask(t, p)
  BY DEF Abs!Ask, Registered, Answers
<1> QED
  BY <1>1 DEF Abs!AbsNext

(* A step in which a search finds what the registered modules have is an   *)
(* abstract answer.                                                        *)
LEMMA AbsAnswers ==
  ASSUME NEW t \in Threads, pc[t] # 0, t \notin Answered, Answered' = Answered \cup {t},
         \/ Abs!Known(Registered, pc[t]) = {} /\ Answers' = [Answers EXCEPT ![t] = NoFde]
         \/ \E x \in Abs!Known(Registered, pc[t]) : Answers' = [Answers EXCEPT ![t] = x],
         UNCHANGED <<table, Registered, pc>>
  PROVE  Abs!AbsNext
<1>1. Abs!Answer(t)
  BY DEF Abs!Answer, Registered, Answers, Abs!NoFde, NoFde
<1> QED
  BY <1>1 DEF Abs!AbsNext

(* A step in which a search hands out its result is an abstract return.    *)
LEMMA AbsReturns ==
  ASSUME NEW t \in Threads, t \in Answered, Answered' = Answered \ {t},
         pc' = [pc EXCEPT ![t] = 0], Answers' = [Answers EXCEPT ![t] = NoFde],
         UNCHANGED <<table, Registered>>
  PROVE  Abs!AbsNext
<1>1. Abs!Return(t)
  BY DEF Abs!Return, Registered, Answers, Abs!NoFde, NoFde
<1> QED
  BY <1>1 DEF Abs!AbsNext

(* What is registered stays the same while no object is linked or unlinked *)
(* and no registration is completed.                                       *)
LEMMA SameRegistered ==
  ASSUME Linked' = Linked, \A u \in Threads : at'[u] = "regUnlock" <=> at[u] = "regUnlock",
         \A u \in Threads : at[u] = "regUnlock" => mod'[u] = mod[u]
  PROVE  Registered' = Registered
<1>1. {u \in Threads : at'[u] = "regUnlock"} = {u \in Threads : at[u] = "regUnlock"}
  OBVIOUS
<1>2. {mod'[t] : t \in {u \in Threads : at'[u] = "regUnlock"}}
        = {mod[t] : t \in {u \in Threads : at[u] = "regUnlock"}}
  BY <1>1
<1> QED
  BY <1>2 DEF Registered

Ending == {"fini", "bases"}

(* Nobody gets an answer or hands one out.                                 *)
LEMMA SameAnswers ==
  ASSUME \A u \in Threads : at'[u] \in Ending <=> at[u] \in Ending,
         \A u \in Threads : at[u] \in Ending => f'[u] = f[u]
  PROVE  Answered' = Answered /\ Answers' = Answers
<1>1. Answered' = Answered
  BY DEF Answered, Ending
<1>2. \A u \in Threads : u \in Answered => f'[u] = f[u]
  BY DEF Answered, Ending
<1> HIDE DEF Answered
<1> QED
  BY <1>1, <1>2 DEF Answers

(* One thread gets its answer.                                             *)
LEMMA NewAnswer ==
  ASSUME NEW t \in Threads, at[t] \notin Ending, at'[t] \in Ending,
         \A u \in Threads : u # t => at'[u] = at[u] /\ f'[u] = f[u]
  PROVE  t \notin Answered /\ Answered' = Answered \cup {t} /\ Answers' = [Answers EXCEPT ![t] = f'[t]]
<1>1. t \notin Answered /\ Answered' = Answered \cup {t}
  BY DEF Answered, Ending
<1> QED
  BY <1>1 DEF Answers

(* One thread hands out its answer.                                        *)
LEMMA OldAnswer ==
  ASSUME NEW t \in Threads, at[t] \in Ending, at'[t] \notin Ending,
         \A u \in Threads : u # t => at'[u] = at[u] /\ f'[u] = f[u]
  PROVE  t \in Answered /\ Answered' = Answered \ {t} /\ Answers' = [Answers EXCEPT ![t] = NoFde]
<1>1. t \in Answered /\ Answered' = Answered \ {t}
  BY DEF Answered, Ending
<1> QED
  BY <1>1 DEF Answers

\* What the registered modules know is what their tables hit.
LEMMA KnownIs ==
  ASSUME table \in Layouts, NEW R \in SUBSET Modules, NEW p
  PROVE  \A x : x \in Abs!Known(R, p) <=>
           \E m \in R : ~Unhandled(table[m]) /\ \E i \in Hits(table[m], p) : x = table[m][i]
<1> DEFINE U == UNION {{table[m][i] : i \in DOMAIN table[m]} : m \in {n \in R : ~Unhandled(table[n])}}
<1>1. \A x : x \in U <=> \E m \in R : ~Unhandled(table[m]) /\ \E i \in DOMAIN table[m] : x = table[m][i]
  OBVIOUS
<1>2. Abs!Known(R, p) = {x \in U : x.begin # 0 /\ Covers(x, p)}
  BY DEF Abs!Known, Abs!Unhandled, Unhandled, Abs!Covers, Covers
<1> HIDE DEF U
<1> QED
  BY <1>1, <1>2 DEF Hits, Present

(* What is linked are modules.                                             *)
LEMMA LinkedTyped ==
  ASSUME TypeInv, ListInv
  PROVE  Linked \subseteq Modules
<1>1. Elements(unseen) \subseteq Modules /\ Elements(seen) \subseteq Modules
  BY ElementsTyped, TypeFacts
<1> QED
  BY <1>1 DEF ListInv, Linked

\* With the mutex held elsewhere than at regUnlock, everything linked is registered.
LEMMA AllRegistered ==
  ASSUME HolderInv, NEW t \in Threads, at[t] \in Holding \ {"regUnlock"}
  PROVE  Registered = Linked
<1>1. \A u \in Threads : at[u] # "regUnlock"
  BY OnlyHolder DEF Holding
<1> QED
  BY <1>1 DEF Registered

(* Every step of loading and unloading is a step of the abstract registry  *)
(* or a stutter.                                                           *)
LEMMA LoadingMaps ==
  ASSUME RegistryInv, NEW t \in Threads, LoadStep(t)
  PROVE  [Abs!AbsNext]_(Abs!absVars)
<1> USE DEF RegistryInv
<1>0. /\ at \in [Threads -> Places]
      /\ mod \in [Threads -> Modules \cup {NoModule}]
      /\ pc \in [Threads -> Pcs \cup {0}]
      /\ cur \in [Threads -> Modules \cup {NoModule}]
      /\ DOMAIN f = Threads
      /\ phase \in [Modules -> {"out", "coming", "in", "leaving"}]
      /\ table \in Layouts /\ ob \in [Modules -> ObjectType]
      /\ unseen \in Seq(Modules) /\ seen \in Seq(Modules)
      /\ NoModule \notin Modules /\ NoThread \notin Threads /\ Pcs \subseteq 1..MaxPc /\ MaxPc \in Nat
  BY TypeFacts
<1>1. CASE RegisterLock(t) \/ DeregisterLock(t)
  <2>1. /\ at[t] \in {"regLock", "deregLock"}
        /\ \/ at' = [at EXCEPT ![t] = "regLink"]
           \/ at' = [at EXCEPT ![t] = "deregSearch"]
        /\ UNCHANGED <<table, mod, pc, f>>
    BY <1>1 DEF RegisterLock, DeregisterLock, LockMutex, Goto, locals
  <2>2. Registered' = Registered
    BY <1>0, <1>1, <2>1, LockKeeps, SameRegistered
  <2>3. Answered' = Answered /\ Answers' = Answers
    BY <1>0, <2>1, SameAnswers DEF Ending
  <2> QED
    BY <2>1, <2>2, <2>3, AbsSame
<1>2. CASE RegisterLink(t)
  <2>1. /\ at[t] = "regLink" /\ at' = [at EXCEPT ![t] = "regUnlock"]
        /\ UNCHANGED <<table, mod, pc, f>>
    BY <1>2 DEF RegisterLink, Goto, locals
  <2>2. /\ Registered = Linked /\ Linked' = Linked \cup {mod[t]} /\ mod[t] \notin Linked
    BY <1>2, <2>1, AllRegistered, RegisterLinkKeeps DEF Holding, LinkInv
  <2>3. {u \in Threads : at'[u] = "regUnlock"} = {t}
    <3>1. \A u \in Threads : u # t => at[u] # "regUnlock"
      BY <2>1, OnlyHolder DEF Holding
    <3> QED
      BY <1>0, <2>1, <3>1
  <2>4. Registered' = Registered
    BY <2>1, <2>2, <2>3 DEF Registered
  <2>5. Answered' = Answered /\ Answers' = Answers
    BY <1>0, <2>1, SameAnswers DEF Ending
  <2> QED
    BY <2>1, <2>4, <2>5, AbsSame
<1>3. CASE RegisterUnlock(t)
  <2>1. /\ at[t] = "regUnlock" /\ at' = [at EXCEPT ![t] = "ctors"]
        /\ UNCHANGED <<table, mod, pc, f>>
    BY <1>3 DEF RegisterUnlock, Goto, locals
  <2>2. Linked' = Linked /\ mod[t] \in Linked /\ mod[t] \in Modules
    BY <1>0, <1>3, <2>1, RegisterUnlockKeeps, LinkedTyped DEF LinkInv
  <2>3. \A u \in Threads : u # t => at[u] # "regUnlock"
    BY <2>1, OnlyHolder DEF Holding
  <2>4. /\ {u \in Threads : at[u] = "regUnlock"} = {t}
        /\ {u \in Threads : at'[u] = "regUnlock"} = {}
    BY <1>0, <2>1, <2>3
  <2>5. Registered = Linked \ {mod[t]} /\ Registered' = Linked'
    BY <2>4 DEF Registered
  <2>6. Registered' = Registered \cup {mod[t]}
    BY <2>2, <2>5
  <2>7. Answered' = Answered /\ Answers' = Answers
    BY <1>0, <2>1, SameAnswers DEF Ending
  <2> QED
    BY <2>1, <2>2, <2>6, <2>7, AbsRegisters
<1>4. CASE Constructed(t) \/ Destructed(t) \/ FreeObject(t)
  <2>1. /\ at[t] \in {"ctors", "dtors", "free"}
        /\ \/ at' = [at EXCEPT ![t] = "idle"]
           \/ at' = [at EXCEPT ![t] = "deregLock"]
        /\ mod' = mod \/ mod' = [mod EXCEPT ![t] = NoModule]
        /\ UNCHANGED <<table, pc, f>>
    BY <1>4 DEF Constructed, Destructed, FreeObject, Unmap, Goto
  <2>2. Linked' = Linked
    BY <1>4, ConstructedKeeps, DestructedKeeps, FreeObjectKeeps
  <2>3. Registered' = Registered
    BY <1>0, <2>1, <2>2, SameRegistered
  <2>4. Answered' = Answered /\ Answers' = Answers
    BY <1>0, <2>1, SameAnswers DEF Ending
  <2> QED
    BY <2>1, <2>3, <2>4, AbsSame
<1>5. CASE DeregisterSearch(t)
  <2>1. /\ at[t] = "deregSearch" /\ mod[t] \in Modules /\ UNCHANGED <<table, mod, pc, f>>
        /\ \/ at' = [at EXCEPT ![t] = "free"]
           \/ at' = [at EXCEPT ![t] = "abort"]
    BY <1>5, DeregisterCases
  <2>2. \/ Linked' = Linked \ {mod[t]}
        \/ Linked' = Linked
    BY <1>5, DeregisterSearchKeeps
  <2>3. Registered = Linked
    BY <2>1, AllRegistered DEF Holding
  <2>4. \A u \in Threads : at'[u] # "regUnlock"
    BY <1>0, <2>1, OnlyHolder DEF Holding
  <2>5. Registered' = Linked'
    BY <2>4 DEF Registered
  <2>6. Answered' = Answered /\ Answers' = Answers
    BY <1>0, <2>1, SameAnswers DEF Ending
  <2>7. CASE Linked' = Linked \ {mod[t]}
    BY <2>1, <2>3, <2>5, <2>6, <2>7, AbsDeregisters
  <2>8. CASE Linked' = Linked
    BY <2>1, <2>3, <2>5, <2>6, <2>8, AbsSame
  <2> QED
    BY <2>2, <2>7, <2>8
<1> QED
  BY <1>1, <1>2, <1>3, <1>4, <1>5 DEF LoadStep

(* So is the beginning of a load, of an unload or of a search.             *)
LEMMA StartingMaps ==
  ASSUME RegistryInv, NEW t \in Threads,
         \/ \E m \in Modules : Load(t, m, TRUE) \/ Load(t, m, FALSE) \/ Unload(t, m)
         \/ \E p \in Pcs : Find(t, p)
  PROVE  [Abs!AbsNext]_(Abs!absVars)
<1> USE DEF RegistryInv
<1>0. /\ at \in [Threads -> Places]
      /\ mod \in [Threads -> Modules \cup {NoModule}]
      /\ pc \in [Threads -> Pcs \cup {0}]
      /\ cur \in [Threads -> Modules \cup {NoModule}]
      /\ DOMAIN f = Threads
      /\ phase \in [Modules -> {"out", "coming", "in", "leaving"}]
      /\ table \in Layouts /\ ob \in [Modules -> ObjectType]
      /\ unseen \in Seq(Modules) /\ seen \in Seq(Modules)
      /\ NoModule \notin Modules /\ NoThread \notin Threads /\ Pcs \subseteq 1..MaxPc /\ MaxPc \in Nat
  BY TypeFacts
<1>1. ASSUME NEW m \in Modules, Load(t, m, TRUE) \/ Load(t, m, FALSE) \/ Unload(t, m)
      PROVE  [Abs!AbsNext]_(Abs!absVars)
  <2>1. /\ at[t] = "idle" /\ mod' = [mod EXCEPT ![t] = m]
        /\ \/ at' = [at EXCEPT ![t] = "ctors"]
           \/ at' = [at EXCEPT ![t] = "regLock"]
           \/ at' = [at EXCEPT ![t] = "dtors"]
        /\ UNCHANGED <<table, pc, f>>
    BY <1>1 DEF Load, Unload, Goto, locals
  <2>2. Linked' = Linked
    BY <1>1, LoadKeeps, UnloadKeeps
  <2>3. Registered' = Registered
    BY <1>0, <2>1, <2>2, SameRegistered
  <2>4. Answered' = Answered /\ Answers' = Answers
    BY <1>0, <2>1, SameAnswers DEF Ending
  <2> QED
    BY <2>1, <2>3, <2>4, AbsSame
<1>2. ASSUME NEW p \in Pcs, Find(t, p)
      PROVE  [Abs!AbsNext]_(Abs!absVars)
  <2>1. /\ at[t] = "idle" /\ at' = [at EXCEPT ![t] = "findLock"] /\ pc' = [pc EXCEPT ![t] = p]
        /\ UNCHANGED <<table, mod, f>>
    BY <1>2 DEF Find, Goto
  <2>2. pc[t] = 0
    BY <2>1 DEF WorkInv, Finding
  <2>3. Registered' = Registered
    BY <1>0, <1>2, <2>1, FindKeeps, SameRegistered
  <2>4. Answered' = Answered /\ Answers' = Answers
    BY <1>0, <2>1, SameAnswers DEF Ending
  <2> QED
    BY <2>1, <2>2, <2>3, <2>4, AbsAsks
<1> QED
  BY <1>1, <1>2

(* So is every step of a search.                                           *)
LEMMA FindingMaps ==
  ASSUME RegistryInv, NEW t \in Threads, FindStep(t)
  PROVE  [Abs!AbsNext]_(Abs!absVars)
<1> USE DEF RegistryInv
<1>0. /\ at \in [Threads -> Places]
      /\ mod \in [Threads -> Modules \cup {NoModule}]
      /\ pc \in [Threads -> Pcs \cup {0}]
      /\ cur \in [Threads -> Modules \cup {NoModule}]
      /\ DOMAIN f = Threads
      /\ phase \in [Modules -> {"out", "coming", "in", "leaving"}]
      /\ table \in Layouts /\ ob \in [Modules -> ObjectType]
      /\ unseen \in Seq(Modules) /\ seen \in Seq(Modules)
      /\ NoModule \notin Modules /\ NoThread \notin Threads /\ Pcs \subseteq 1..MaxPc /\ MaxPc \in Nat
  BY TypeFacts
<1>1. CASE FindLock(t)
  <2>1. /\ at[t] = "findLock" /\ at' = [at EXCEPT ![t] = "seen"]
        /\ UNCHANGED <<table, mod, pc, f>>
    BY <1>1 DEF FindLock, LockMutex, Goto, locals
  <2>2. Registered' = Registered
    BY <1>0, <1>1, <2>1, LockKeeps, SameRegistered
  <2>3. Answered' = Answered /\ Answers' = Answers
    BY <1>0, <2>1, SameAnswers DEF Ending
  <2> QED
    BY <2>1, <2>2, <2>3, AbsSame
<1>2. CASE SearchSeen(t)
  <2>1. /\ at[t] = "seen" /\ UNCHANGED <<table, mod, pc, seen>>
    BY <1>2 DEF SearchSeen, lists
  <2>2. /\ RegistryInv' /\ Linked' = Linked
        /\ at'[t] \in {"unseen", "fini"}
        /\ at'[t] = "fini" => f'[t] # NoFde /\ cur'[t] \in Elements(seen)
        /\ \A u \in Threads : u # t => at'[u] = at[u] /\ f'[u] = f[u]
    BY <1>2, SearchSeenKeeps
  <2>3. Registered' = Registered
    BY <2>1, <2>2, SameRegistered
  <2>4. CASE at'[t] = "unseen"
    <3>1. Answered' = Answered /\ Answers' = Answers
      BY <2>1, <2>2, <2>4, SameAnswers DEF Ending
    <3> QED
      BY <2>1, <2>3, <3>1, AbsSame
  <2>5. CASE at'[t] = "fini"
    <3>1. pc[t] # 0
      BY <2>1 DEF WorkInv, Finding
    <3>2. Registered = Linked
      BY <2>1, AllRegistered DEF Holding
    <3>3. Registered \in SUBSET Modules
      BY <3>2, LinkedTyped
    <3>4. cur'[t] \in Registered
      BY <2>2, <2>5, <3>2 DEF Linked
    <3>5. SearchOK(at'[t], pc[t], cur'[t], f'[t], table, Elements(seen))
      BY <2>1, <2>2 DEF SearchInv
    <3>6. f'[t] \in Abs!Known(Registered, pc[t])
      BY <1>0, <2>2, <2>5, <3>3, <3>4, <3>5, KnownIs DEF SearchOK
    <3>7. t \notin Answered /\ Answered' = Answered \cup {t} /\ Answers' = [Answers EXCEPT ![t] = f'[t]]
      BY <2>1, <2>2, <2>5, NewAnswer DEF Ending
    <3> QED
      BY <2>1, <2>3, <3>1, <3>6, <3>7, AbsAnswers
  <2> QED
    BY <2>2, <2>4, <2>5
<1>3. CASE TakeUnseen(t)
  <2>1. /\ at[t] = "unseen" /\ UNCHANGED <<table, mod, pc, f>>
        /\ \/ unseen = <<>> /\ at' = [at EXCEPT ![t] = "fini"]
           \/ at' = [at EXCEPT ![t] = "search"]
    BY <1>3 DEF TakeUnseen, Goto
  <2>2. Linked' = Linked
    BY <1>3, TakeUnseenKeeps
  <2>3. Registered' = Registered
    BY <1>0, <2>1, <2>2, SameRegistered
  <2>4. CASE at' = [at EXCEPT ![t] = "search"]
    <3>1. Answered' = Answered /\ Answers' = Answers
      BY <1>0, <2>1, <2>4, SameAnswers DEF Ending
    <3> QED
      BY <2>1, <2>3, <3>1, AbsSame
  <2>5. CASE unseen = <<>> /\ at' = [at EXCEPT ![t] = "fini"]
    <3>1. pc[t] # 0
      BY <2>1 DEF WorkInv, Finding
    <3>2. Registered = Linked
      BY <2>1, AllRegistered DEF Holding
    <3>3. Linked = Elements(seen)
      <4>1. \A u \in Threads : at[u] # "search"
        BY <2>1, OnlyHolder DEF Holding
      <4>2. Elements(unseen) = {}
        BY <2>5 DEF Elements
      <4> QED
        BY <4>1, <4>2 DEF Linked
    <3>4. SearchOK("unseen", pc[t], cur[t], f[t], table, Elements(seen))
      BY <2>1 DEF SearchInv
    <3>5. /\ \A m \in Registered : Unhandled(table[m]) \/ Hits(table[m], pc[t]) = {}
          /\ f[t] = NoFde
      BY <3>2, <3>3, <3>4 DEF SearchOK
    <3>6. Registered \in SUBSET Modules
      BY <3>2, LinkedTyped
    <3>7. Abs!Known(Registered, pc[t]) = {}
      BY <1>0, <3>5, <3>6, KnownIs
    <3>8. t \notin Answered /\ Answered' = Answered \cup {t} /\ Answers' = [Answers EXCEPT ![t] = NoFde]
      BY <1>0, <2>1, <2>5, <3>5, NewAnswer DEF Ending
    <3> QED
      BY <2>1, <2>3, <3>1, <3>7, <3>8, AbsAnswers
  <2> QED
    BY <2>1, <2>4, <2>5
<1>4. CASE SearchUnseen(t)
  <2>1. /\ at[t] = "search" /\ cur[t] \in Modules /\ pc[t] \in 1..MaxPc
        /\ UNCHANGED <<table, mod, pc, cur>>
    BY <1>4, SearchUnseenCases
  <2>2. PICK o, x : /\ f' = [f EXCEPT ![t] = x]
                    /\ at' = [at EXCEPT ![t] = IF x # NoFde THEN "fini" ELSE "unseen"]
                    /\ RightAnswer(table[cur[t]], pc[t], x)
    BY <1>4, SearchUnseenCases
  <2>3. /\ \A u \in Threads : u # t => at'[u] = at[u] /\ f'[u] = f[u]
        /\ at'[t] = IF x # NoFde THEN "fini" ELSE "unseen"
        /\ f'[t] = x
    BY <1>0, <2>2
  <2>4. Registered' = Registered
    BY <1>4, <2>1, <2>3, SearchUnseenKeeps, SameRegistered
  <2>5. CASE x = NoFde
    <3>1. Answered' = Answered /\ Answers' = Answers
      BY <2>1, <2>3, <2>5, SameAnswers DEF Ending
    <3> QED
      BY <2>1, <2>4, <3>1, AbsSame
  <2>6. CASE x # NoFde
    <3>1. Registered = Linked
      BY <2>1, AllRegistered DEF Holding
    <3>2. Registered \in SUBSET Modules /\ cur[t] \in Registered
      BY <2>1, <3>1, LinkedTyped DEF Linked
    <3>3. x \in Abs!Known(Registered, pc[t])
      BY <1>0, <2>2, <2>6, <3>2, KnownIs DEF RightAnswer
    <3>4. t \notin Answered /\ Answered' = Answered \cup {t} /\ Answers' = [Answers EXCEPT ![t] = x]
      BY <2>1, <2>3, <2>6, NewAnswer DEF Ending
    <3>5. pc[t] # 0
      BY <1>0, <2>1
    <3> QED
      BY <2>1, <2>4, <3>3, <3>4, <3>5, AbsAnswers
  <2> QED
    BY <2>5, <2>6
<1>5. CASE Fini(t) \/ ReadBases(t)
  <2>1. /\ at[t] \in Ending /\ UNCHANGED <<table, mod>>
        /\ \/ at' = [at EXCEPT ![t] = "bases"] /\ UNCHANGED <<pc, f>>
           \/ /\ at' = [at EXCEPT ![t] = "idle"] /\ pc' = [pc EXCEPT ![t] = 0]
              /\ f' = [f EXCEPT ![t] = NoFde]
    BY <1>5 DEF Fini, ReadBases, Leave, Goto, Ending
  <2>2. Linked' = Linked
    BY <1>5, FiniKeeps, ReturnKeeps
  <2>3. Registered' = Registered
    BY <1>0, <2>1, <2>2, SameRegistered DEF Ending
  <2>4. CASE at' = [at EXCEPT ![t] = "bases"] /\ UNCHANGED <<pc, f>>
    <3>1. Answered' = Answered /\ Answers' = Answers
      BY <1>0, <2>1, <2>4, SameAnswers DEF Ending
    <3> QED
      BY <2>1, <2>3, <2>4, <3>1, AbsSame
  <2>5. CASE /\ at' = [at EXCEPT ![t] = "idle"] /\ pc' = [pc EXCEPT ![t] = 0]
             /\ f' = [f EXCEPT ![t] = NoFde]
    <3>1. t \in Answered /\ Answered' = Answered \ {t} /\ Answers' = [Answers EXCEPT ![t] = NoFde]
      BY <1>0, <2>1, <2>5, OldAnswer DEF Ending
    <3> QED
      BY <2>1, <2>3, <2>5, <3>1, AbsReturns
  <2> QED
    BY <2>1, <2>4, <2>5
<1> QED
  BY <1>1, <1>2, <1>3, <1>4, <1>5 DEF FindStep

(* The two lists, the lazy sort and the searches implement a set of        *)
(* modules: every answer is the FDE that the registered modules have for   *)
(* the program counter, for any threads and any tables.                    *)
THEOREM RegistryRefines == RegistrySpec => ImplementsRegistry
<1>1. RegistryInit => Abs!AbsInit
  <2> SUFFICES ASSUME RegistryInit
               PROVE  Abs!AbsInit
    OBVIOUS
  <2>1. Linked = {} /\ Answered = {}
    BY DEF RegistryInit, Linked, Elements, Answered
  <2> QED
    BY <2>1 DEF RegistryInit, Abs!AbsInit, Abs!NoFde, NoFde
<1>2. RegistryInv /\ [RegistryNext]_registryVars => [Abs!AbsNext]_(Abs!absVars)
  <2> SUFFICES ASSUME RegistryInv, [RegistryNext]_registryVars
               PROVE  [Abs!AbsNext]_(Abs!absVars)
    OBVIOUS
  <2>1. CASE UNCHANGED registryVars
    <3>1. UNCHANGED <<table, Registered, pc, Answered, Answers>>
      BY <2>1 DEF registryVars, lists, locals, Registered, Linked, Answered, Answers
    <3> QED
      BY <3>1, AbsSame
  <2>2. CASE RegistryNext
    BY <2>2, LoadingMaps, StartingMaps, FindingMaps DEF RegistryNext
  <2> QED
    BY <2>1, <2>2
<1> QED
  BY <1>1, <1>2, InvAlways, PTL DEF RegistrySpec, ImplementsRegistry, Abs!AbsSpec

=============================================================================
