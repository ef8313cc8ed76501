--------------------------- MODULE GthrThreadProofs ---------------------------
(***************************************************************************)
(* Proofs about create, join and detach, for any number of callers,        *)
(* threads and thread ids, of clients that do not overlap their calls and  *)
(* of clients with a single thread.                                        *)
(***************************************************************************)
EXTENDS GthrThread, TLAPS

-----------------------------------------------------------------------------
(* The invariant.  New nodes are handed out in order and are added at the  *)
(* start, so that the list goes down from the latest node.                 *)

Unlisted(n) ==
  \E a \in Agents : th[a] = n /\ pc[a] \in {"begin", "addNext", "addStart", "delFree"}

\* The nodes of the list.
Listed == {n \in Nodes : heap[n] = "live" /\ ~Unlisted(n)}

\* The list goes down through the nodes in L, from the latest to the main thread's.
Descends(L, first, nxt) ==
  /\ main_thread \in L /\ nxt[main_thread] = NULL
  /\ first \in L /\ \A n \in L : n <= first
  /\ \A n \in L : n # main_thread =>
       nxt[n] \in L /\ nxt[n] < n /\ \A m \in L : m < n => m <= nxt[n]

ListInv == Descends(Listed, start, next)

CallerLocs == {"idle", "joined", "refused"} \cup CreateLocs \cup FindLocs \cup JoinLocs
              \cup DetachLocs \cup DelLocs

\* Nodes are handed out in order.
HeapInv ==
  /\ heap[main_thread] = "live" /\ tid[main_thread] = main_thread
  /\ \A m, n \in Nodes : m < n /\ heap[m] = "unused" => heap[n] = "unused"
  /\ use = "single" => \A n \in Workers : n # 2 => heap[n] = "unused"

PlaceInv ==
  /\ \A c \in Callers : pc[c] \in CallerLocs
  /\ \A w \in Workers : pc[w] \in EntryLocs \cup DelLocs

\* A thread and its node.
WorkerOK(w) ==
  /\ heap[w] = "unused" => pc[w] = "none" /\ id[w] = 0 /\ quit[w] = 0 /\ detached[w] = 0 /\ w \notin handles
  /\ heap[w] = "live" /\ pc[w] # "none" => id[w] \in Ids
  /\ pc[w] = "none" => quit[w] = 0 /\ done[w] = 0
  /\ pc[w] # "none" => th[w] = w
  /\ quit[w] = 0 => pc[w] \in {"none", "func", "waitQuit"}
  /\ pc[w] \notin {"none", "func"} => result[w] = w
  /\ done[w] = 1 <=> pc[w] \in {"leave", "ended"} \cup DelLocs
  /\ pc[w] \in {"postDone", "leave", "ended"} \cup DelLocs => local[w] = detached[w]
  /\ pc[w] \in DelLocs => detached[w] = 1
  /\ pc[w] = "ended" /\ detached[w] = 1 => heap[w] = "freed"
  /\ detached[w] = 1 => use = "single"
  /\ heap[w] = "freed" => pc[w] \in {"none", "leave", "ended"} /\ w \notin handles
  /\ heap[w] = "freed" /\ pc[w] = "leave" => detached[w] = 0

WorkerInv == \A w \in Workers : WorkerOK(w)

\* A node that nobody has asked to be joined or detached.
Untouched(w) == heap[w] = "live" /\ quit[w] = 0 /\ detached[w] = 0

Creating(c) ==
  /\ th[c] \in Workers /\ Untouched(th[c]) /\ th[c] \notin handles
  /\ pc[th[c]] = "none" <=> pc[c] = "begin"
  /\ pc[c] \in {"addStart", "store"} => tid[th[c]] = id[th[c]]
  /\ pc[c] = "addStart" => next[th[c]] = start
  /\ pc[c] = "store" => th[c] \in Listed
  /\ \A n \in Nodes : heap[n] # "unused" => n <= th[c]

Looking(c) ==
  IF target[c] = 0
  THEN /\ th[c] \in Listed \cup {NULL}
       /\ \A n \in Nodes : heap[n] = "live" => tid[n] # arg[c]
  ELSE /\ Untouched(target[c]) /\ target[c] \in Listed \ handles /\ arg[c] = id[target[c]]
       /\ th[c] \in Listed /\ target[c] <= th[c]

Meant(c) ==
  /\ target[c] \in Workers \ handles /\ th[c] = target[c]
  /\ heap[th[c]] = "live" /\ pc[th[c]] # "none"
  /\ pc[c] # "delFree" => th[c] \in Listed

\* A caller where it is.
CallerOK(c) ==
  /\ pc[c] \in CreateLocs => Creating(c)
  /\ pc[c] \in FindLocs => Looking(c)
  /\ pc[c] \in JoinLocs \cup DetachLocs \cup DelLocs => Meant(c)
  /\ pc[c] \in {"joinCheck", "postQuit", "setDetached"} => Untouched(th[c])
  /\ pc[c] = "detachPost" => quit[th[c]] = 0 /\ detached[th[c]] = 1
  /\ pc[c] \in {"waitDone", "readResult"} \cup DelLocs => quit[th[c]] = 1 /\ detached[th[c]] = 0
  /\ pc[c] \in {"readResult"} \cup DelLocs => done[th[c]] = 1
  /\ pc[c] \in DelLocs => value[c] = target[c]
  /\ pc[c] = "joined" => value[c] = target[c]
  /\ pc[c] = "refused" => target[c] = 0
  /\ pc[c] \in {"walk"} \cup DetachLocs => use = "single"

CallerInv == \A c \in Callers : CallerOK(c)

\* __gthread_os2_thread_del finds its node.
DelOK(a) ==
  /\ pc[a] \in DelLocs => th[a] \in Workers
  /\ pc[a] \in DelLocs \ {"delFree"} => th[a] \in Listed
  /\ pc[a] = "delHead" => th[a] = start
  /\ pc[a] \in {"delWalk", "delUnlink"} => prev[a] \in Listed /\ th[a] < prev[a]
  /\ pc[a] = "delUnlink" => next[prev[a]] = th[a]

DelInv == \A a \in Agents : DelOK(a)

\* The thread that a caller deals with.
Holds(c, w) ==
  \/ pc[c] \in CreateLocs /\ th[c] = w
  \/ pc[c] \in FindLocs \cup JoinLocs \cup DetachLocs \cup DelLocs /\ target[c] = w

\* A detached thread that has been let go.
Loose(w) == heap[w] = "live" /\ detached[w] = 1 /\ quit[w] = 1

OwnerInv ==
  \A w \in Workers :
    /\ heap[w] = "live" => w \in handles \/ Loose(w) \/ \E c \in Callers : Holds(c, w)
    /\ Loose(w) /\ pc[w] # "delFree" => w \in Listed

\* Calls do not overlap, but those for the id of the only thread when it is gone.
AloneInv ==
  /\ \A c, d \in Callers : c # d /\ pc[c] # "idle" /\ pc[d] # "idle" => use = "single" /\ heap[2] = "freed"
  /\ \A c \in Callers : use = "single" /\ pc[c] # "idle" => Holds(c, 2) \/ heap[2] = "freed"
  /\ \A w \in Workers : Loose(w) => \A c \in Callers : pc[c] = "idle"

HandleInv ==
  \A w \in handles : Untouched(w) /\ pc[w] # "none" /\ w \in Listed

IdInv ==
  /\ \A w \in Workers : w \in Listed => tid[w] = id[w] /\ pc[w] # "none"
  /\ \A v, w \in Workers :
       heap[v] = "live" /\ pc[v] # "none" /\ heap[w] = "live" /\ pc[w] # "none" /\ id[v] = id[w]
       => v = w

ThreadInv ==
  /\ ThreadTypeOK /\ PlaceInv /\ HeapInv /\ WorkerInv /\ CallerInv /\ DelInv /\ ListInv
  /\ OwnerInv /\ AloneInv /\ HandleInv /\ IdInv

-----------------------------------------------------------------------------
\* The sets that the state is made of.
LEMMA SetFacts ==
  /\ Workers \subseteq Nodes /\ Nodes \subseteq Nat /\ Ids \subseteq Nat
  /\ main_thread \in Nodes /\ main_thread \notin Workers /\ main_thread \notin Ids
  /\ NULL \notin Nodes /\ 0 \notin Workers /\ 0 \notin Ids
  /\ \A n \in Nodes : n = main_thread \/ n \in Workers
  /\ Callers \cap Nodes = {} /\ Agents = Callers \cup Workers
  /\ 2 \in Workers /\ \A n \in Nodes : main_thread <= n
  BY ThreadAssumption, CallersAssumption
  DEF Workers, Nodes, Ids, main_thread, NULL, Agents

\* The types of the variables, one by one.
LEMMA TypeFacts ==
  ASSUME ThreadTypeOK
  PROVE  /\ use \in Uses
         /\ start \in Nodes
         /\ heap \in [Nodes -> {"unused", "live", "freed"}]
         /\ tid \in [Nodes -> {0, main_thread} \cup Ids]
         /\ next \in [Nodes -> {NULL} \cup Nodes]
         /\ detached \in [Nodes -> {0, 1}] /\ quit \in [Nodes -> {0, 1}] /\ done \in [Nodes -> {0, 1}]
         /\ result \in [Nodes -> {0} \cup Workers]
         /\ id \in [Workers -> {0} \cup Ids]
         /\ handles \subseteq Workers
         /\ pc \in [Agents -> Locations]
         /\ arg \in [Agents -> {0} \cup Ids]
         /\ th \in [Agents -> {NULL} \cup Nodes]
         /\ prev \in [Agents -> {NULL} \cup Nodes]
         /\ local \in [Agents -> {0, 1}]
         /\ value \in [Agents -> {0} \cup Workers]
         /\ target \in [Agents -> {0} \cup Workers]
  BY DEF ThreadTypeOK

\* The list changes when a node comes or goes.
LEMMA SameListed ==
  ASSUME heap' = heap,
         \A a \in Agents :
           /\ pc[a] \in {"begin", "addNext", "addStart", "delFree"}
                <=> pc'[a] \in {"begin", "addNext", "addStart", "delFree"}
           /\ pc[a] \in {"begin", "addNext", "addStart", "delFree"} => th'[a] = th[a]
  PROVE  Listed' = Listed
  BY DEF Listed, Unlisted

\* What is in the list.
LEMMA ListedFacts ==
  Listed \subseteq Nodes /\ \A n \in Listed : heap[n] = "live"
  BY DEF Listed

\* While a caller deals with a thread, the others are idle.
LEMMA OthersIdle ==
  ASSUME ThreadInv, NEW c \in Callers, NEW w \in Workers, Holds(c, w), heap[w] = "live"
  PROVE  /\ \A d \in Callers : d # c => pc[d] = "idle"
         /\ \A v \in Workers : ~Loose(v)
<1>1. pc[c] # "idle"
  BY DEF Holds, CreateLocs, FindLocs, JoinLocs, DetachLocs, DelLocs
<1>2. use = "single" => heap[2] # "freed"
  BY DEF ThreadInv, HeapInv
<1>3. \A d \in Callers : d # c => pc[d] = "idle"
  BY <1>1, <1>2 DEF ThreadInv, AloneInv
<1>4. \A v \in Workers : ~Loose(v)
  BY <1>1 DEF ThreadInv, AloneInv
<1> QED
  BY <1>3, <1>4

(* A caller that goes on, or returns, and changes only its own locals.     *)
LEMMA CallerMoves ==
  ASSUME ThreadInv, NEW c \in Callers, NEW l \in CallerLocs,
         pc[c] # "idle", pc' = [pc EXCEPT ![c] = l],
         UNCHANGED <<use, list, node, id, handles, arg, target, local>>,
         th' \in [Agents -> {NULL} \cup Nodes], prev' \in [Agents -> {NULL} \cup Nodes],
         value' \in [Agents -> {0} \cup Workers],
         \A a \in Agents : a # c => th'[a] = th[a] /\ prev'[a] = prev[a] /\ value'[a] = value[a],
         Listed' = Listed,
         CallerOK(c)', DelOK(c)',
         \A w \in Workers : heap[w] = "live" /\ Holds(c, w) => Holds(c, w)'
  PROVE  ThreadInv'
<1> USE SetFacts DEF ThreadInv
<1>0. /\ use \in Uses
      /\ heap \in [Nodes -> {"unused", "live", "freed"}]
      /\ detached \in [Nodes -> {0, 1}] /\ quit \in [Nodes -> {0, 1}] /\ done \in [Nodes -> {0, 1}]
      /\ pc \in [Agents -> Locations]
      /\ target \in [Agents -> {0} \cup Workers]
      /\ handles \subseteq Workers
  BY TypeFacts
<1>1. /\ \A a \in Agents : a # c => pc'[a] = pc[a] /\ th'[a] = th[a] /\ prev'[a] = prev[a] /\ value'[a] = value[a]
      /\ \A w \in Workers : w # c /\ pc'[w] = pc[w] /\ th'[w] = th[w]
      /\ pc'[c] = l /\ c \in Agents
      /\ UNCHANGED <<use, start, tid, next, heap, detached, quit, done, result, id, handles, arg, target, local>>
  BY <1>0 DEF list, node
<1>2. ThreadTypeOK'
  <2>1. pc' \in [Agents -> Locations]
    BY <1>0 DEF CallerLocs, Locations
  <2> QED
    BY <1>1, <2>1 DEF ThreadTypeOK
<1>3. PlaceInv'
  BY <1>1 DEF PlaceInv
<1>4. HeapInv'
  BY <1>1 DEF HeapInv
<1>5. WorkerInv'
  BY <1>1 DEF WorkerInv, WorkerOK
<1>6. CallerInv'
  <2> SUFFICES ASSUME NEW d \in Callers, d # c
               PROVE  CallerOK(d)'
    BY DEF CallerInv
  <2>1. CallerOK(d)
    BY DEF CallerInv
  <2>2. pc'[d] = pc[d] /\ th'[d] = th[d] /\ value'[d] = value[d] /\ target'[d] = target[d] /\ arg'[d] = arg[d]
    BY <1>1
  <2>3. Untouched(th[d])' = Untouched(th[d]) /\ Untouched(target[d])' = Untouched(target[d])
    BY <1>1, <2>2 DEF Untouched
  <2>4. pc[d] \in CreateLocs => Creating(d)'
    BY <1>0, <1>1, <2>1, <2>2, <2>3 DEF CallerOK, Creating
  <2>5. pc[d] \in FindLocs => Looking(d)'
    BY <1>1, <2>1, <2>2, <2>3 DEF CallerOK, Looking
  <2>6. pc[d] \in JoinLocs \cup DetachLocs \cup DelLocs => Meant(d)'
    BY <1>0, <1>1, <2>1, <2>2 DEF CallerOK, Meant
  <2> QED
    BY <1>1, <2>1, <2>2, <2>3, <2>4, <2>5, <2>6 DEF CallerOK
<1>7. DelInv'
  BY <1>1 DEF DelInv, DelOK
<1>8. ListInv'
  BY <1>1 DEF ListInv, Descends
<1>9. OwnerInv'
  <2>1. \A w \in Workers : Loose(w)' <=> Loose(w)
    BY <1>1 DEF Loose
  <2>2. \A w \in Workers : \A d \in Callers : heap[w] = "live" /\ Holds(d, w) => Holds(d, w)'
    BY <1>1 DEF Holds
  <2> QED
    BY <1>1, <2>1, <2>2 DEF OwnerInv
<1>10. AloneInv'
  <2>1. \A w \in Workers : Loose(w)' <=> Loose(w)
    BY <1>1 DEF Loose
  <2>2. \A d \in Callers : heap[2] = "live" /\ Holds(d, 2) => Holds(d, 2)'
    BY <1>1 DEF Holds
  <2>3. \A d \in Callers : pc'[d] # "idle" => pc[d] # "idle"
    BY <1>1
  <2>4. use = "single" => \A d \in Callers : Holds(d, 2) => heap[2] = "live" \/ heap[2] = "freed"
    <3> SUFFICES ASSUME NEW d \in Callers, Holds(d, 2)
                 PROVE  heap[2] # "unused"
      BY <1>0
    <3>1. CallerOK(d)
      BY DEF CallerInv
    <3> QED
      BY <3>1 DEF Holds, CallerOK, Creating, Looking, Meant, Untouched
  <2> QED
    BY <1>1, <2>1, <2>2, <2>3, <2>4 DEF AloneInv
<1>11. HandleInv'
  BY <1>0, <1>1 DEF HandleInv, Untouched
<1>12. IdInv'
  BY <1>1 DEF IdInv
<1> QED
  BY <1>2, <1>3, <1>4, <1>5, <1>6, <1>7, <1>8, <1>9, <1>10, <1>11, <1>12

\* The search for a node reaches the one that is meant, and no other.
LEMMA FindKeeps ==
  ASSUME ThreadInv, NEW c \in Callers, UNCHANGED use, JoinFind(c) \/ DetachFind(c)
  PROVE  ThreadInv'
<1> USE SetFacts DEF ThreadInv
<1>0. ThreadTypeOK
  OBVIOUS
<1> DEFINE here == pc[c]
           found == IF pc[c] = "find" THEN "joinCheck" ELSE "setDetached"
<1>1. /\ pc[c] \in FindLocs /\ FindLoop(c, here, found)
      /\ here = "walk" => use = "single"
      /\ found \in {"joinCheck", "setDetached"}
      /\ found = "setDetached" => here = "walk"
  BY DEF JoinFind, DetachFind, FindLoop, FindLocs, CallerInv, CallerOK
<1>2. /\ UNCHANGED <<use, list, node, id, handles, arg, target, local, prev, value>>
      /\ c \in Agents /\ \A a \in Agents : a # c => th'[a] = th[a]
      /\ th' \in [Agents -> {NULL} \cup Nodes]
  <2>1. th \in [Agents -> {NULL} \cup Nodes] /\ next \in [Nodes -> {NULL} \cup Nodes] /\ c \in Agents
    BY <1>0 DEF ThreadTypeOK
  <2> QED
    BY <1>1, <2>1 DEF FindLoop
<1>3. Looking(c) /\ CallerOK(c) /\ DelOK(c)
  BY <1>1, <1>2 DEF CallerInv, CallerOK, DelInv
<1>4. /\ Listed \subseteq Nodes /\ \A n \in Listed : heap[n] = "live"
      /\ Descends(Listed, start, next)
  BY ListedFacts DEF ListInv
<1>5. target[c] # 0 => /\ target[c] \in Workers /\ tid[target[c]] = id[target[c]] /\ arg[c] \in Ids
                       /\ pc[target[c]] # "none" /\ heap[target[c]] = "live"
  <2>1. ASSUME target[c] # 0
        PROVE  /\ target[c] \in Workers /\ tid[target[c]] = id[target[c]] /\ arg[c] \in Ids
               /\ pc[target[c]] # "none" /\ heap[target[c]] = "live"
    <3>1. target[c] \in Workers /\ target[c] \in Listed /\ arg[c] = id[target[c]]
      BY <1>0, <1>2, <1>3, <2>1 DEF ThreadTypeOK, Looking
    <3>2. heap[target[c]] = "live" /\ pc[target[c]] # "none" /\ tid[target[c]] = id[target[c]]
      BY <1>4, <3>1 DEF IdInv
    <3>3. id[target[c]] \in Ids
      BY <3>1, <3>2 DEF WorkerInv, WorkerOK
    <3> QED
      BY <3>1, <3>2, <3>3
  <2> QED
    BY <2>1
<1>6. ASSUME th[c] = NULL, pc' = [pc EXCEPT ![c] = "refused"], th' = th
      PROVE  ThreadInv'
  <2>1. target[c] = 0
    BY <1>3, <1>4, <1>6 DEF Looking
  <2>2. Listed' = Listed
    BY <1>0, <1>1, <1>2, <1>6, SameListed DEF ThreadTypeOK, node, FindLocs
  <2>3. pc'[c] = "refused"
    BY <1>0, <1>2, <1>6 DEF ThreadTypeOK
  <2>4. CallerOK(c)' /\ DelOK(c)'
    BY <1>2, <2>1, <2>3 DEF CallerOK, DelOK, CreateLocs, FindLocs, JoinLocs, DetachLocs, DelLocs
  <2>5. \A w \in Workers : ~Holds(c, w)
    BY <1>1, <2>1 DEF Holds, CreateLocs, FindLocs
  <2>6. pc[c] # "idle" /\ "refused" \in CallerLocs
    BY <1>1 DEF FindLocs, CallerLocs
  <2> QED
    BY <1>0, <1>2, <1>6, <2>2, <2>4, <2>5, <2>6, CallerMoves DEF ThreadTypeOK
<1>7. ASSUME th[c] # NULL, Found(c), pc' = [pc EXCEPT ![c] = found], th' = th
      PROVE  ThreadInv'
  <2>1. th[c] \in Listed
    BY <1>3, <1>7 DEF Looking
  <2>2. target[c] # 0
    BY <1>3, <1>4, <1>7, <2>1 DEF Looking, Found
  <2>3. th[c] # main_thread
    BY <1>5, <1>7, <2>2 DEF Found, HeapInv
  <2>4. th[c] \in Workers
    BY <1>4, <2>1, <2>3
  <2>5. tid[th[c]] = id[th[c]] /\ pc[th[c]] # "none" /\ heap[th[c]] = "live"
    BY <1>4, <2>1, <2>4 DEF IdInv
  <2>6. th[c] = target[c]
    <3>1. id[th[c]] = id[target[c]]
      BY <1>3, <1>7, <2>2, <2>5 DEF Found, Looking
    <3> QED
      BY <1>5, <2>2, <2>4, <2>5, <3>1 DEF IdInv
  <2>7. pc'[c] = found /\ \A w \in Workers : pc'[w] = pc[w]
    BY <1>0, <1>2, <1>7 DEF ThreadTypeOK
  <2>8. Listed' = Listed
    BY <1>0, <1>1, <1>2, <1>7, SameListed DEF ThreadTypeOK, node, FindLocs
  <2>9. Untouched(target[c]) /\ target[c] \notin handles
    BY <1>3, <2>2 DEF Looking
  <2>10. Meant(c)'
    BY <1>1, <1>2, <1>5, <1>7, <2>1, <2>2, <2>6, <2>7, <2>8, <2>9 DEF Meant, node
  <2>11. Untouched(th[c])'
    BY <1>2, <1>7, <2>6, <2>9 DEF Untouched, node
  <2> HIDE DEF found, here
  <2>12. CallerOK(c)' /\ DelOK(c)'
    BY <1>1, <1>2, <2>7, <2>10, <2>11
    DEF CallerOK, DelOK, CreateLocs, FindLocs, JoinLocs, DetachLocs, DelLocs, here
  <2>13. \A w \in Workers : Holds(c, w) => Holds(c, w)'
    BY <1>1, <1>2, <2>7 DEF Holds, CreateLocs, FindLocs, JoinLocs, DetachLocs
  <2>14. pc[c] # "idle" /\ found \in CallerLocs
    BY <1>1 DEF FindLocs, CallerLocs, JoinLocs, DetachLocs
  <2> QED
    BY <1>0, <1>2, <1>7, <2>8, <2>12, <2>13, <2>14, CallerMoves DEF ThreadTypeOK
<1>8. ASSUME th[c] # NULL, ~Found(c), th' = [th EXCEPT ![c] = next[th[c]]], pc' = pc
      PROVE  ThreadInv'
  <2>1. th[c] \in Listed /\ th[c] \in Nodes
    BY <1>3, <1>4, <1>8 DEF Looking
  <2>2. th'[c] = next[th[c]] /\ next[th[c]] \in Listed \cup {NULL}
    BY <1>0, <1>2, <1>4, <1>8, <2>1 DEF ThreadTypeOK, Descends
  <2>3. ASSUME target[c] # 0
        PROVE  next[th[c]] \in Listed /\ target[c] <= next[th[c]]
    <3>1. target[c] # th[c]
      BY <1>3, <1>5, <1>8, <2>3 DEF Looking, Found
    <3>a. target[c] \in Nat /\ th[c] \in Nat /\ main_thread \in Nat /\ main_thread <= target[c]
      BY <1>5, <2>1, <2>3
    <3>b. target[c] \in Listed /\ target[c] <= th[c]
      BY <1>3, <2>3 DEF Looking
    <3>2. target[c] \in Listed /\ target[c] < th[c] /\ th[c] # main_thread
      BY <3>1, <3>a, <3>b
    <3> QED
      BY <1>4, <2>1, <3>2 DEF Descends
  <2>4. Listed' = Listed
    BY <1>0, <1>1, <1>2, <1>8, SameListed DEF ThreadTypeOK, node, FindLocs
  <2>5. Looking(c)'
    <3>1. Untouched(target[c])' = Untouched(target[c])
      BY <1>2 DEF Untouched, node
    <3> QED
      BY <1>2, <1>3, <2>2, <2>3, <2>4, <3>1 DEF Looking, node, list
  <2>6. CallerOK(c)' /\ DelOK(c)'
    BY <1>1, <1>2, <1>3, <1>8, <2>5
    DEF CallerOK, DelOK, CreateLocs, FindLocs, JoinLocs, DetachLocs, DelLocs
  <2>7. \A w \in Workers : Holds(c, w) => Holds(c, w)'
    BY <1>1, <1>2, <1>8 DEF Holds, CreateLocs, FindLocs
  <2>8. pc[c] # "idle" /\ pc[c] \in CallerLocs /\ pc' = [pc EXCEPT ![c] = pc[c]]
    BY <1>0, <1>1, <1>8 DEF ThreadTypeOK, FindLocs, CallerLocs
  <2> QED
    BY <1>0, <1>2, <2>4, <2>6, <2>7, <2>8, CallerMoves DEF ThreadTypeOK
<1> QED
  BY <1>1, <1>6, <1>7, <1>8 DEF FindLoop, Goto

\* A thread that is joined is not detached.
LEMMA JoinCheckKeeps ==
  ASSUME ThreadInv, NEW c \in Callers, UNCHANGED use, JoinCheck(c)
  PROVE  ThreadInv'
<1> USE SetFacts DEF ThreadInv
<1>0. ThreadTypeOK
  OBVIOUS
<1>1. /\ pc[c] = "joinCheck" /\ UNCHANGED <<list, node, id, handles, locals>>
      /\ pc' = [pc EXCEPT ![c] = IF detached[th[c]] = 1 THEN "refused" ELSE "postQuit"]
      /\ c \in Agents
  BY DEF JoinCheck, Goto
<1>2. CallerOK(c) /\ Meant(c) /\ Untouched(th[c])
  BY <1>1 DEF CallerInv, CallerOK, JoinLocs
<1>3. pc' = [pc EXCEPT ![c] = "postQuit"]
  BY <1>1, <1>2 DEF Untouched
<1>4. pc'[c] = "postQuit" /\ \A w \in Workers : pc'[w] = pc[w]
  <2>1. pc \in [Agents -> Locations]
    BY <1>0 DEF ThreadTypeOK
  <2> QED
    BY <1>1, <1>3, <2>1
<1>5. Listed' = Listed
  BY <1>0, <1>1, <1>3, SameListed DEF ThreadTypeOK, node, locals
<1>6. CallerOK(c)' /\ DelOK(c)'
  BY <1>1, <1>2, <1>4, <1>5
  DEF CallerOK, DelOK, Meant, Untouched, CreateLocs, FindLocs, JoinLocs, DetachLocs, DelLocs, node, locals
<1>7. \A w \in Workers : Holds(c, w) => Holds(c, w)'
  BY <1>1, <1>4 DEF Holds, CreateLocs, FindLocs, JoinLocs, DetachLocs, DelLocs, locals
<1>8. pc[c] # "idle" /\ "postQuit" \in CallerLocs
  BY <1>1 DEF CallerLocs, JoinLocs
<1> QED
  BY <1>0, <1>1, <1>3, <1>5, <1>6, <1>7, <1>8, CallerMoves DEF ThreadTypeOK, locals

\* The joiner has seen hevDone.
LEMMA WaitDoneKeeps ==
  ASSUME ThreadInv, NEW c \in Callers, UNCHANGED use, WaitDone(c)
  PROVE  ThreadInv'
<1> USE SetFacts DEF ThreadInv
<1>0. ThreadTypeOK
  OBVIOUS
<1>1. /\ pc[c] = "waitDone" /\ UNCHANGED <<list, node, id, handles, locals>>
      /\ pc' = [pc EXCEPT ![c] = "readResult"] /\ done[th[c]] = 1
      /\ c \in Agents
  BY DEF WaitDone, Goto, DoneSeen
<1>2. CallerOK(c) /\ Meant(c)
  BY <1>1 DEF CallerInv, CallerOK, JoinLocs
<1>4. pc'[c] = "readResult" /\ \A w \in Workers : pc'[w] = pc[w]
  BY <1>0, <1>1 DEF ThreadTypeOK
<1>5. Listed' = Listed
  BY <1>0, <1>1, SameListed DEF ThreadTypeOK, node, locals
<1>6. CallerOK(c)' /\ DelOK(c)'
  BY <1>1, <1>2, <1>4, <1>5
  DEF CallerOK, DelOK, Meant, CreateLocs, FindLocs, JoinLocs, DetachLocs, DelLocs, node, locals
<1>7. \A w \in Workers : Holds(c, w) => Holds(c, w)'
  BY <1>1, <1>4 DEF Holds, CreateLocs, FindLocs, JoinLocs, DetachLocs, DelLocs, locals
<1>8. pc[c] # "idle" /\ "readResult" \in CallerLocs
  BY <1>1 DEF CallerLocs, JoinLocs
<1> QED
  BY <1>0, <1>1, <1>5, <1>6, <1>7, <1>8, CallerMoves DEF ThreadTypeOK, locals

\* The joiner has the value of the thread that was meant.
LEMMA ReadResultKeeps ==
  ASSUME ThreadInv, NEW c \in Callers, UNCHANGED use, ReadResult(c)
  PROVE  ThreadInv'
<1> USE SetFacts DEF ThreadInv
<1>0. ThreadTypeOK
  OBVIOUS
<1>1. /\ pc[c] = "readResult" /\ UNCHANGED <<list, node, id, handles, arg, th, prev, local, target>>
      /\ pc' = [pc EXCEPT ![c] = "delTest"] /\ value' = [value EXCEPT ![c] = result[th[c]]]
      /\ c \in Agents
  BY DEF ReadResult, Goto
<1>2. CallerOK(c) /\ Meant(c) /\ done[th[c]] = 1 /\ DelOK(c)
  BY <1>1 DEF CallerInv, CallerOK, JoinLocs, DelInv
<1>3. result[th[c]] = th[c]
  <2>1. WorkerOK(th[c])
    BY <1>2 DEF WorkerInv, Meant
  <2> QED
    BY <1>2, <2>1 DEF WorkerOK, DelLocs
<1>4. /\ pc'[c] = "delTest" /\ value'[c] = target[c] /\ \A w \in Workers : pc'[w] = pc[w]
      /\ \A a \in Agents : a # c => value'[a] = value[a]
      /\ value' \in [Agents -> {0} \cup Workers]
  BY <1>0, <1>1, <1>2, <1>3 DEF ThreadTypeOK, Meant
<1>5. Listed' = Listed
  BY <1>0, <1>1, SameListed DEF ThreadTypeOK, node
<1>6. CallerOK(c)'
  BY <1>1, <1>2, <1>4, <1>5
  DEF CallerOK, Meant, CreateLocs, FindLocs, JoinLocs, DetachLocs, DelLocs, node
<1>a. DelOK(c)'
  BY <1>1, <1>2, <1>4, <1>5 DEF DelOK, DelLocs, Meant
<1>7. \A w \in Workers : Holds(c, w) => Holds(c, w)'
  BY <1>1, <1>4 DEF Holds, CreateLocs, FindLocs, JoinLocs, DetachLocs, DelLocs
<1>8. pc[c] # "idle" /\ "delTest" \in CallerLocs
  BY <1>1 DEF CallerLocs, DelLocs
<1> QED
  BY <1>0, <1>1, <1>4, <1>5, <1>6, <1>a, <1>7, <1>8, CallerMoves DEF ThreadTypeOK

\* join or detach returns.
LEMMA ReturnKeeps ==
  ASSUME ThreadInv, NEW c \in Callers, UNCHANGED use, JoinReturns(c) \/ Refused(c)
  PROVE  ThreadInv'
<1> USE SetFacts DEF ThreadInv
<1>0. ThreadTypeOK
  OBVIOUS
<1>1. /\ pc[c] \in {"joined", "refused"} /\ UNCHANGED <<list, node, id, handles, locals>>
      /\ pc' = [pc EXCEPT ![c] = "idle"]
      /\ c \in Agents
  BY DEF JoinReturns, Refused, Goto
<1>4. pc'[c] = "idle"
  BY <1>0, <1>1 DEF ThreadTypeOK
<1>5. Listed' = Listed
  BY <1>0, <1>1, SameListed DEF ThreadTypeOK, node, locals
<1>6. CallerOK(c)' /\ DelOK(c)'
  BY <1>4 DEF CallerOK, DelOK, CreateLocs, FindLocs, JoinLocs, DetachLocs, DelLocs
<1>7. \A w \in Workers : ~Holds(c, w)
  BY <1>1 DEF Holds, CreateLocs, FindLocs, JoinLocs, DetachLocs, DelLocs
<1>8. pc[c] # "idle" /\ "idle" \in CallerLocs
  BY <1>1 DEF CallerLocs
<1> QED
  BY <1>0, <1>1, <1>5, <1>6, <1>7, <1>8, CallerMoves DEF ThreadTypeOK, locals

\* The joiner looks for the place of its node in the list.
LEMMA CallerDelWalkKeeps ==
  ASSUME ThreadInv, NEW c \in Callers, UNCHANGED use, DelTest(c) \/ DelWalk(c)
  PROVE  ThreadInv'
<1> USE SetFacts DEF ThreadInv
<1>0. ThreadTypeOK
  OBVIOUS
<1>1. /\ pc[c] \in {"delTest", "delWalk"}
      /\ UNCHANGED <<list, node, id, handles, arg, th, local, value, target>>
      /\ c \in Agents /\ \E l \in {"delHead", "delWalk", "delUnlink"} : pc' = [pc EXCEPT ![c] = l]
  BY <1>0 DEF ThreadTypeOK, DelTest, DelWalk, Goto
<1>2. CallerOK(c) /\ Meant(c) /\ DelOK(c) /\ th[c] \in Listed /\ th[c] \in Workers
  BY <1>1 DEF CallerInv, CallerOK, DelLocs, DelInv, Meant
<1>3. Listed \subseteq Nodes /\ Descends(Listed, start, next)
  BY ListedFacts DEF ListInv
<1>4. Listed' = Listed
  BY <1>0, <1>1, SameListed DEF ThreadTypeOK, node
<1>5. /\ prev' \in [Agents -> {NULL} \cup Nodes]
      /\ \A a \in Agents : a # c => prev'[a] = prev[a]
      /\ pc'[c] = "delHead" => th[c] = start
      /\ pc'[c] \in {"delWalk", "delUnlink"} => prev'[c] \in Listed /\ th[c] < prev'[c]
      /\ pc'[c] = "delUnlink" => next[prev'[c]] = th[c]
  <2>1. CASE DelTest(c) /\ th[c] = start
    BY <1>0, <1>1, <2>1 DEF ThreadTypeOK, DelTest, Goto
  <2>2. CASE DelTest(c) /\ th[c] # start
    <3>1. pc' = [pc EXCEPT ![c] = "delWalk"] /\ prev' = [prev EXCEPT ![c] = start]
      BY <2>2 DEF DelTest, Goto
    <3>2. start \in Listed /\ th[c] <= start /\ th[c] \in Nat /\ start \in Nat
      BY <1>0, <1>2, <1>3 DEF ThreadTypeOK, Descends
    <3> QED
      BY <1>0, <1>1, <2>2, <3>1, <3>2 DEF ThreadTypeOK
  <2>3. CASE DelWalk(c)
    <3>1. pc[c] = "delWalk" /\ prev[c] \in Listed /\ th[c] < prev[c]
      BY <2>3, <1>2 DEF DelOK, DelWalk
    <3>2. prev[c] # main_thread /\ prev[c] \in Nat /\ th[c] \in Nat
      <4>1. prev[c] \in Nat /\ th[c] \in Nat /\ main_thread \in Nat /\ main_thread <= th[c]
        BY <1>2, <1>3, <3>1
      <4> QED
        BY <3>1, <4>1
    <3>3. next[prev[c]] \in Listed /\ th[c] <= next[prev[c]] /\ next[prev[c]] \in Nat
      BY <1>2, <1>3, <3>1, <3>2 DEF Descends
    <3>4. CASE next[prev[c]] = th[c]
      BY <1>0, <1>1, <2>3, <3>1, <3>4 DEF ThreadTypeOK, DelWalk, Goto
    <3>5. CASE next[prev[c]] # th[c]
      <4>1. prev' = [prev EXCEPT ![c] = next[prev[c]]] /\ pc' = pc
        BY <2>3, <3>5 DEF DelWalk
      <4> QED
        BY <1>0, <1>1, <1>3, <3>1, <3>2, <3>3, <3>5, <4>1 DEF ThreadTypeOK
    <3> QED
      BY <3>4, <3>5
  <2> QED
    BY <2>1, <2>2, <2>3
<1>6. PICK l \in {"delHead", "delWalk", "delUnlink"} : pc' = [pc EXCEPT ![c] = l]
  BY <1>1
<1>7. pc'[c] = l /\ \A w \in Workers : pc'[w] = pc[w]
  BY <1>0, <1>1, <1>6 DEF ThreadTypeOK
<1>8. CallerOK(c)'
  BY <1>1, <1>2, <1>4, <1>7
  DEF CallerOK, Meant, CreateLocs, FindLocs, JoinLocs, DetachLocs, DelLocs, node
<1>9. DelOK(c)'
  BY <1>1, <1>2, <1>4, <1>5, <1>7 DEF DelOK, DelLocs, list
<1>10. \A w \in Workers : Holds(c, w) => Holds(c, w)'
  BY <1>1, <1>7 DEF Holds, CreateLocs, FindLocs, JoinLocs, DetachLocs, DelLocs
<1>11. pc[c] # "idle" /\ l \in CallerLocs
  BY <1>1 DEF CallerLocs, DelLocs
<1> QED
  BY <1>0, <1>1, <1>4, <1>5, <1>6, <1>8, <1>9, <1>10, <1>11, CallerMoves DEF ThreadTypeOK

(* A caller that writes to the node it deals with.  Afterwards it still    *)
(* deals with it, or has let the thread loose.                             *)
LEMMA CallerTouches ==
  ASSUME ThreadInv, NEW c \in Callers, NEW l \in CallerLocs, NEW w \in Workers,
         Holds(c, w), heap[w] = "live", w \notin handles, w \in Listed,
         pc' = [pc EXCEPT ![c] = l],
         UNCHANGED <<use, list, heap, done, result, id, handles, locals>>,
         quit' \in [Nodes -> {0, 1}], detached' \in [Nodes -> {0, 1}],
         \A n \in Nodes : n # w => quit'[n] = quit[n] /\ detached'[n] = detached[n],
         Listed' = Listed, WorkerOK(w)', CallerOK(c)', DelOK(c)',
         IF l = "idle" THEN Loose(w)' ELSE Holds(c, w)' /\ ~Loose(w)'
  PROVE  ThreadInv'
<1> USE SetFacts DEF ThreadInv
<1>0. ThreadTypeOK
  OBVIOUS
<1>1. /\ \A a \in Agents : a # c => pc'[a] = pc[a]
      /\ \A v \in Workers : v # c /\ pc'[v] = pc[v]
      /\ pc'[c] = l /\ c \in Agents
      /\ UNCHANGED <<use, start, tid, next, heap, done, result, id, handles, arg, th, prev, local, value, target>>
  BY <1>0 DEF ThreadTypeOK, list, locals
<1>2. /\ \A d \in Callers : d # c => pc[d] = "idle"
      /\ \A v \in Workers : ~Loose(v)
  BY OthersIdle
<1>a. \A v \in Workers : v # w => ~Loose(v)'
  BY <1>1, <1>2 DEF Loose
<1>3. ThreadTypeOK'
  <2>1. pc' \in [Agents -> Locations]
    BY <1>0 DEF ThreadTypeOK, CallerLocs, Locations
  <2> QED
    BY <1>1, <2>1 DEF ThreadTypeOK
<1>4. PlaceInv' /\ HeapInv'
  BY <1>1 DEF PlaceInv, HeapInv
<1>5. WorkerInv'
  BY <1>1 DEF WorkerInv, WorkerOK
<1>6. CallerInv'
  BY <1>1, <1>2
  DEF CallerInv, CallerOK, CreateLocs, FindLocs, JoinLocs, DetachLocs, DelLocs
<1>7. DelInv'
  BY <1>1 DEF DelInv, DelOK
<1>8. ListInv'
  BY <1>1 DEF ListInv, Descends
<1>9. OwnerInv'
  <2>1. Loose(w)' \/ Holds(c, w)'
    OBVIOUS
  <2>2. \A v \in Workers : v # w => ~Holds(c, v)
    BY DEF Holds, CreateLocs, FindLocs, JoinLocs, DetachLocs, DelLocs
  <2>3. \A v \in Workers : v # w /\ heap[v] = "live" => v \in handles
    <3>1. \A v \in Workers, d \in Callers : d # c => ~Holds(d, v)
      BY <1>2 DEF Holds, CreateLocs, FindLocs, JoinLocs, DetachLocs, DelLocs
    <3> QED
      BY <1>2, <2>2, <3>1 DEF OwnerInv
  <2> QED
    BY <1>1, <1>a, <2>1, <2>3 DEF OwnerInv
<1>10. AloneInv'
  <2>1. Holds(c, w) => pc[c] # "idle"
    BY DEF Holds, CreateLocs, FindLocs, JoinLocs, DetachLocs, DelLocs
  <2>2. use = "single" => w = 2
    BY DEF HeapInv
  <2> QED
    BY <1>1, <1>2, <1>a, <2>1, <2>2 DEF AloneInv
<1>11. HandleInv'
  BY <1>0, <1>1 DEF ThreadTypeOK, HandleInv, Untouched
<1>12. IdInv'
  BY <1>1 DEF IdInv
<1> QED
  BY <1>3, <1>4, <1>5, <1>6, <1>7, <1>8, <1>9, <1>10, <1>11, <1>12

\* The joiner lets the thread go.
LEMMA PostQuitKeeps ==
  ASSUME ThreadInv, NEW c \in Callers, UNCHANGED use, PostQuit(c)
  PROVE  ThreadInv'
<1> USE SetFacts DEF ThreadInv
<1>0. ThreadTypeOK
  OBVIOUS
<1>1. /\ pc[c] = "postQuit" /\ UNCHANGED <<list, heap, detached, done, result, id, handles, locals>>
      /\ pc' = [pc EXCEPT ![c] = "waitDone"] /\ quit' = [quit EXCEPT ![th[c]] = 1]
      /\ c \in Agents
  BY DEF PostQuit, Goto
<1>2. CallerOK(c) /\ Meant(c) /\ th[c] \in Workers /\ th[c] \in Listed /\ th[c] \notin handles
  BY <1>1 DEF CallerInv, CallerOK, JoinLocs, DetachLocs, Meant
<1>a. PICK w \in Workers : w = th[c]
  BY <1>2
<1>b. w \in Nodes
  OBVIOUS
<1>3. /\ pc'[c] = "waitDone" /\ \A v \in Workers : pc'[v] = pc[v]
      /\ quit'[w] = 1 /\ quit' \in [Nodes -> {0, 1}]
      /\ \A n \in Nodes : n # w => quit'[n] = quit[n]
  <2>1. pc \in [Agents -> Locations] /\ quit \in [Nodes -> {0, 1}]
    BY <1>0 DEF ThreadTypeOK
  <2> QED
    BY <1>1, <1>2, <1>a, <1>b, <2>1
<1>4. Listed' = Listed
  BY <1>0, <1>1, SameListed DEF ThreadTypeOK, locals
<1>5. WorkerOK(w)'
  <2>1. WorkerOK(w) /\ pc[w] # "none" /\ heap[w] = "live"
    BY <1>2, <1>a DEF WorkerInv, Meant
  <2> QED
    BY <1>1, <1>2, <1>3, <1>a, <2>1 DEF WorkerOK, CallerOK, Untouched, DelLocs, locals, DetachLocs
<1>6. CallerOK(c)'
  BY <1>1, <1>2, <1>3, <1>4, <1>a
  DEF CallerOK, Meant, Untouched, CreateLocs, FindLocs, JoinLocs, DetachLocs, DelLocs, locals
<1>7. DelOK(c)'
  BY <1>3 DEF DelOK, DelLocs
<1>8. Holds(c, w)
  BY <1>1, <1>2, <1>a DEF Holds, Meant, JoinLocs, DetachLocs
<1>9. IF "waitDone" = "idle" THEN Loose(w)' ELSE Holds(c, w)' /\ ~Loose(w)'
  BY <1>1, <1>2, <1>3, <1>a DEF Holds, Loose, Meant, CallerOK, Untouched, JoinLocs, DetachLocs, locals
<1>10. "waitDone" \in CallerLocs /\ heap[w] = "live"
  BY <1>2, <1>a DEF CallerLocs, JoinLocs, DetachLocs, Meant
<1> QED
  BY <1>0, <1>1, <1>2, <1>3, <1>4, <1>5, <1>6, <1>7, <1>8, <1>9, <1>10, <1>a, CallerTouches DEF ThreadTypeOK

\* The node is marked as detached.
LEMMA SetDetachedKeeps ==
  ASSUME ThreadInv, NEW c \in Callers, UNCHANGED use, SetDetached(c)
  PROVE  ThreadInv'
<1> USE SetFacts DEF ThreadInv
<1>0. ThreadTypeOK
  OBVIOUS
<1>1. /\ pc[c] = "setDetached" /\ UNCHANGED <<list, heap, quit, done, result, id, handles, locals>>
      /\ pc' = [pc EXCEPT ![c] = "detachPost"] /\ detached' = [detached EXCEPT ![th[c]] = 1]
      /\ c \in Agents
  BY DEF SetDetached, Goto
<1>2. CallerOK(c) /\ Meant(c) /\ th[c] \in Workers /\ th[c] \in Listed /\ th[c] \notin handles
  BY <1>1 DEF CallerInv, CallerOK, JoinLocs, DetachLocs, Meant
<1>a. PICK w \in Workers : w = th[c]
  BY <1>2
<1>b. w \in Nodes
  OBVIOUS
<1>3. /\ pc'[c] = "detachPost" /\ \A v \in Workers : pc'[v] = pc[v]
      /\ detached'[w] = 1 /\ detached' \in [Nodes -> {0, 1}]
      /\ \A n \in Nodes : n # w => detached'[n] = detached[n]
  <2>1. pc \in [Agents -> Locations] /\ detached \in [Nodes -> {0, 1}]
    BY <1>0 DEF ThreadTypeOK
  <2> QED
    BY <1>1, <1>2, <1>a, <1>b, <2>1
<1>4. Listed' = Listed
  BY <1>0, <1>1, SameListed DEF ThreadTypeOK, locals
<1>5. WorkerOK(w)'
  <2>1. WorkerOK(w) /\ pc[w] # "none" /\ heap[w] = "live"
    BY <1>2, <1>a DEF WorkerInv, Meant
  <2> QED
    BY <1>1, <1>2, <1>3, <1>a, <2>1 DEF WorkerOK, CallerOK, Untouched, DelLocs, locals, DetachLocs
<1>6. CallerOK(c)'
  BY <1>1, <1>2, <1>3, <1>4, <1>a
  DEF CallerOK, Meant, Untouched, CreateLocs, FindLocs, JoinLocs, DetachLocs, DelLocs, locals
<1>7. DelOK(c)'
  BY <1>3 DEF DelOK, DelLocs
<1>8. Holds(c, w)
  BY <1>1, <1>2, <1>a DEF Holds, Meant, JoinLocs, DetachLocs
<1>9. IF "detachPost" = "idle" THEN Loose(w)' ELSE Holds(c, w)' /\ ~Loose(w)'
  BY <1>1, <1>2, <1>3, <1>a DEF Holds, Loose, Meant, CallerOK, Untouched, JoinLocs, DetachLocs, locals
<1>10. "detachPost" \in CallerLocs /\ heap[w] = "live"
  BY <1>2, <1>a DEF CallerLocs, JoinLocs, DetachLocs, Meant
<1> QED
  BY <1>0, <1>1, <1>2, <1>3, <1>4, <1>5, <1>6, <1>7, <1>8, <1>9, <1>10, <1>a, CallerTouches DEF ThreadTypeOK

\* A detached thread is let loose.
LEMMA DetachPostKeeps ==
  ASSUME ThreadInv, NEW c \in Callers, UNCHANGED use, DetachPost(c)
  PROVE  ThreadInv'
<1> USE SetFacts DEF ThreadInv
<1>0. ThreadTypeOK
  OBVIOUS
<1>1. /\ pc[c] = "detachPost" /\ UNCHANGED <<list, heap, detached, done, result, id, handles, locals>>
      /\ pc' = [pc EXCEPT ![c] = "idle"] /\ quit' = [quit EXCEPT ![th[c]] = 1]
      /\ c \in Agents
  BY DEF DetachPost, Goto
<1>2. CallerOK(c) /\ Meant(c) /\ th[c] \in Workers /\ th[c] \in Listed /\ th[c] \notin handles
  BY <1>1 DEF CallerInv, CallerOK, JoinLocs, DetachLocs, Meant
<1>a. PICK w \in Workers : w = th[c]
  BY <1>2
<1>b. w \in Nodes
  OBVIOUS
<1>3. /\ pc'[c] = "idle" /\ \A v \in Workers : pc'[v] = pc[v]
      /\ quit'[w] = 1 /\ quit' \in [Nodes -> {0, 1}]
      /\ \A n \in Nodes : n # w => quit'[n] = quit[n]
  <2>1. pc \in [Agents -> Locations] /\ quit \in [Nodes -> {0, 1}]
    BY <1>0 DEF ThreadTypeOK
  <2> QED
    BY <1>1, <1>2, <1>a, <1>b, <2>1
<1>4. Listed' = Listed
  BY <1>0, <1>1, SameListed DEF ThreadTypeOK, locals
<1>5. WorkerOK(w)'
  <2>1. WorkerOK(w) /\ pc[w] # "none" /\ heap[w] = "live"
    BY <1>2, <1>a DEF WorkerInv, Meant
  <2> QED
    BY <1>1, <1>2, <1>3, <1>a, <2>1 DEF WorkerOK, CallerOK, Untouched, DelLocs, locals, DetachLocs
<1>6. CallerOK(c)'
  BY <1>1, <1>2, <1>3, <1>4, <1>a
  DEF CallerOK, Meant, Untouched, CreateLocs, FindLocs, JoinLocs, DetachLocs, DelLocs, locals
<1>7. DelOK(c)'
  BY <1>3 DEF DelOK, DelLocs
<1>8. Holds(c, w)
  BY <1>1, <1>2, <1>a DEF Holds, Meant, JoinLocs, DetachLocs
<1>9. IF "idle" = "idle" THEN Loose(w)' ELSE Holds(c, w)' /\ ~Loose(w)'
  BY <1>1, <1>2, <1>3, <1>a DEF Holds, Loose, Meant, CallerOK, Untouched, JoinLocs, DetachLocs, locals
<1>10. "idle" \in CallerLocs /\ heap[w] = "live"
  BY <1>2, <1>a DEF CallerLocs, JoinLocs, DetachLocs, Meant
<1> QED
  BY <1>0, <1>1, <1>2, <1>3, <1>4, <1>5, <1>6, <1>7, <1>8, <1>9, <1>10, <1>a, CallerTouches DEF ThreadTypeOK

-----------------------------------------------------------------------------
(* A thread that goes on, and changes only what is its own.                *)
LEMMA WorkerMoves ==
  ASSUME ThreadInv, NEW w \in Workers, NEW l \in (EntryLocs \cup DelLocs) \ {"none", "delFree"},
         pc[w] \notin {"none", "delFree"}, pc' = [pc EXCEPT ![w] = l],
         UNCHANGED <<use, list, heap, detached, quit, id, handles, arg, th, value, target>>,
         result' \in [Nodes -> {0} \cup Workers], done' \in [Nodes -> {0, 1}],
         prev' \in [Agents -> {NULL} \cup Nodes], local' \in [Agents -> {0, 1}],
         \A n \in Nodes : n # w => result'[n] = result[n] /\ done'[n] = done[n],
         \A a \in Agents : a # w => prev'[a] = prev[a] /\ local'[a] = local[a],
         done[w] = 1 => done'[w] = 1,
         WorkerOK(w)', DelOK(w)'
  PROVE  ThreadInv'
<1> USE SetFacts DEF ThreadInv
<1>0. ThreadTypeOK
  OBVIOUS
<1>1. /\ \A a \in Agents : a # w => pc'[a] = pc[a]
      /\ \A c \in Callers : c # w /\ pc'[c] = pc[c] /\ c \in Agents /\ prev'[c] = prev[c]
      /\ pc'[w] = l /\ w \in Agents
      /\ UNCHANGED <<use, start, tid, next, heap, detached, quit, id, handles, arg, th, value, target>>
  BY <1>0 DEF ThreadTypeOK, list
<1>2. Listed' = Listed
  BY <1>0, <1>1, SameListed DEF ThreadTypeOK, EntryLocs, PlaceInv, DelLocs
<1>3. ThreadTypeOK'
  <2>1. pc' \in [Agents -> Locations]
    BY <1>0 DEF ThreadTypeOK, EntryLocs, DelLocs, Locations
  <2> QED
    BY <1>1, <2>1 DEF ThreadTypeOK
<1>4. PlaceInv' /\ HeapInv'
  BY <1>1 DEF PlaceInv, HeapInv
<1>5. WorkerInv'
  <2> SUFFICES ASSUME NEW v \in Workers, v # w
               PROVE  WorkerOK(v)'
    BY DEF WorkerInv
  <2>1. /\ pc'[v] = pc[v] /\ result'[v] = result[v] /\ done'[v] = done[v] /\ local'[v] = local[v]
        /\ WorkerOK(v)
    BY <1>1 DEF WorkerInv
  <2> QED
    BY <1>1, <2>1 DEF WorkerOK
<1>6. CallerInv'
  <2> SUFFICES ASSUME NEW c \in Callers
               PROVE  CallerOK(c)'
    BY DEF CallerInv
  <2>1. CallerOK(c) /\ pc'[c] = pc[c]
    BY <1>1 DEF CallerInv
  <2>2. Untouched(th[c])' = Untouched(th[c]) /\ Untouched(target[c])' = Untouched(target[c])
    BY <1>1 DEF Untouched
  <2>3. \A n \in Workers : /\ pc'[n] = "none" <=> pc[n] = "none"
                           /\ done[n] = 1 => done'[n] = 1
    BY <1>1
  <2>4. pc[c] \in CreateLocs => Creating(c)'
    BY <1>0, <1>1, <1>2, <2>1, <2>2, <2>3 DEF ThreadTypeOK, CallerOK, Creating
  <2>5. pc[c] \in FindLocs => Looking(c)'
    BY <1>1, <1>2, <2>1, <2>2 DEF CallerOK, Looking
  <2>6. pc[c] \in JoinLocs \cup DetachLocs \cup DelLocs => Meant(c)'
    BY <1>0, <1>1, <1>2, <2>1, <2>3 DEF ThreadTypeOK, CallerOK, Meant
  <2>7. pc[c] \in {"readResult"} \cup DelLocs => done'[th[c]] = 1
    BY <1>1, <2>1, <2>3 DEF CallerOK, Meant, JoinLocs
  <2> QED
    BY <1>1, <2>1, <2>2, <2>4, <2>5, <2>6, <2>7 DEF CallerOK
<1>7. DelInv'
  BY <1>1, <1>2 DEF DelInv, DelOK
<1>8. ListInv'
  BY <1>1, <1>2 DEF ListInv, Descends
<1>9. OwnerInv' /\ AloneInv'
  <2>1. \A v \in Workers : Loose(v)' <=> Loose(v)
    BY <1>1 DEF Loose
  <2>2. \A v \in Workers, c \in Callers : Holds(c, v)' <=> Holds(c, v)
    BY <1>1 DEF Holds
  <2>3. \A v \in Workers : pc'[v] # "delFree" => pc[v] # "delFree"
    BY <1>1
  <2>4. OwnerInv'
    BY <1>1, <1>2, <2>1, <2>2, <2>3 DEF OwnerInv
  <2>5. AloneInv'
    BY <1>1, <2>1, <2>2 DEF AloneInv
  <2> QED
    BY <2>4, <2>5
<1>10. HandleInv'
  BY <1>0, <1>1, <1>2 DEF ThreadTypeOK, HandleInv, Untouched
<1>11. IdInv'
  BY <1>1, <1>2 DEF IdInv
<1> QED
  BY <1>3, <1>4, <1>5, <1>6, <1>7, <1>8, <1>9, <1>10, <1>11

\* The thread's function returns its value.
LEMMA RunFuncKeeps ==
  ASSUME ThreadInv, NEW w \in Workers, UNCHANGED use, RunFunc(w)
  PROVE  ThreadInv'
<1> USE SetFacts DEF ThreadInv
<1>0. ThreadTypeOK
  OBVIOUS
<1>1. /\ pc[w] = "func" /\ pc' = [pc EXCEPT ![w] = "waitQuit"]
      /\ UNCHANGED <<list, heap, detached, quit, id, handles, arg, th, value, target>>
      /\ result' = [result EXCEPT ![w] = w] /\ UNCHANGED <<done, prev, local>>
      /\ w \in Agents
  BY DEF RunFunc, Goto, node, locals
<1>2. pc'[w] = "waitQuit"
  BY <1>0, <1>1 DEF ThreadTypeOK
<1>3. /\ result' \in [Nodes -> {0} \cup Workers] /\ done' \in [Nodes -> {0, 1}]
      /\ prev' \in [Agents -> {NULL} \cup Nodes] /\ local' \in [Agents -> {0, 1}]
      /\ \A n \in Nodes : n # w => result'[n] = result[n] /\ done'[n] = done[n]
      /\ \A a \in Agents : a # w => prev'[a] = prev[a] /\ local'[a] = local[a]
      /\ done[w] = 1 => done'[w] = 1
  BY <1>0, <1>1 DEF ThreadTypeOK
<1>4. WorkerOK(w)'
  <2>1. WorkerOK(w)
    BY DEF WorkerInv
  <2> QED
    BY <1>0, <1>1, <1>2, <2>1 DEF ThreadTypeOK, WorkerOK, DelLocs
<1>5. DelOK(w)'
  BY <1>2 DEF DelOK, DelLocs
<1>6. "waitQuit" \in (EntryLocs \cup DelLocs) \ {"none", "delFree"}
  BY DEF EntryLocs
<1> QED
  BY <1>1, <1>3, <1>4, <1>5, <1>6, WorkerMoves

\* The thread has been let go.
LEMMA WaitQuitKeeps ==
  ASSUME ThreadInv, NEW w \in Workers, UNCHANGED use, WaitQuit(w)
  PROVE  ThreadInv'
<1> USE SetFacts DEF ThreadInv
<1>0. ThreadTypeOK
  OBVIOUS
<1>1. /\ pc[w] = "waitQuit" /\ pc' = [pc EXCEPT ![w] = "readDetached"]
      /\ UNCHANGED <<list, heap, detached, quit, id, handles, arg, th, value, target>>
      /\ quit[w] = 1 /\ UNCHANGED <<result, done, prev, local>>
      /\ w \in Agents
  BY DEF WaitQuit, Goto, node, locals, QuitSeen
<1>2. pc'[w] = "readDetached"
  BY <1>0, <1>1 DEF ThreadTypeOK
<1>3. /\ result' \in [Nodes -> {0} \cup Workers] /\ done' \in [Nodes -> {0, 1}]
      /\ prev' \in [Agents -> {NULL} \cup Nodes] /\ local' \in [Agents -> {0, 1}]
      /\ \A n \in Nodes : n # w => result'[n] = result[n] /\ done'[n] = done[n]
      /\ \A a \in Agents : a # w => prev'[a] = prev[a] /\ local'[a] = local[a]
      /\ done[w] = 1 => done'[w] = 1
  BY <1>0, <1>1 DEF ThreadTypeOK
<1>4. WorkerOK(w)'
  <2>1. WorkerOK(w)
    BY DEF WorkerInv
  <2> QED
    BY <1>0, <1>1, <1>2, <2>1 DEF ThreadTypeOK, WorkerOK, DelLocs
<1>5. DelOK(w)'
  BY <1>2 DEF DelOK, DelLocs
<1>6. "readDetached" \in (EntryLocs \cup DelLocs) \ {"none", "delFree"}
  BY DEF EntryLocs
<1> QED
  BY <1>1, <1>3, <1>4, <1>5, <1>6, WorkerMoves

\* The thread notes whether it is detached.
LEMMA ReadDetachedKeeps ==
  ASSUME ThreadInv, NEW w \in Workers, UNCHANGED use, ReadDetached(w)
  PROVE  ThreadInv'
<1> USE SetFacts DEF ThreadInv
<1>0. ThreadTypeOK
  OBVIOUS
<1>1. /\ pc[w] = "readDetached" /\ pc' = [pc EXCEPT ![w] = "postDone"]
      /\ UNCHANGED <<list, heap, detached, quit, id, handles, arg, th, value, target>>
      /\ local' = [local EXCEPT ![w] = detached[w]] /\ UNCHANGED <<result, done, prev>>
      /\ w \in Agents
  BY DEF ReadDetached, Goto, node, locals
<1>2. pc'[w] = "postDone"
  BY <1>0, <1>1 DEF ThreadTypeOK
<1>3. /\ result' \in [Nodes -> {0} \cup Workers] /\ done' \in [Nodes -> {0, 1}]
      /\ prev' \in [Agents -> {NULL} \cup Nodes] /\ local' \in [Agents -> {0, 1}]
      /\ \A n \in Nodes : n # w => result'[n] = result[n] /\ done'[n] = done[n]
      /\ \A a \in Agents : a # w => prev'[a] = prev[a] /\ local'[a] = local[a]
      /\ done[w] = 1 => done'[w] = 1
  BY <1>0, <1>1 DEF ThreadTypeOK
<1>4. WorkerOK(w)'
  <2>1. WorkerOK(w)
    BY DEF WorkerInv
  <2> QED
    BY <1>0, <1>1, <1>2, <2>1 DEF ThreadTypeOK, WorkerOK, DelLocs
<1>5. DelOK(w)'
  BY <1>2 DEF DelOK, DelLocs
<1>6. "postDone" \in (EntryLocs \cup DelLocs) \ {"none", "delFree"}
  BY DEF EntryLocs
<1> QED
  BY <1>1, <1>3, <1>4, <1>5, <1>6, WorkerMoves

\* The thread posts hevDone.
LEMMA PostDoneKeeps ==
  ASSUME ThreadInv, NEW w \in Workers, UNCHANGED use, PostDone(w)
  PROVE  ThreadInv'
<1> USE SetFacts DEF ThreadInv
<1>0. ThreadTypeOK
  OBVIOUS
<1>1. /\ pc[w] = "postDone" /\ pc' = [pc EXCEPT ![w] = "leave"]
      /\ UNCHANGED <<list, heap, detached, quit, id, handles, arg, th, value, target>>
      /\ done' = [done EXCEPT ![w] = 1] /\ UNCHANGED <<result, prev, local>>
      /\ w \in Agents
  BY DEF PostDone, Goto, node, locals
<1>2. pc'[w] = "leave"
  BY <1>0, <1>1 DEF ThreadTypeOK
<1>3. /\ result' \in [Nodes -> {0} \cup Workers] /\ done' \in [Nodes -> {0, 1}]
      /\ prev' \in [Agents -> {NULL} \cup Nodes] /\ local' \in [Agents -> {0, 1}]
      /\ \A n \in Nodes : n # w => result'[n] = result[n] /\ done'[n] = done[n]
      /\ \A a \in Agents : a # w => prev'[a] = prev[a] /\ local'[a] = local[a]
      /\ done[w] = 1 => done'[w] = 1
  BY <1>0, <1>1 DEF ThreadTypeOK
<1>4. WorkerOK(w)'
  <2>1. WorkerOK(w)
    BY DEF WorkerInv
  <2> QED
    BY <1>0, <1>1, <1>2, <2>1 DEF ThreadTypeOK, WorkerOK, DelLocs
<1>5. DelOK(w)'
  BY <1>2 DEF DelOK, DelLocs
<1>6. "leave" \in (EntryLocs \cup DelLocs) \ {"none", "delFree"}
  BY DEF EntryLocs
<1> QED
  BY <1>1, <1>3, <1>4, <1>5, <1>6, WorkerMoves

\* A thread that was detached frees its own node, which is in the list.
LEMMA LeaveKeeps ==
  ASSUME ThreadInv, NEW w \in Workers, UNCHANGED use, Leave(w)
  PROVE  ThreadInv'
<1> USE SetFacts DEF ThreadInv
<1>0. ThreadTypeOK
  OBVIOUS
<1>1. /\ pc[w] = "leave" /\ w \in Agents
      /\ UNCHANGED <<list, node, id, handles, locals>>
      /\ \/ local[w] = 1 /\ pc' = [pc EXCEPT ![w] = "delTest"]
         \/ local[w] # 1 /\ pc' = [pc EXCEPT ![w] = "ended"]
  BY DEF Leave, Goto, OwnsNode
<1>2. WorkerOK(w)
  BY DEF WorkerInv
<1>3. ASSUME local[w] = 1, pc' = [pc EXCEPT ![w] = "delTest"]
      PROVE  ThreadInv'
  <2>1. pc'[w] = "delTest"
    BY <1>0, <1>1, <1>3 DEF ThreadTypeOK
  <2>2. detached[w] = 1 /\ quit[w] = 1 /\ heap[w] = "live" /\ th[w] = w
    BY <1>0, <1>1, <1>2, <1>3 DEF ThreadTypeOK, WorkerOK, DelLocs
  <2>3. w \in Listed
    BY <1>1, <2>2 DEF OwnerInv, Loose
  <2>4. Listed' = Listed
    BY <1>0, <1>1, <1>3, SameListed DEF ThreadTypeOK, node, locals
  <2>5. WorkerOK(w)'
    BY <1>1, <1>2, <2>1, <2>2 DEF WorkerOK, DelLocs, node, locals
  <2>6. DelOK(w)'
    BY <1>1, <2>1, <2>2, <2>3, <2>4 DEF DelOK, DelLocs, locals
  <2>7. "delTest" \in (EntryLocs \cup DelLocs) \ {"none", "delFree"}
    BY DEF DelLocs
  <2> QED
    BY <1>0, <1>1, <1>3, <2>5, <2>6, <2>7, WorkerMoves DEF ThreadTypeOK, node, locals
<1>4. ASSUME local[w] # 1, pc' = [pc EXCEPT ![w] = "ended"]
      PROVE  ThreadInv'
  <2>1. pc'[w] = "ended"
    BY <1>0, <1>1, <1>4 DEF ThreadTypeOK
  <2>2. detached[w] # 1
    BY <1>1, <1>2, <1>4 DEF WorkerOK
  <2>5. WorkerOK(w)'
    BY <1>1, <1>2, <2>1, <2>2 DEF WorkerOK, DelLocs, node, locals
  <2>6. DelOK(w)'
    BY <2>1 DEF DelOK, DelLocs
  <2>7. "ended" \in (EntryLocs \cup DelLocs) \ {"none", "delFree"}
    BY DEF EntryLocs
  <2> QED
    BY <1>0, <1>1, <1>4, <2>5, <2>6, <2>7, WorkerMoves DEF ThreadTypeOK, node, locals
<1> QED
  BY <1>1, <1>3, <1>4

\* A detached thread looks for the place of its node in the list.
LEMMA WorkerDelWalkKeeps ==
  ASSUME ThreadInv, NEW w \in Workers, UNCHANGED use, DelTest(w) \/ DelWalk(w)
  PROVE  ThreadInv'
<1> USE SetFacts DEF ThreadInv
<1>0. ThreadTypeOK
  OBVIOUS
<1>1. /\ pc[w] \in {"delTest", "delWalk"}
      /\ UNCHANGED <<list, node, id, handles, arg, th, local, value, target>>
      /\ w \in Agents /\ \E l \in {"delHead", "delWalk", "delUnlink"} : pc' = [pc EXCEPT ![w] = l]
  BY <1>0 DEF ThreadTypeOK, DelTest, DelWalk, Goto
<1>2. DelOK(w) /\ th[w] \in Listed /\ th[w] \in Workers
  BY <1>1 DEF DelLocs, DelInv, DelOK
<1>3. Listed \subseteq Nodes /\ Descends(Listed, start, next)
  BY ListedFacts DEF ListInv
<1>4. Listed' = Listed
  BY <1>0, <1>1, SameListed DEF ThreadTypeOK, node
<1>5. /\ prev' \in [Agents -> {NULL} \cup Nodes]
      /\ \A a \in Agents : a # w => prev'[a] = prev[a]
      /\ pc'[w] = "delHead" => th[w] = start
      /\ pc'[w] \in {"delWalk", "delUnlink"} => prev'[w] \in Listed /\ th[w] < prev'[w]
      /\ pc'[w] = "delUnlink" => next[prev'[w]] = th[w]
  <2>1. CASE DelTest(w) /\ th[w] = start
    BY <1>0, <1>1, <2>1 DEF ThreadTypeOK, DelTest, Goto
  <2>2. CASE DelTest(w) /\ th[w] # start
    <3>1. pc' = [pc EXCEPT ![w] = "delWalk"] /\ prev' = [prev EXCEPT ![w] = start]
      BY <2>2 DEF DelTest, Goto
    <3>2. start \in Listed /\ th[w] <= start /\ th[w] \in Nat /\ start \in Nat
      BY <1>0, <1>2, <1>3 DEF ThreadTypeOK, Descends
    <3> QED
      BY <1>0, <1>1, <2>2, <3>1, <3>2 DEF ThreadTypeOK
  <2>3. CASE DelWalk(w)
    <3>1. pc[w] = "delWalk" /\ prev[w] \in Listed /\ th[w] < prev[w]
      BY <2>3, <1>2 DEF DelOK, DelWalk
    <3>2. prev[w] # main_thread /\ prev[w] \in Nat /\ th[w] \in Nat
      <4>1. prev[w] \in Nat /\ th[w] \in Nat /\ main_thread \in Nat /\ main_thread <= th[w]
        BY <1>2, <1>3, <3>1
      <4> QED
        BY <3>1, <4>1
    <3>3. next[prev[w]] \in Listed /\ th[w] <= next[prev[w]] /\ next[prev[w]] \in Nat
      BY <1>2, <1>3, <3>1, <3>2 DEF Descends
    <3>4. CASE next[prev[w]] = th[w]
      BY <1>0, <1>1, <2>3, <3>1, <3>4 DEF ThreadTypeOK, DelWalk, Goto
    <3>5. CASE next[prev[w]] # th[w]
      <4>1. prev' = [prev EXCEPT ![w] = next[prev[w]]] /\ pc' = pc
        BY <2>3, <3>5 DEF DelWalk
      <4> QED
        BY <1>0, <1>1, <1>3, <3>1, <3>2, <3>3, <3>5, <4>1 DEF ThreadTypeOK
    <3> QED
      BY <3>4, <3>5
  <2> QED
    BY <2>1, <2>2, <2>3
<1>6. PICK l \in {"delHead", "delWalk", "delUnlink"} : pc' = [pc EXCEPT ![w] = l]
  BY <1>1
<1>7. pc'[w] = l
  BY <1>0, <1>1, <1>6 DEF ThreadTypeOK
<1>8. WorkerOK(w)'
  <2>1. WorkerOK(w)
    BY DEF WorkerInv
  <2> QED
    BY <1>1, <1>7, <2>1 DEF WorkerOK, DelLocs, node
<1>9. DelOK(w)'
  BY <1>1, <1>2, <1>4, <1>5, <1>7 DEF DelOK, DelLocs, list
<1>10. l \in (EntryLocs \cup DelLocs) \ {"none", "delFree"}
  BY <1>6 DEF DelLocs
<1> QED
  BY <1>0, <1>1, <1>5, <1>6, <1>8, <1>9, <1>10, WorkerMoves DEF ThreadTypeOK, node

-----------------------------------------------------------------------------
\* A node that is above all others is added at the start.
LEMMA PushDescends ==
  ASSUME NEW L, L \subseteq Nat, NEW first, NEW nxt, Descends(L, first, nxt),
         NEW n \in Nat, \A m \in L : m < n, nxt[n] = first
  PROVE  Descends(L \cup {n}, n, nxt)
  BY DEF Descends

\* The first node is taken off.
LEMMA HeadDescends ==
  ASSUME NEW L, L \subseteq Nat, NEW first, NEW nxt, Descends(L, first, nxt), first # main_thread
  PROVE  Descends(L \ {first}, nxt[first], nxt)
<1>1. first \in L /\ nxt[first] \in L /\ nxt[first] < first
  BY DEF Descends
<1>2. \A n \in L : n # first => n < first
  BY <1>1 DEF Descends
<1>3. \A n \in L \ {first} : n <= nxt[first]
  BY <1>1, <1>2 DEF Descends
<1>4. \A n \in L \ {first} : n # main_thread => nxt[n] \in L /\ nxt[n] < n /\ nxt[n] # first
  BY <1>1, <1>2 DEF Descends
<1> QED
  BY <1>1, <1>3, <1>4 DEF Descends

\* A later node is taken off.
LEMMA UnlinkDescends ==
  ASSUME NEW L, L \subseteq Nat, NULL \notin L, NEW first, NEW nxt, Descends(L, first, nxt), L \subseteq DOMAIN nxt,
         NEW p \in L, NEW w \in L, w < p, nxt[p] = w, w # main_thread
  PROVE  Descends(L \ {w}, first, [nxt EXCEPT ![p] = nxt[w]])
<1> DEFINE nxt2 == [nxt EXCEPT ![p] = nxt[w]]
<1>1. p # main_thread /\ nxt2[p] = nxt[w] /\ \A n \in L : n # p => nxt2[n] = nxt[n]
  <2>1. main_thread \in L /\ nxt[w] \in L /\ nxt[w] < w
    BY DEF Descends
  <2>2. nxt[main_thread] = NULL
    BY DEF Descends
  <2>3. p # main_thread
    BY <2>2
  <2> QED
    BY <2>3
<1> HIDE DEF nxt2
<1>2. first \in L /\ \A n \in L : n <= first
  BY DEF Descends
<1>3. first # w
  BY <1>2
<1>4. nxt[w] \in L /\ nxt[w] < w /\ \A m \in L : m < w => m <= nxt[w]
  BY DEF Descends
<1>5. \A m \in L : m < p => m <= w
  BY <1>1 DEF Descends
<1>6. \A n \in L : n # p /\ n # main_thread => nxt[n] # w
  <2> SUFFICES ASSUME NEW n \in L, n # p, n # main_thread, nxt[n] = w
               PROVE  FALSE
    OBVIOUS
  <2>1. w < n /\ \A m \in L : m < n => m <= w
    BY DEF Descends
  <2>2. n < p \/ p < n
    OBVIOUS
  <2>3. ~(p < n)
    BY <2>1
  <2>4. ~(n < p)
    BY <1>5, <2>1
  <2> QED
    BY <2>2, <2>3, <2>4
<1>7. ASSUME NEW n \in L \ {w}, n # main_thread
      PROVE  nxt2[n] \in L \ {w} /\ nxt2[n] < n /\ \A m \in L \ {w} : m < n => m <= nxt2[n]
  <2>1. CASE n = p
    <3>0. nxt[w] \in Nat /\ w \in Nat /\ p \in Nat
      BY <1>4
    <3>1. nxt2[n] = nxt[w] /\ nxt[w] \in L \ {w} /\ nxt[w] < n
      BY <1>1, <1>4, <2>1, <3>0
    <3>2. \A m \in L \ {w} : m < n => m < w
      BY <1>5, <2>1
    <3> QED
      BY <1>4, <3>1, <3>2
  <2>2. CASE n # p
    <3>1. nxt2[n] = nxt[n] /\ nxt[n] # w
      BY <1>1, <1>6, <1>7, <2>2
    <3> QED
      BY <1>7, <3>1 DEF Descends
  <2> QED
    BY <2>1, <2>2
<1>8. main_thread \in L \ {w} /\ nxt2[main_thread] = NULL
  BY <1>1 DEF Descends
<1>9. Descends(L \ {w}, first, nxt2)
  BY <1>2, <1>3, <1>7, <1>8 DEF Descends
<1> QED
  BY <1>9 DEF nxt2

\* One at a time takes a node off the list, and every other live node is its client's.
LEMMA Deleter ==
  ASSUME ThreadInv, NEW a \in Agents, pc[a] \in DelLocs
  PROVE  /\ th[a] \in Workers /\ heap[th[a]] = "live" /\ th[a] \notin handles /\ pc[th[a]] # "none"
         /\ \A d \in Callers : d # a => pc[d] = "idle"
         /\ \A v \in Workers : v # a => pc[v] \notin DelLocs
         /\ \A v \in Workers : heap[v] = "live" /\ v # th[a] => v \in handles
         /\ a \in Callers => target[a] = th[a] /\ detached[th[a]] = 0 /\ done[th[a]] = 1
         /\ a \notin Callers => th[a] = a /\ use = "single" /\ detached[a] = 1
         /\ use = "single" => th[a] = 2
<1> USE SetFacts DEF ThreadInv
<1>0. ThreadTypeOK
  OBVIOUS
<1>1. \A v \in Workers : pc[v] \in DelLocs =>
        /\ heap[v] = "live" /\ detached[v] = 1 /\ quit[v] = 1 /\ use = "single" /\ th[v] = v
  BY <1>0 DEF ThreadTypeOK, WorkerInv, WorkerOK, DelLocs
<1>2. use = "single" => \A v \in Workers : heap[v] = "live" => v = 2
  BY DEF HeapInv
<1>3. CASE a \in Callers
  <2>1. CallerOK(a) /\ Meant(a)
    BY <1>3 DEF CallerInv, CallerOK
  <2>2. Holds(a, th[a]) /\ th[a] \in Workers /\ heap[th[a]] = "live"
    BY <2>1 DEF Meant, Holds
  <2>3. (\A d \in Callers : d # a => pc[d] = "idle") /\ \A v \in Workers : ~Loose(v)
    BY <1>3, <2>2, OthersIdle
  <2>4. \A v \in Workers : pc[v] \notin DelLocs
    BY <1>1, <2>3 DEF Loose
  <2>5. \A v \in Workers, d \in Callers : Holds(d, v) => v = th[a]
    BY <2>1, <2>3 DEF Holds, Meant, CreateLocs, FindLocs, JoinLocs, DetachLocs, DelLocs
  <2>6. \A v \in Workers : heap[v] = "live" /\ v # th[a] => v \in handles
    BY <2>3, <2>5 DEF OwnerInv
  <2> QED
    BY <1>2, <1>3, <2>1, <2>2, <2>3, <2>4, <2>6 DEF CallerOK, Meant
<1>4. CASE a \notin Callers
  <2>1. a \in Workers /\ th[a] = a /\ heap[a] = "live" /\ detached[a] = 1 /\ quit[a] = 1 /\ use = "single"
    BY <1>1, <1>4
  <2>2. \A d \in Callers : pc[d] = "idle"
    BY <2>1 DEF AloneInv, Loose
  <2>3. a \notin handles
    BY <2>1 DEF HandleInv, Untouched
  <2>4. \A v \in Workers : heap[v] = "live" => v = a
    BY <1>2, <2>1
  <2> QED
    BY <1>1, <1>2, <1>4, <2>1, <2>2, <2>3, <2>4 DEF DelLocs
<1> QED
  BY <1>3, <1>4

\* The node is taken off the list.
LEMMA UnlinkKeeps ==
  ASSUME ThreadInv, NEW a \in Agents, UNCHANGED use, DelHead(a) \/ DelUnlink(a)
  PROVE  ThreadInv'
<1> USE SetFacts DEF ThreadInv
<1>0. ThreadTypeOK
  OBVIOUS
<1>1. /\ pc[a] \in {"delHead", "delUnlink"} /\ pc' = [pc EXCEPT ![a] = "delFree"]
      /\ UNCHANGED <<tid, heap, detached, quit, done, result, id, handles, arg, th, prev, local, value, target>>
  BY DEF DelHead, DelUnlink, Goto, node, locals
<1>2. /\ pc'[a] = "delFree" /\ \A b \in Agents : b # a => pc'[b] = pc[b]
      /\ Workers \subseteq Agents /\ Callers \subseteq Agents
  BY <1>0, <1>1 DEF ThreadTypeOK
<1>3. PICK w \in Workers : w = th[a]
  BY <1>1, Deleter DEF DelLocs
<1>4. /\ heap[w] = "live" /\ w \notin handles /\ pc[w] # "none"
      /\ \A d \in Callers : d # a => pc[d] = "idle"
      /\ \A v \in Workers : v # a => pc[v] \notin DelLocs
      /\ \A v \in Workers : heap[v] = "live" /\ v # w => v \in handles
      /\ a \in Callers => target[a] = w
      /\ a \notin Callers => w = a
      /\ a \in Callers => detached[w] = 0
  BY <1>1, <1>3, Deleter DEF DelLocs
<1>5. DelOK(a) /\ w \in Listed
  BY <1>1, <1>3 DEF DelInv, DelOK, DelLocs
<1>6. Listed' = Listed \ {w}
  <2>1. \A n : Unlisted(n)' <=> Unlisted(n) \/ n = w
    BY <1>1, <1>2, <1>3 DEF Unlisted
  <2> QED
    BY <1>1, <2>1 DEF Listed
<1>7. Listed \subseteq Nodes /\ Listed \subseteq Nat /\ NULL \notin Listed /\ Descends(Listed, start, next)
  BY ListedFacts DEF ListInv
<1>8. ListInv' /\ start' \in Nodes /\ next' \in [Nodes -> {NULL} \cup Nodes]
  <2>1. CASE DelHead(a)
    <3>1. start' = next[w] /\ next' = next /\ w = start
      BY <1>1, <1>3, <1>5, <2>1 DEF DelHead, DelOK, Goto
    <3>2. start # main_thread
      BY <3>1
    <3>3. Descends(Listed \ {start}, next[start], next)
      BY <1>7, <3>2, HeadDescends
    <3>4. next[start] \in Listed
      BY <3>3 DEF Descends
    <3> QED
      BY <1>0, <1>6, <1>7, <3>1, <3>3, <3>4 DEF ThreadTypeOK, ListInv
  <2>2. CASE DelUnlink(a)
    <3>1. next' = [next EXCEPT ![prev[a]] = next[w]] /\ start' = start /\ pc[a] = "delUnlink"
      BY <1>3, <2>2 DEF DelUnlink, Goto
    <3>2. prev[a] \in Listed /\ w < prev[a] /\ next[prev[a]] = w
      BY <1>3, <1>5, <3>1 DEF DelOK
    <3>3. Listed \subseteq DOMAIN next /\ w # main_thread
      BY <1>0, <1>7 DEF ThreadTypeOK
    <3>4. Descends(Listed \ {w}, start, [next EXCEPT ![prev[a]] = next[w]])
      BY <1>5, <1>7, <3>2, <3>3, UnlinkDescends
    <3> QED
      BY <1>0, <1>6, <3>1, <3>4 DEF ThreadTypeOK, ListInv
  <2> QED
    BY <2>1, <2>2
<1>9. ThreadTypeOK'
  <2>1. pc' \in [Agents -> Locations]
    BY <1>0, <1>1 DEF ThreadTypeOK, DelLocs, Locations
  <2> QED
    BY <1>1, <1>8, <2>1 DEF ThreadTypeOK
<1>10. PlaceInv'
  BY <1>2 DEF PlaceInv, CallerLocs, DelLocs
<1>11. HeapInv'
  BY <1>1 DEF HeapInv
<1>12. WorkerInv'
  <2> SUFFICES ASSUME NEW v \in Workers
               PROVE  WorkerOK(v)'
    BY DEF WorkerInv
  <2>1. WorkerOK(v)
    BY DEF WorkerInv
  <2>2. pc'[v] = pc[v] \/ v = a
    BY <1>2
  <2>3. CASE pc'[v] = pc[v]
    BY <1>1, <2>1, <2>3 DEF WorkerOK
  <2>4. CASE v = a
    BY <1>1, <1>2, <2>1, <2>4 DEF WorkerOK, DelLocs
  <2> QED
    BY <2>2, <2>3, <2>4
<1>13. CallerInv'
  <2> SUFFICES ASSUME NEW c \in Callers
               PROVE  CallerOK(c)'
    BY DEF CallerInv
  <2>1. CASE c # a
    <3>1. pc'[c] = "idle"
      BY <1>2, <1>4, <2>1
    <3> QED
      BY <3>1 DEF CallerOK, CreateLocs, FindLocs, JoinLocs, DetachLocs, DelLocs
  <2>2. CASE c = a
    <3>1. CallerOK(a) /\ Meant(a) /\ w # a
      BY <1>1, <2>2 DEF CallerInv, CallerOK, DelLocs
    <3>2. Meant(a)'
      BY <1>1, <1>2, <1>3, <1>4, <3>1 DEF Meant
    <3> QED
      BY <1>1, <1>2, <2>2, <3>1, <3>2
      DEF CallerOK, CreateLocs, FindLocs, JoinLocs, DetachLocs, DelLocs
  <2> QED
    BY <2>1, <2>2
<1>14. DelInv'
  <2> SUFFICES ASSUME NEW b \in Agents
               PROVE  DelOK(b)'
    BY DEF DelInv
  <2>1. CASE b # a
    <3>1. pc'[b] \notin DelLocs
      BY <1>2, <1>4, <2>1 DEF DelLocs
    <3> QED
      BY <3>1 DEF DelOK, DelLocs
  <2>2. CASE b = a
    BY <1>1, <1>2, <1>3, <2>2 DEF DelOK
  <2> QED
    BY <2>1, <2>2
<1>15. \A v \in Workers : Loose(v)' <=> Loose(v)
  BY <1>1 DEF Loose
<1>16. \A v \in Workers, c \in Callers : Holds(c, v)' <=> Holds(c, v)
  BY <1>1, <1>2 DEF Holds, CreateLocs, FindLocs, JoinLocs, DetachLocs, DelLocs
<1>17. OwnerInv'
  <2>1. \A v \in Workers : Loose(v) /\ v # w => FALSE
    BY <1>4 DEF Loose, HandleInv, Untouched
  <2>2. Loose(w) => pc'[w] = "delFree"
    BY <1>2, <1>4 DEF Loose
  <2> QED
    BY <1>1, <1>15, <1>16, <2>1, <2>2 DEF OwnerInv
<1>18. AloneInv'
  <2>1. \A c \in Callers : pc'[c] # "idle" <=> pc[c] # "idle"
    BY <1>1, <1>2
  <2> QED
    BY <1>1, <1>15, <1>16, <2>1 DEF AloneInv
<1>19. HandleInv'
  BY <1>0, <1>1, <1>2, <1>4, <1>6 DEF ThreadTypeOK, HandleInv, Untouched
<1>20. IdInv'
  <2>1. \A v \in Workers : pc'[v] # "none" <=> pc[v] # "none"
    BY <1>1, <1>2
  <2> QED
    BY <1>1, <1>6, <2>1 DEF IdInv
<1> QED
  BY <1>8, <1>9, <1>10, <1>11, <1>12, <1>13, <1>14, <1>17, <1>18, <1>19, <1>20

\* The node is freed.
LEMMA FreeKeeps ==
  ASSUME ThreadInv, NEW a \in Agents, UNCHANGED use, DelFree(a)
  PROVE  ThreadInv'
<1> USE SetFacts DEF ThreadInv
<1>0. ThreadTypeOK
  OBVIOUS
<1> DEFINE l == IF a \in Callers THEN "joined" ELSE "ended"
<1>1. /\ pc[a] = "delFree" /\ pc' = [pc EXCEPT ![a] = l] /\ heap' = [heap EXCEPT ![th[a]] = "freed"]
      /\ UNCHANGED <<start, tid, next, detached, quit, done, result, id, handles, arg, th, prev, local, value, target>>
  BY DEF DelFree, Goto, list, locals
<1>2. /\ pc'[a] = l /\ \A b \in Agents : b # a => pc'[b] = pc[b]
      /\ Workers \subseteq Agents /\ Callers \subseteq Agents
  BY <1>0, <1>1 DEF ThreadTypeOK
<1>3. PICK w \in Workers : w = th[a]
  BY <1>1, Deleter DEF DelLocs
<1>4. /\ heap[w] = "live" /\ w \notin handles /\ pc[w] # "none"
      /\ \A d \in Callers : d # a => pc[d] = "idle"
      /\ \A v \in Workers : v # a => pc[v] \notin DelLocs
      /\ \A v \in Workers : heap[v] = "live" /\ v # w => v \in handles
      /\ a \in Callers => target[a] = w /\ detached[w] = 0 /\ done[w] = 1
      /\ a \notin Callers => w = a
      /\ use = "single" => w = 2
  BY <1>1, <1>3, Deleter DEF DelLocs
<1>5. heap'[w] = "freed" /\ \A n \in Nodes : n # w => heap'[n] = heap[n]
  BY <1>0, <1>1, <1>3 DEF ThreadTypeOK
<1>6. Listed' = Listed
  <2>1. \A n : n # w => (Unlisted(n)' <=> Unlisted(n))
    BY <1>1, <1>2, <1>3 DEF Unlisted
  <2>2. w \notin Listed /\ w \notin Listed'
    BY <1>1, <1>3, <1>5 DEF Listed, Unlisted
  <2> QED
    BY <1>5, <2>1, <2>2 DEF Listed
<1>7. ListInv'
  BY <1>1, <1>6 DEF ListInv
<1>9. ThreadTypeOK'
  <2>1. pc' \in [Agents -> Locations]
    BY <1>0, <1>1 DEF ThreadTypeOK, EntryLocs, Locations
  <2>2. heap' \in [Nodes -> {"unused", "live", "freed"}]
    BY <1>0, <1>1 DEF ThreadTypeOK
  <2> QED
    BY <1>1, <2>1, <2>2 DEF ThreadTypeOK
<1>10. PlaceInv'
  BY <1>2 DEF PlaceInv, CallerLocs, EntryLocs
<1>11. HeapInv'
  BY <1>1, <1>4, <1>5 DEF HeapInv
<1>12. WorkerInv'
  <2> SUFFICES ASSUME NEW v \in Workers
               PROVE  WorkerOK(v)'
    BY DEF WorkerInv
  <2>1. WorkerOK(v)
    BY DEF WorkerInv
  <2>2. CASE v # w
    <3>1. pc'[v] = pc[v] /\ heap'[v] = heap[v]
      BY <1>2, <1>4, <1>5, <2>2
    <3> QED
      BY <1>1, <2>1, <3>1 DEF WorkerOK
  <2>3. CASE v = w /\ a \in Callers
    <3>1. pc'[v] = pc[v] /\ heap'[v] = "freed" /\ pc[v] \in {"leave", "ended"}
      BY <1>2, <1>4, <1>5, <2>1, <2>3 DEF WorkerOK
    <3> QED
      BY <1>1, <1>4, <2>1, <2>3, <3>1 DEF WorkerOK, DelLocs
  <2>4. CASE v = w /\ a \notin Callers
    <3>1. pc'[v] = "ended" /\ heap'[v] = "freed" /\ pc[v] = "delFree"
      BY <1>1, <1>2, <1>4, <1>5, <2>4
    <3> QED
      BY <1>1, <1>4, <2>1, <2>4, <3>1 DEF WorkerOK, DelLocs
  <2> QED
    BY <2>2, <2>3, <2>4
<1>13. CallerInv'
  <2> SUFFICES ASSUME NEW c \in Callers
               PROVE  CallerOK(c)'
    BY DEF CallerInv
  <2>1. CASE c # a
    <3>1. pc'[c] = "idle"
      BY <1>2, <1>4, <2>1
    <3> QED
      BY <3>1 DEF CallerOK, CreateLocs, FindLocs, JoinLocs, DetachLocs, DelLocs
  <2>2. CASE c = a
    <3>1. CallerOK(a)
      BY <2>2 DEF CallerInv
    <3>2. pc'[a] = "joined" /\ value'[a] = target'[a]
      BY <1>1, <1>2, <2>2, <3>1 DEF CallerOK, DelLocs
    <3> QED
      BY <2>2, <3>2 DEF CallerOK, CreateLocs, FindLocs, JoinLocs, DetachLocs, DelLocs
  <2> QED
    BY <2>1, <2>2
<1>14. DelInv'
  <2> SUFFICES ASSUME NEW b \in Agents
               PROVE  pc'[b] \notin DelLocs
    BY DEF DelInv, DelOK, DelLocs
  <2> QED
    BY <1>2, <1>4 DEF DelLocs
<1>15. \A v \in Workers : ~Loose(v)'
  BY <1>1, <1>4, <1>5 DEF Loose, HandleInv, Untouched
<1>17. OwnerInv'
  BY <1>1, <1>4, <1>5, <1>15 DEF OwnerInv
<1>18. AloneInv'
  <2>1. use = "single" => heap'[2] = "freed"
    BY <1>4, <1>5
  <2>2. \A c, d \in Callers : c # d => pc'[c] = "idle" \/ pc'[d] = "idle"
    BY <1>2, <1>4
  <2> QED
    BY <1>15, <2>1, <2>2 DEF AloneInv
<1>19. HandleInv'
  <2> SUFFICES ASSUME NEW v \in handles
               PROVE  (Untouched(v) /\ pc[v] # "none" /\ v \in Listed)'
    BY <1>1 DEF HandleInv
  <2>1. v \in Workers /\ v # w /\ Untouched(v) /\ pc[v] # "none" /\ v \in Listed
    BY <1>0, <1>4 DEF ThreadTypeOK, HandleInv
  <2>2. pc'[v] # "none" /\ heap'[v] = heap[v]
    BY <1>2, <1>5, <2>1
  <2> QED
    BY <1>1, <1>6, <2>1, <2>2 DEF Untouched
<1>20. IdInv'
  <2>1. \A v \in Workers : pc'[v] # "none" <=> pc[v] # "none"
    BY <1>1, <1>2
  <2>2. \A v \in Workers : heap'[v] = "live" => heap[v] = "live"
    BY <1>4, <1>5
  <2> QED
    BY <1>1, <1>6, <2>1, <2>2 DEF IdInv
<1> QED
  BY <1>7, <1>9, <1>10, <1>11, <1>12, <1>13, <1>14, <1>17, <1>18, <1>19, <1>20

-----------------------------------------------------------------------------
\* One thread is created at a time, and every other live node is its client's.
LEMMA Creator ==
  ASSUME ThreadInv, NEW c \in Callers, pc[c] \in CreateLocs
  PROVE  /\ Creating(c) /\ th[c] \in Workers /\ Untouched(th[c]) /\ th[c] \notin handles
         /\ \A d \in Callers : d # c => pc[d] = "idle"
         /\ \A v \in Workers : ~Loose(v) /\ pc[v] \notin DelLocs
         /\ \A v \in Workers : heap[v] = "live" /\ v # th[c] => v \in handles
         /\ use = "single" => th[c] = 2
<1> USE SetFacts DEF ThreadInv
<1>0. ThreadTypeOK
  OBVIOUS
<1>1. Creating(c) /\ th[c] \in Workers /\ Untouched(th[c]) /\ th[c] \notin handles
  BY DEF CallerInv, CallerOK, Creating
<1>2. Holds(c, th[c]) /\ heap[th[c]] = "live"
  BY <1>1 DEF Holds, Untouched
<1>3. (\A d \in Callers : d # c => pc[d] = "idle") /\ \A v \in Workers : ~Loose(v)
  BY <1>1, <1>2, OthersIdle
<1>4. \A v \in Workers : pc[v] \notin DelLocs
  BY <1>0, <1>3 DEF ThreadTypeOK, WorkerInv, WorkerOK, DelLocs, Loose
<1>5. \A v \in Workers, d \in Callers : Holds(d, v) => v = th[c]
  BY <1>3 DEF Holds, CreateLocs, FindLocs, JoinLocs, DetachLocs, DelLocs
<1>6. \A v \in Workers : heap[v] = "live" /\ v # th[c] => v \in handles
  BY <1>3, <1>5 DEF OwnerInv
<1>7. use = "single" => th[c] = 2
  BY <1>1, <1>2 DEF HeapInv
<1> QED
  BY <1>1, <1>3, <1>4, <1>6, <1>7

\* The client's threads are found in the list by distinct ids.
LEMMA Handled ==
  ASSUME ThreadInv, NEW v \in handles
  PROVE  /\ v \in Workers /\ v \in Nodes /\ heap[v] = "live" /\ Untouched(v) /\ v \in Listed
         /\ v \in Running /\ ~Loose(v)
<1> USE SetFacts DEF ThreadInv
<1>1. v \in Workers /\ Untouched(v) /\ v \in Listed /\ pc[v] # "none"
  BY TypeFacts DEF HandleInv
<1>2. pc[v] \in {"func", "waitQuit"}
  BY <1>1 DEF WorkerInv, WorkerOK, Untouched
<1> QED
  BY <1>1, <1>2 DEF Running, Untouched, Loose

\* A node is allocated.
LEMMA CreateKeeps ==
  ASSUME ThreadInv, use # "overlapping", NEW c \in Callers, NEW n \in Workers, UNCHANGED use, Create(c, n)
  PROVE  ThreadInv'
<1> USE SetFacts DEF ThreadInv
<1>0. ThreadTypeOK
  OBVIOUS
<1>1. /\ pc[c] = "idle" /\ pc' = [pc EXCEPT ![c] = "begin"] /\ heap' = [heap EXCEPT ![n] = "live"]
      /\ th' = [th EXCEPT ![c] = n] /\ Fresh(n) /\ MayCall(c)
      /\ UNCHANGED <<start, tid, next, detached, quit, done, result, id, handles, arg, prev, local, value, target>>
  BY DEF Create, Goto, list
<1>2. /\ c \in Agents /\ c \notin Workers /\ n # c
      /\ pc'[c] = "begin" /\ th'[c] = n /\ \A b \in Agents : b # c => pc'[b] = pc[b] /\ th'[b] = th[b]
      /\ Workers \subseteq Agents /\ Callers \subseteq Agents
      /\ heap'[n] = "live" /\ \A m \in Nodes : m # n => heap'[m] = heap[m]
  <2>1. c \in Agents /\ c \notin Workers /\ n # c /\ n \in Nodes
    OBVIOUS
  <2>2. pc'[c] = "begin" /\ th'[c] = n /\ \A b \in Agents : b # c => pc'[b] = pc[b] /\ th'[b] = th[b]
    BY <1>0, <1>1, <2>1 DEF ThreadTypeOK
  <2>3. heap'[n] = "live" /\ \A m \in Nodes : m # n => heap'[m] = heap[m]
    BY <1>0, <1>1, <2>1 DEF ThreadTypeOK
  <2> QED
    BY <2>1, <2>2, <2>3
<1>3. heap[n] = "unused" /\ (use = "single" => n = 2) /\ \A m \in Workers : m < n => heap[m] # "unused"
  BY <1>1 DEF Fresh
<1>4. WorkerOK(n) /\ pc[n] = "none" /\ quit[n] = 0 /\ detached[n] = 0 /\ done[n] = 0 /\ n \notin handles
  <2>1. WorkerOK(n)
    BY DEF WorkerInv
  <2> QED
    BY <1>3, <2>1 DEF WorkerOK
<1>5. use \in {"single", "serialized"}
  BY TypeFacts, ThreadAssumption
<1>6. \A d \in Callers : pc[d] = "idle"
  <2>1. CASE use = "serialized"
    BY <1>1, <2>1 DEF MayCall, Serialized
  <2>2. CASE use = "single"
    <3> SUFFICES ASSUME NEW d \in Callers, pc[d] # "idle"
                 PROVE  FALSE
      OBVIOUS
    <3>1. Holds(d, 2) /\ heap[2] = "unused"
      BY <1>3, <2>2 DEF AloneInv
    <3>2. CallerOK(d)
      BY DEF CallerInv
    <3>3. heap[2] = "live"
      BY <3>1, <3>2 DEF Holds, CallerOK, Creating, Looking, Meant, Untouched
    <3> QED
      BY <3>1, <3>3
  <2> QED
    BY <1>5, <2>1, <2>2
<1>7. \A v \in Workers : ~Loose(v) /\ pc[v] \notin DelLocs
  <2>1. \A v \in Workers : ~Loose(v)
    BY <1>3, <1>5 DEF Loose, WorkerInv, WorkerOK, HeapInv
  <2> QED
    BY <1>0, <2>1 DEF ThreadTypeOK, WorkerInv, WorkerOK, DelLocs, Loose
<1>8. \A v \in Workers : heap[v] = "live" => v \in handles
  BY <1>6, <1>7 DEF OwnerInv, Holds, CreateLocs, FindLocs, JoinLocs, DetachLocs, DelLocs
<1>9. Listed' = Listed
  <2>1. \A m : m # n => (Unlisted(m)' <=> Unlisted(m))
    BY <1>1, <1>2 DEF Unlisted
  <2>2. n \notin Listed /\ n \notin Listed'
    BY <1>2, <1>3 DEF Listed, Unlisted
  <2> QED
    BY <1>2, <2>1, <2>2 DEF Listed
<1>10. ThreadTypeOK'
  <2>1. pc' \in [Agents -> Locations] /\ heap' \in [Nodes -> {"unused", "live", "freed"}]
        /\ th' \in [Agents -> {NULL} \cup Nodes]
    BY <1>0, <1>1 DEF ThreadTypeOK, CreateLocs, Locations
  <2> QED
    BY <1>1, <2>1 DEF ThreadTypeOK
<1>11. PlaceInv'
  BY <1>2 DEF PlaceInv, CallerLocs, CreateLocs
<1>12. HeapInv'
  BY <1>1, <1>2, <1>3 DEF HeapInv
<1>13. WorkerInv'
  <2> SUFFICES ASSUME NEW v \in Workers
               PROVE  WorkerOK(v)'
    BY DEF WorkerInv
  <2>1. WorkerOK(v) /\ pc'[v] = pc[v] /\ th'[v] = th[v]
    BY <1>2 DEF WorkerInv
  <2>2. CASE v # n
    <3>1. heap'[v] = heap[v]
      BY <1>2, <2>2
    <3> QED
      BY <1>1, <2>1, <3>1 DEF WorkerOK
  <2>3. CASE v = n
    BY <1>1, <1>2, <1>4, <2>1, <2>3 DEF WorkerOK, DelLocs
  <2> QED
    BY <2>2, <2>3
<1>14. CallerInv'
  <2> SUFFICES ASSUME NEW d \in Callers
               PROVE  CallerOK(d)'
    BY DEF CallerInv
  <2>1. CASE d # c
    <3>1. pc'[d] = "idle"
      BY <1>2, <1>6, <2>1
    <3> QED
      BY <3>1 DEF CallerOK, CreateLocs, FindLocs, JoinLocs, DetachLocs, DelLocs
  <2>2. CASE d = c
    <3>1. \A m \in Nodes : heap'[m] # "unused" => m <= n
      <4> SUFFICES ASSUME NEW m \in Nodes, heap'[m] # "unused", ~(m <= n)
                   PROVE  FALSE
        OBVIOUS
      <4>1. m \in Nat /\ n \in Nat /\ n \in Nodes
        OBVIOUS
      <4>2. n < m /\ m # n
        BY <4>1
      <4>3. heap[m] = "unused" /\ heap'[m] = heap[m]
        BY <1>2, <1>3, <4>1, <4>2 DEF HeapInv
      <4> QED
        BY <4>3
    <3>2. Creating(c)'
      BY <1>1, <1>2, <1>4, <3>1 DEF Creating, Untouched
    <3> QED
      BY <1>2, <2>2, <3>2 DEF CallerOK, CreateLocs, FindLocs, JoinLocs, DetachLocs, DelLocs
  <2> QED
    BY <2>1, <2>2
<1>15. DelInv'
  <2> SUFFICES ASSUME NEW b \in Agents
               PROVE  pc'[b] \notin DelLocs
    BY DEF DelInv, DelOK, DelLocs
  <2> QED
    BY <1>2, <1>6, <1>7 DEF DelLocs
<1>16. ListInv'
  BY <1>1, <1>9 DEF ListInv
<1>17. \A v \in Workers : ~Loose(v)'
  BY <1>1, <1>2, <1>4, <1>7 DEF Loose
<1>18. Holds(c, n)'
  BY <1>2 DEF Holds, CreateLocs
<1>19. OwnerInv'
  BY <1>1, <1>2, <1>8, <1>17, <1>18 DEF OwnerInv
<1>20. AloneInv'
  BY <1>2, <1>3, <1>6, <1>17, <1>18 DEF AloneInv
<1>21. HandleInv'
  <2> SUFFICES ASSUME NEW v \in handles
               PROVE  (Untouched(v) /\ pc[v] # "none" /\ v \in Listed)'
    BY <1>1 DEF HandleInv
  <2>1. v \in Workers /\ v # n /\ Untouched(v) /\ pc[v] # "none" /\ v \in Listed
    BY <1>0, <1>4 DEF ThreadTypeOK, HandleInv
  <2>2. pc'[v] # "none" /\ heap'[v] = heap[v]
    BY <1>2, <2>1
  <2> QED
    BY <1>1, <1>9, <2>1, <2>2 DEF Untouched
<1>22. IdInv'
  <2>1. \A v \in Workers : pc'[v] = pc[v] /\ (heap'[v] = "live" /\ pc[v] # "none" => heap[v] = "live")
    BY <1>2, <1>4
  <2> QED
    BY <1>1, <1>9, <2>1 DEF IdInv
<1> QED
  BY <1>10, <1>11, <1>12, <1>13, <1>14, <1>15, <1>16, <1>19, <1>20, <1>21, <1>22

\* _beginthread fails and the node is freed.
LEMMA BeginFailsKeeps ==
  ASSUME ThreadInv, NEW c \in Callers, UNCHANGED use, BeginFails(c)
  PROVE  ThreadInv'
<1> USE SetFacts DEF ThreadInv
<1>0. ThreadTypeOK
  OBVIOUS
<1>1. /\ pc[c] = "begin" /\ pc' = [pc EXCEPT ![c] = "idle"] /\ heap' = [heap EXCEPT ![th[c]] = "freed"]
      /\ UNCHANGED <<start, tid, next, detached, quit, done, result, id, handles, arg, th, prev, local, value, target>>
  BY DEF BeginFails, Goto, list, locals
<1>a. pc[c] \in CreateLocs
  BY <1>1 DEF CreateLocs
<1>2. PICK w \in Workers : w = th[c]
  BY <1>a, Creator
<1>3. /\ Creating(c) /\ Untouched(w) /\ w \notin handles /\ pc[w] = "none"
      /\ \A d \in Callers : d # c => pc[d] = "idle"
      /\ \A v \in Workers : ~Loose(v) /\ pc[v] \notin DelLocs
      /\ \A v \in Workers : heap[v] = "live" /\ v # w => v \in handles
      /\ use = "single" => w = 2
  <2>1. Creating(c)
    BY <1>a, Creator
  <2>2. pc[w] = "none"
    BY <1>1, <1>2, <2>1 DEF Creating
  <2> QED
    BY <1>2, <1>a, <2>2, Creator
<1>4. /\ c \in Agents /\ c \notin Workers /\ w # c /\ w \in Nodes
      /\ Workers \subseteq Agents /\ Callers \subseteq Agents
  OBVIOUS
<1>5. pc'[c] = "idle" /\ \A b \in Agents : b # c => pc'[b] = pc[b]
  BY <1>0, <1>1, <1>4 DEF ThreadTypeOK
<1>6. heap'[w] = "freed" /\ \A m \in Nodes : m # w => heap'[m] = heap[m]
  BY <1>0, <1>1, <1>2, <1>4 DEF ThreadTypeOK
<1>7. \A v \in Workers : pc'[v] = pc[v]
  BY <1>4, <1>5
<1>9. Listed' = Listed
  <2>1. \A m : m # w => (Unlisted(m)' <=> Unlisted(m))
    BY <1>1, <1>2, <1>5 DEF Unlisted
  <2>2. w \notin Listed /\ w \notin Listed'
    BY <1>1, <1>2, <1>4, <1>6 DEF Listed, Unlisted
  <2> QED
    BY <1>6, <2>1, <2>2 DEF Listed
<1>10. ThreadTypeOK'
  <2>1. pc' \in [Agents -> Locations] /\ heap' \in [Nodes -> {"unused", "live", "freed"}]
    BY <1>0, <1>1 DEF ThreadTypeOK, Locations
  <2> QED
    BY <1>1, <2>1 DEF ThreadTypeOK
<1>11. PlaceInv'
  BY <1>4, <1>5 DEF PlaceInv, CallerLocs
<1>12. HeapInv'
  BY <1>1, <1>3, <1>6 DEF HeapInv, Untouched
<1>13. WorkerInv'
  <2> SUFFICES ASSUME NEW v \in Workers
               PROVE  WorkerOK(v)'
    BY DEF WorkerInv
  <2>1. WorkerOK(v) /\ pc'[v] = pc[v]
    BY <1>7 DEF WorkerInv
  <2>2. CASE v # w
    <3>1. heap'[v] = heap[v]
      BY <1>6, <2>2
    <3> QED
      BY <1>1, <2>1, <3>1 DEF WorkerOK
  <2>3. CASE v = w
    BY <1>1, <1>3, <1>6, <2>1, <2>3 DEF WorkerOK, Untouched
  <2> QED
    BY <2>2, <2>3
<1>b. \A d \in Callers : pc'[d] = "idle"
  BY <1>3, <1>4, <1>5
<1>14. CallerInv'
  BY <1>b DEF CallerInv, CallerOK, CreateLocs, FindLocs, JoinLocs, DetachLocs, DelLocs
<1>15. DelInv'
  <2> SUFFICES ASSUME NEW b \in Agents
               PROVE  pc'[b] \notin DelLocs
    BY DEF DelInv, DelOK, DelLocs
  <2> QED
    BY <1>3, <1>7, <1>b DEF DelLocs
<1>16. ListInv'
  BY <1>1, <1>9 DEF ListInv
<1>17. \A v \in Workers : ~Loose(v)'
  BY <1>1, <1>3, <1>6 DEF Loose
<1>19. OwnerInv'
  BY <1>1, <1>3, <1>6, <1>17 DEF OwnerInv
<1>20. AloneInv'
  BY <1>17, <1>b DEF AloneInv
<1>21. HandleInv'
  <2> SUFFICES ASSUME NEW v \in handles
               PROVE  (Untouched(v) /\ pc[v] # "none" /\ v \in Listed)'
    BY <1>1 DEF HandleInv
  <2>1. v \in Workers /\ v # w /\ Untouched(v) /\ pc[v] # "none" /\ v \in Listed
    BY <1>0, <1>3 DEF ThreadTypeOK, HandleInv
  <2>2. pc'[v] # "none" /\ heap'[v] = heap[v]
    BY <1>6, <1>7, <2>1
  <2> QED
    BY <1>1, <1>9, <2>1, <2>2 DEF Untouched
<1>22. IdInv'
  <2>1. \A v \in Workers : pc'[v] = pc[v] /\ (heap'[v] = "live" => heap[v] = "live")
    BY <1>6, <1>7
  <2> QED
    BY <1>1, <1>9, <2>1 DEF IdInv
<1> QED
  BY <1>10, <1>11, <1>12, <1>13, <1>14, <1>15, <1>16, <1>19, <1>20, <1>21, <1>22

\* The thread runs, with an id that no other live node has.
LEMMA BeginThreadKeeps ==
  ASSUME ThreadInv, NEW c \in Callers, UNCHANGED use, BeginThread(c)
  PROVE  ThreadInv'
<1> USE SetFacts DEF ThreadInv
<1>0. ThreadTypeOK
  OBVIOUS
<1>1. /\ pc[c] = "begin" /\ pc' = [pc EXCEPT ![c] = "addNext", ![th[c]] = "func"]
      /\ th' = [th EXCEPT ![th[c]] = th[c]] /\ \E i \in FreeIds : id' = [id EXCEPT ![th[c]] = i]
      /\ UNCHANGED <<start, tid, next, heap, detached, quit, done, result, handles, arg, prev, local, value, target>>
  BY DEF BeginThread, list, node
<1>a. pc[c] \in CreateLocs
  BY <1>1 DEF CreateLocs
<1>2. PICK w \in Workers : w = th[c]
  BY <1>a, Creator
<1>3. /\ Creating(c) /\ Untouched(w) /\ w \notin handles /\ pc[w] = "none"
      /\ \A d \in Callers : d # c => pc[d] = "idle"
      /\ \A v \in Workers : ~Loose(v) /\ pc[v] \notin DelLocs
      /\ \A v \in Workers : heap[v] = "live" /\ v # w => v \in handles
      /\ use = "single" => w = 2
  <2>1. Creating(c)
    BY <1>a, Creator
  <2>2. pc[w] = "none"
    BY <1>1, <1>2, <2>1 DEF Creating
  <2> QED
    BY <1>2, <1>a, <2>2, Creator
<1>4. /\ c \in Agents /\ c \notin Workers /\ w # c /\ w \in Nodes /\ w \in Agents
      /\ Workers \subseteq Agents /\ Callers \subseteq Agents
  OBVIOUS
<1>5. PICK i \in FreeIds : id' = [id EXCEPT ![w] = i]
  BY <1>1, <1>2
<1>6. i \in Ids /\ \A v \in Running : id[v] # i
  BY DEF FreeIds
<1>7. /\ pc'[c] = "addNext" /\ pc'[w] = "func" /\ \A b \in Agents : b # c /\ b # w => pc'[b] = pc[b]
      /\ pc' \in [Agents -> Locations]
  <2>1. pc' = [pc EXCEPT ![c] = "addNext", ![w] = "func"]
    BY <1>1, <1>2
  <2>2. "addNext" \in Locations /\ "func" \in Locations
    BY DEF CreateLocs, EntryLocs, Locations
  <2> QED
    BY <1>0, <1>4, <2>1, <2>2 DEF ThreadTypeOK
<1>8. /\ th'[w] = w /\ th'[c] = w /\ \A b \in Agents : b # w => th'[b] = th[b]
      /\ th' \in [Agents -> {NULL} \cup Nodes]
  BY <1>0, <1>1, <1>2, <1>4 DEF ThreadTypeOK
<1>9. /\ id'[w] = i /\ \A v \in Workers : v # w => id'[v] = id[v]
      /\ id' \in [Workers -> {0} \cup Ids]
  BY <1>0, <1>5, <1>6 DEF ThreadTypeOK
<1>10. Listed' = Listed
  <2>1. \A a \in Agents :
           /\ pc[a] \in {"begin", "addNext", "addStart", "delFree"}
                <=> pc'[a] \in {"begin", "addNext", "addStart", "delFree"}
           /\ pc[a] \in {"begin", "addNext", "addStart", "delFree"} => th'[a] = th[a]
    BY <1>1, <1>2, <1>3, <1>7, <1>8
  <2> QED
    BY <1>1, <2>1, SameListed
<1>b. w \notin Listed
  BY <1>1, <1>2, <1>4 DEF Listed, Unlisted
<1>11. ThreadTypeOK'
  BY <1>1, <1>7, <1>8, <1>9 DEF ThreadTypeOK
<1>12. PlaceInv'
  BY <1>4, <1>7 DEF PlaceInv, CallerLocs, CreateLocs, EntryLocs
<1>13. HeapInv'
  BY <1>1 DEF HeapInv
<1>14. WorkerInv'
  <2> SUFFICES ASSUME NEW v \in Workers
               PROVE  WorkerOK(v)'
    BY DEF WorkerInv
  <2>1. WorkerOK(v)
    BY DEF WorkerInv
  <2>2. CASE v # w
    <3>1. pc'[v] = pc[v] /\ th'[v] = th[v] /\ id'[v] = id[v]
      BY <1>4, <1>7, <1>8, <1>9, <2>2
    <3> QED
      BY <1>1, <2>1, <3>1 DEF WorkerOK
  <2>3. CASE v = w
    BY <1>1, <1>3, <1>6, <1>7, <1>8, <1>9, <2>1, <2>3 DEF WorkerOK, Untouched, DelLocs
  <2> QED
    BY <2>2, <2>3
<1>15. CallerInv'
  <2> SUFFICES ASSUME NEW d \in Callers
               PROVE  CallerOK(d)'
    BY DEF CallerInv
  <2>1. CASE d # c
    <3>1. pc'[d] = "idle"
      BY <1>3, <1>4, <1>7, <2>1
    <3> QED
      BY <3>1 DEF CallerOK, CreateLocs, FindLocs, JoinLocs, DetachLocs, DelLocs
  <2>2. CASE d = c
    <3>1. Creating(c)'
      BY <1>1, <1>2, <1>3, <1>7, <1>8 DEF Creating, Untouched
    <3> QED
      BY <1>7, <2>2, <3>1 DEF CallerOK, CreateLocs, FindLocs, JoinLocs, DetachLocs, DelLocs
  <2> QED
    BY <2>1, <2>2
<1>16. DelInv'
  <2> SUFFICES ASSUME NEW b \in Agents
               PROVE  pc'[b] \notin DelLocs
    BY DEF DelInv, DelOK, DelLocs
  <2> QED
    BY <1>3, <1>4, <1>7 DEF DelLocs
<1>17. ListInv'
  BY <1>1, <1>10 DEF ListInv
<1>18. \A v \in Workers : ~Loose(v)'
  BY <1>1, <1>3 DEF Loose
<1>c. Holds(c, w)'
  BY <1>7, <1>8 DEF Holds, CreateLocs
<1>19. OwnerInv'
  BY <1>1, <1>3, <1>18, <1>c DEF OwnerInv
<1>20. AloneInv'
  <2>1. \A d \in Callers : d # c => pc'[d] = "idle"
    BY <1>3, <1>4, <1>7
  <2> QED
    BY <1>3, <1>18, <1>c, <2>1 DEF AloneInv
<1>21. HandleInv'
  <2> SUFFICES ASSUME NEW v \in handles
               PROVE  (Untouched(v) /\ pc[v] # "none" /\ v \in Listed)'
    BY <1>1 DEF HandleInv
  <2>1. v \in Workers /\ v # w /\ Untouched(v) /\ pc[v] # "none" /\ v \in Listed
    BY <1>0, <1>3 DEF ThreadTypeOK, HandleInv
  <2>2. pc'[v] # "none"
    BY <1>4, <1>7, <2>1
  <2> QED
    BY <1>1, <1>10, <2>1, <2>2 DEF Untouched
<1>22. IdInv'
  <2>1. \A v \in Workers : v # w => pc'[v] = pc[v] /\ id'[v] = id[v]
    BY <1>4, <1>7, <1>9
  <2>2. \A v \in Workers : v \in Listed' => tid'[v] = id'[v] /\ pc'[v] # "none"
    BY <1>1, <1>10, <1>b, <2>1 DEF IdInv
  <2>3. \A v \in Workers : v # w /\ heap[v] = "live" => id[v] # i
    BY <1>3, <1>6, Handled
  <2>4. \A u, v \in Workers :
          heap'[u] = "live" /\ pc'[u] # "none" /\ heap'[v] = "live" /\ pc'[v] # "none" /\ id'[u] = id'[v]
          => u = v
    BY <1>1, <1>9, <2>1, <2>3 DEF IdInv
  <2> QED
    BY <2>2, <2>4 DEF IdInv
<1> QED
  BY <1>11, <1>12, <1>13, <1>14, <1>15, <1>16, <1>17, <1>19, <1>20, <1>21, <1>22

\* The node points to the old list.
LEMMA AddNextKeeps ==
  ASSUME ThreadInv, NEW c \in Callers, UNCHANGED use, AddNext(c)
  PROVE  ThreadInv'
<1> USE SetFacts DEF ThreadInv
<1>0. ThreadTypeOK
  OBVIOUS
<1>1. /\ pc[c] = "addNext" /\ pc' = [pc EXCEPT ![c] = "addStart"]
      /\ tid' = [tid EXCEPT ![th[c]] = id[th[c]]] /\ next' = [next EXCEPT ![th[c]] = start]
      /\ UNCHANGED <<start, heap, detached, quit, done, result, id, handles, arg, th, prev, local, value, target>>
  BY DEF AddNext, Goto, OldStart, node, locals
<1>a. pc[c] \in CreateLocs
  BY <1>1 DEF CreateLocs
<1>2. PICK w \in Workers : w = th[c]
  BY <1>a, Creator
<1>3. /\ Creating(c) /\ Untouched(w) /\ w \notin handles /\ pc[w] # "none"
      /\ \A d \in Callers : d # c => pc[d] = "idle"
      /\ \A v \in Workers : ~Loose(v) /\ pc[v] \notin DelLocs
      /\ \A v \in Workers : heap[v] = "live" /\ v # w => v \in handles
      /\ use = "single" => w = 2
  <2>1. Creating(c)
    BY <1>a, Creator
  <2>2. pc[w] # "none"
    BY <1>1, <1>2, <2>1 DEF Creating
  <2> QED
    BY <1>2, <1>a, <2>2, Creator
<1>4. /\ c \in Agents /\ c \notin Workers /\ w # c /\ w \in Nodes /\ w \in Agents
      /\ Workers \subseteq Agents /\ Callers \subseteq Agents
  OBVIOUS
<1>5. /\ pc'[c] = "addStart" /\ \A b \in Agents : b # c => pc'[b] = pc[b]
      /\ pc' \in [Agents -> Locations]
  <2>1. "addStart" \in Locations
    BY DEF CreateLocs, Locations
  <2> QED
    BY <1>0, <1>1, <1>4, <2>1 DEF ThreadTypeOK
<1>6. /\ tid'[w] = id[w] /\ \A m \in Nodes : m # w => tid'[m] = tid[m]
      /\ tid' \in [Nodes -> {0, main_thread} \cup Ids]
  BY <1>0, <1>1, <1>2, <1>4 DEF ThreadTypeOK
<1>7. /\ next'[w] = start /\ \A m \in Nodes : m # w => next'[m] = next[m]
      /\ next' \in [Nodes -> {NULL} \cup Nodes]
  BY <1>0, <1>1, <1>2, <1>4 DEF ThreadTypeOK
<1>8. \A v \in Workers : pc'[v] = pc[v]
  BY <1>4, <1>5
<1>10. Listed' = Listed
  <2>1. \A a \in Agents :
           /\ pc[a] \in {"begin", "addNext", "addStart", "delFree"}
                <=> pc'[a] \in {"begin", "addNext", "addStart", "delFree"}
           /\ pc[a] \in {"begin", "addNext", "addStart", "delFree"} => th'[a] = th[a]
    BY <1>1, <1>5
  <2> QED
    BY <1>1, <2>1, SameListed
<1>b. w \notin Listed /\ Listed \subseteq Nodes
  BY <1>1, <1>2, <1>4 DEF Listed, Unlisted
<1>11. ThreadTypeOK'
  BY <1>1, <1>5, <1>6, <1>7 DEF ThreadTypeOK
<1>12. PlaceInv'
  BY <1>4, <1>5 DEF PlaceInv, CallerLocs, CreateLocs
<1>13. HeapInv'
  BY <1>1, <1>6 DEF HeapInv
<1>14. WorkerInv'
  BY <1>1, <1>8 DEF WorkerInv, WorkerOK
<1>15. CallerInv'
  <2> SUFFICES ASSUME NEW d \in Callers
               PROVE  CallerOK(d)'
    BY DEF CallerInv
  <2>1. CASE d # c
    <3>1. pc'[d] = "idle"
      BY <1>3, <1>4, <1>5, <2>1
    <3> QED
      BY <3>1 DEF CallerOK, CreateLocs, FindLocs, JoinLocs, DetachLocs, DelLocs
  <2>2. CASE d = c
    <3>1. Creating(c)'
      BY <1>1, <1>2, <1>3, <1>5, <1>6, <1>7, <1>8 DEF Creating, Untouched
    <3> QED
      BY <1>5, <2>2, <3>1 DEF CallerOK, CreateLocs, FindLocs, JoinLocs, DetachLocs, DelLocs
  <2> QED
    BY <2>1, <2>2
<1>16. DelInv'
  <2> SUFFICES ASSUME NEW b \in Agents
               PROVE  pc'[b] \notin DelLocs
    BY DEF DelInv, DelOK, DelLocs
  <2> QED
    BY <1>3, <1>4, <1>5 DEF DelLocs
<1>17. ListInv'
  <2>1. \A m \in Listed : next'[m] = next[m]
    BY <1>7, <1>b
  <2> QED
    BY <1>1, <1>10, <2>1 DEF ListInv, Descends
<1>18. \A v \in Workers : ~Loose(v)'
  BY <1>1, <1>3 DEF Loose
<1>c. Holds(c, w)'
  BY <1>1, <1>2, <1>5 DEF Holds, CreateLocs
<1>19. OwnerInv'
  BY <1>1, <1>3, <1>18, <1>c DEF OwnerInv
<1>20. AloneInv'
  <2>1. \A d \in Callers : d # c => pc'[d] = "idle"
    BY <1>3, <1>4, <1>5
  <2> QED
    BY <1>3, <1>18, <1>c, <2>1 DEF AloneInv
<1>21. HandleInv'
  BY <1>0, <1>1, <1>8, <1>10 DEF ThreadTypeOK, HandleInv, Untouched
<1>22. IdInv'
  BY <1>1, <1>6, <1>8, <1>10, <1>b DEF IdInv
<1> QED
  BY <1>11, <1>12, <1>13, <1>14, <1>15, <1>16, <1>17, <1>19, <1>20, <1>21, <1>22

\* The node becomes the first of the list.
LEMMA AddStartKeeps ==
  ASSUME ThreadInv, NEW c \in Callers, UNCHANGED use, AddStart(c)
  PROVE  ThreadInv'
<1> USE SetFacts DEF ThreadInv
<1>0. ThreadTypeOK
  OBVIOUS
<1>1. /\ pc[c] = "addStart" /\ pc' = [pc EXCEPT ![c] = "store"] /\ start' = th[c]
      /\ UNCHANGED <<tid, next, heap, detached, quit, done, result, id, handles, arg, th, prev, local, value, target>>
  BY DEF AddStart, Goto, node, locals
<1>a. pc[c] \in CreateLocs
  BY <1>1 DEF CreateLocs
<1>2. PICK w \in Workers : w = th[c]
  BY <1>a, Creator
<1>3. /\ Untouched(w) /\ w \notin handles /\ pc[w] # "none" /\ tid[w] = id[w] /\ next[w] = start
      /\ \A n \in Nodes : heap[n] # "unused" => n <= w
      /\ \A d \in Callers : d # c => pc[d] = "idle"
      /\ \A v \in Workers : ~Loose(v) /\ pc[v] \notin DelLocs
      /\ \A v \in Workers : heap[v] = "live" /\ v # w => v \in handles
      /\ use = "single" => w = 2
  <2>1. Creating(c)
    BY <1>a, Creator
  <2>2. /\ pc[w] # "none" /\ tid[w] = id[w] /\ next[w] = start
        /\ \A n \in Nodes : heap[n] # "unused" => n <= w
    BY <1>1, <1>2, <2>1 DEF Creating
  <2> QED
    BY <1>2, <1>a, <2>2, Creator
<1>4. /\ c \in Agents /\ c \notin Workers /\ w # c /\ w \in Nodes /\ w \in Agents
      /\ Workers \subseteq Agents /\ Callers \subseteq Agents
  OBVIOUS
<1>5. /\ pc'[c] = "store" /\ \A b \in Agents : b # c => pc'[b] = pc[b]
      /\ pc' \in [Agents -> Locations]
  <2>1. "store" \in Locations
    BY DEF CreateLocs, Locations
  <2> QED
    BY <1>0, <1>1, <1>4, <2>1 DEF ThreadTypeOK
<1>8. \A v \in Workers : pc'[v] = pc[v]
  BY <1>4, <1>5
<1>b. w \notin Listed /\ Listed \subseteq Nodes
  BY <1>1, <1>2, <1>4 DEF Listed, Unlisted
<1>10. Listed' = Listed \cup {w}
  <2>1. \A m : m # w => (Unlisted(m)' <=> Unlisted(m))
    BY <1>1, <1>2, <1>5 DEF Unlisted
  <2>2. ~Unlisted(w)'
    <3> SUFFICES ASSUME NEW a \in Agents, th'[a] = w, pc'[a] \in {"begin", "addNext", "addStart", "delFree"}
                 PROVE  FALSE
      BY DEF Unlisted
    <3>1. a # c /\ pc'[a] = pc[a]
      BY <1>5
    <3>2. a \in Workers
      BY <1>3, <3>1
    <3>3. pc[a] \notin DelLocs /\ pc[a] \in EntryLocs \cup DelLocs
      BY <1>3, <3>2 DEF PlaceInv
    <3> QED
      BY <3>1, <3>3 DEF EntryLocs, DelLocs
  <2> QED
    BY <1>1, <1>3, <1>4, <2>1, <2>2 DEF Listed, Untouched
<1>11. ThreadTypeOK'
  BY <1>1, <1>2, <1>4, <1>5 DEF ThreadTypeOK
<1>12. PlaceInv'
  BY <1>4, <1>5 DEF PlaceInv, CallerLocs, CreateLocs
<1>13. HeapInv'
  BY <1>1 DEF HeapInv
<1>14. WorkerInv'
  BY <1>1, <1>8 DEF WorkerInv, WorkerOK
<1>15. CallerInv'
  <2> SUFFICES ASSUME NEW d \in Callers
               PROVE  CallerOK(d)'
    BY DEF CallerInv
  <2>1. CASE d # c
    <3>1. pc'[d] = "idle"
      BY <1>3, <1>4, <1>5, <2>1
    <3> QED
      BY <3>1 DEF CallerOK, CreateLocs, FindLocs, JoinLocs, DetachLocs, DelLocs
  <2>2. CASE d = c
    <3>1. Creating(c)'
      BY <1>1, <1>2, <1>3, <1>5, <1>8, <1>10 DEF Creating, Untouched
    <3> QED
      BY <1>5, <2>2, <3>1 DEF CallerOK, CreateLocs, FindLocs, JoinLocs, DetachLocs, DelLocs
  <2> QED
    BY <2>1, <2>2
<1>16. DelInv'
  <2> SUFFICES ASSUME NEW b \in Agents
               PROVE  pc'[b] \notin DelLocs
    BY DEF DelInv, DelOK, DelLocs
  <2> QED
    BY <1>3, <1>4, <1>5 DEF DelLocs
<1>17. ListInv'
  <2>1. \A m \in Listed : m < w
    <3> SUFFICES ASSUME NEW m \in Listed
                 PROVE  m < w
      OBVIOUS
    <3>1. m \in Nat /\ w \in Nat /\ m # w /\ m <= w
      BY <1>3, <1>b, ListedFacts
    <3> QED
      BY <3>1
  <2>2. Listed \subseteq Nat /\ w \in Nat
    BY <1>b
  <2>3. Descends(Listed \cup {w}, w, next)
    BY <1>3, <2>1, <2>2, PushDescends DEF ListInv
  <2> QED
    BY <1>1, <1>2, <1>10, <2>3 DEF ListInv
<1>18. \A v \in Workers : ~Loose(v)'
  BY <1>1, <1>3 DEF Loose
<1>c. Holds(c, w)'
  BY <1>1, <1>2, <1>5 DEF Holds, CreateLocs
<1>19. OwnerInv'
  BY <1>1, <1>3, <1>18, <1>c DEF OwnerInv
<1>20. AloneInv'
  <2>1. \A d \in Callers : d # c => pc'[d] = "idle"
    BY <1>3, <1>4, <1>5
  <2> QED
    BY <1>3, <1>18, <1>c, <2>1 DEF AloneInv
<1>21. HandleInv'
  BY <1>0, <1>1, <1>8, <1>10 DEF ThreadTypeOK, HandleInv, Untouched
<1>22. IdInv'
  BY <1>1, <1>3, <1>8, <1>10 DEF IdInv
<1> QED
  BY <1>11, <1>12, <1>13, <1>14, <1>15, <1>16, <1>17, <1>19, <1>20, <1>21, <1>22

\* create returns the thread's id.
LEMMA StoreTidKeeps ==
  ASSUME ThreadInv, NEW c \in Callers, UNCHANGED use, StoreTid(c)
  PROVE  ThreadInv'
<1> USE SetFacts DEF ThreadInv
<1>0. ThreadTypeOK
  OBVIOUS
<1>1. /\ pc[c] = "store" /\ pc' = [pc EXCEPT ![c] = "idle"] /\ handles' = handles \cup {th[c]}
      /\ UNCHANGED <<start, tid, next, heap, detached, quit, done, result, id, arg, th, prev, local, value, target>>
  BY DEF StoreTid, Goto, list, node, locals
<1>a. pc[c] \in CreateLocs
  BY <1>1 DEF CreateLocs
<1>2. PICK w \in Workers : w = th[c]
  BY <1>a, Creator
<1>3. /\ Untouched(w) /\ w \notin handles /\ pc[w] # "none" /\ w \in Listed
      /\ \A d \in Callers : d # c => pc[d] = "idle"
      /\ \A v \in Workers : ~Loose(v) /\ pc[v] \notin DelLocs
      /\ \A v \in Workers : heap[v] = "live" /\ v # w => v \in handles
  <2>1. Creating(c)
    BY <1>a, Creator
  <2>2. /\ pc[w] # "none" /\ w \in Listed
    BY <1>1, <1>2, <2>1 DEF Creating
  <2> QED
    BY <1>2, <1>a, <2>2, Creator
<1>4. /\ c \in Agents /\ c \notin Workers /\ w # c /\ w \in Nodes /\ w \in Agents
      /\ Workers \subseteq Agents /\ Callers \subseteq Agents
  OBVIOUS
<1>5. /\ pc'[c] = "idle" /\ \A b \in Agents : b # c => pc'[b] = pc[b]
      /\ pc' \in [Agents -> Locations]
  <2>1. "idle" \in Locations
    BY DEF Locations
  <2> QED
    BY <1>0, <1>1, <1>4, <2>1 DEF ThreadTypeOK
<1>8. \A v \in Workers : pc'[v] = pc[v]
  BY <1>4, <1>5
<1>9. \A d \in Callers : pc'[d] = "idle"
  BY <1>3, <1>4, <1>5
<1>10. Listed' = Listed
  <2>1. \A a \in Agents :
           /\ pc[a] \in {"begin", "addNext", "addStart", "delFree"}
                <=> pc'[a] \in {"begin", "addNext", "addStart", "delFree"}
           /\ pc[a] \in {"begin", "addNext", "addStart", "delFree"} => th'[a] = th[a]
    BY <1>1, <1>5
  <2> QED
    BY <1>1, <2>1, SameListed
<1>11. ThreadTypeOK'
  <2>1. handles' \subseteq Workers
    BY <1>0, <1>1, <1>2 DEF ThreadTypeOK
  <2> QED
    BY <1>1, <1>5, <2>1 DEF ThreadTypeOK
<1>12. PlaceInv'
  BY <1>4, <1>5 DEF PlaceInv, CallerLocs
<1>13. HeapInv'
  BY <1>1 DEF HeapInv
<1>14. WorkerInv'
  <2> SUFFICES ASSUME NEW v \in Workers
               PROVE  WorkerOK(v)'
    BY DEF WorkerInv
  <2>1. WorkerOK(v) /\ pc'[v] = pc[v] /\ (v \in handles' => v \in handles \/ v = w)
    BY <1>1, <1>2, <1>8 DEF WorkerInv
  <2> QED
    BY <1>1, <1>3, <2>1 DEF WorkerOK, Untouched
<1>15. CallerInv'
  BY <1>9 DEF CallerInv, CallerOK, CreateLocs, FindLocs, JoinLocs, DetachLocs, DelLocs
<1>16. DelInv'
  <2> SUFFICES ASSUME NEW b \in Agents
               PROVE  pc'[b] \notin DelLocs
    BY DEF DelInv, DelOK, DelLocs
  <2> QED
    BY <1>3, <1>8, <1>9 DEF DelLocs
<1>17. ListInv'
  BY <1>1, <1>10 DEF ListInv
<1>18. \A v \in Workers : ~Loose(v)'
  BY <1>1, <1>3 DEF Loose
<1>19. OwnerInv'
  BY <1>1, <1>2, <1>3, <1>18 DEF OwnerInv
<1>20. AloneInv'
  BY <1>9, <1>18 DEF AloneInv
<1>21. HandleInv'
  <2> SUFFICES ASSUME NEW v \in handles'
               PROVE  (Untouched(v) /\ pc[v] # "none" /\ v \in Listed)'
    BY DEF HandleInv
  <2>1. v \in Workers /\ Untouched(v) /\ pc[v] # "none" /\ v \in Listed
    BY <1>0, <1>1, <1>2, <1>3 DEF ThreadTypeOK, HandleInv
  <2> QED
    BY <1>1, <1>8, <1>10, <2>1 DEF Untouched
<1>22. IdInv'
  BY <1>1, <1>8, <1>10 DEF IdInv
<1> QED
  BY <1>11, <1>12, <1>13, <1>14, <1>15, <1>16, <1>17, <1>19, <1>20, <1>21, <1>22

-----------------------------------------------------------------------------
(* join or detach is called, with the id of a thread that the client still *)
(* has or with one that is used up.                                        *)
LEMMA UseKeeps ==
  ASSUME ThreadInv, use # "overlapping", NEW c \in Callers, NEW t \in Workers, UNCHANGED use,
         Join(c, t) \/ Detach(c, t)
  PROVE  ThreadInv'
<1> USE SetFacts DEF ThreadInv
<1>0. ThreadTypeOK
  OBVIOUS
<1>1. PICK loop \in FindLocs : Use(c, t, loop) /\ (loop = "walk" => use = "single")
  BY DEF Join, Detach, FindLocs, MayDetach
<1>2. /\ pc[c] = "idle" /\ pc' = [pc EXCEPT ![c] = loop] /\ handles' = handles \ {t}
      /\ arg' = [arg EXCEPT ![c] = id[t]] /\ th' = [th EXCEPT ![c] = start]
      /\ target' = [target EXCEPT ![c] = IF t \in handles THEN t ELSE 0]
      /\ MayCall(c) /\ (t \in handles \/ UsedUp(t))
      /\ UNCHANGED <<start, tid, next, heap, detached, quit, done, result, id, prev, local, value>>
  BY <1>1 DEF Use, Goto, list, node
<1>3. /\ c \in Agents /\ c \notin Workers /\ t \in Nodes
      /\ Workers \subseteq Agents /\ Callers \subseteq Agents
  OBVIOUS
<1>4. /\ pc'[c] = loop /\ th'[c] = start /\ arg'[c] = id[t] /\ target'[c] = IF t \in handles THEN t ELSE 0
      /\ \A b \in Agents : b # c => /\ pc'[b] = pc[b] /\ th'[b] = th[b]
                                    /\ arg'[b] = arg[b] /\ target'[b] = target[b]
  BY <1>0, <1>2, <1>3 DEF ThreadTypeOK
<1>5. \A v \in Workers : pc'[v] = pc[v] /\ th'[v] = th[v]
  BY <1>3, <1>4
<1>6. use \in {"single", "serialized"}
  BY TypeFacts, ThreadAssumption
<1>7. Listed' = Listed
  <2>1. \A a \in Agents :
           /\ pc[a] \in {"begin", "addNext", "addStart", "delFree"}
                <=> pc'[a] \in {"begin", "addNext", "addStart", "delFree"}
           /\ pc[a] \in {"begin", "addNext", "addStart", "delFree"} => th'[a] = th[a]
    BY <1>2, <1>4 DEF FindLocs
  <2> QED
    BY <1>2, <2>1, SameListed
<1>8. ThreadTypeOK'
  <2>1. /\ pc' \in [Agents -> Locations] /\ th' \in [Agents -> {NULL} \cup Nodes]
        /\ arg' \in [Agents -> {0} \cup Ids] /\ target' \in [Agents -> {0} \cup Workers]
        /\ handles' \subseteq Workers
    BY <1>0, <1>1, <1>2 DEF ThreadTypeOK, Locations
  <2> QED
    BY <1>2, <2>1 DEF ThreadTypeOK
<1>9. PlaceInv'
  BY <1>3, <1>4 DEF PlaceInv, CallerLocs
<1>10. HeapInv'
  BY <1>2 DEF HeapInv
<1>11. WorkerInv'
  <2> SUFFICES ASSUME NEW v \in Workers
               PROVE  WorkerOK(v)'
    BY DEF WorkerInv
  <2>1. WorkerOK(v) /\ (v \in handles' => v \in handles)
    BY <1>2 DEF WorkerInv
  <2> QED
    BY <1>2, <1>5, <2>1 DEF WorkerOK
<1>12. DelInv'
  <2> SUFFICES ASSUME NEW b \in Agents
               PROVE  DelOK(b)'
    BY DEF DelInv
  <2>1. DelOK(b) /\ (b # c => pc'[b] = pc[b] /\ th'[b] = th[b])
    BY <1>4 DEF DelInv
  <2>2. CASE b # c
    BY <1>2, <1>7, <2>1, <2>2 DEF DelOK
  <2>3. CASE b = c
    BY <1>4, <2>3 DEF DelOK, FindLocs, DelLocs
  <2> QED
    BY <2>2, <2>3
<1>13. ListInv'
  BY <1>2, <1>7 DEF ListInv
<1>14. \A v \in Workers : Loose(v)' <=> Loose(v)
  BY <1>2 DEF Loose
<1>15. IdInv'
  BY <1>2, <1>5, <1>7 DEF IdInv
<1>16. HandleInv'
  <2> SUFFICES ASSUME NEW v \in handles'
               PROVE  (Untouched(v) /\ pc[v] # "none" /\ v \in Listed)'
    BY DEF HandleInv
  <2>1. v \in Workers /\ Untouched(v) /\ pc[v] # "none" /\ v \in Listed
    BY <1>0, <1>2 DEF ThreadTypeOK, HandleInv
  <2> QED
    BY <1>2, <1>5, <1>7, <2>1 DEF Untouched
<1>17. start \in Listed /\ \A n \in Listed : n <= start
  BY DEF ListInv, Descends
<1>18. ASSUME t \in handles
       PROVE  CallerInv' /\ OwnerInv' /\ AloneInv'
  <2>1. /\ heap[t] = "live" /\ Untouched(t) /\ t \in Listed /\ ~Loose(t) /\ target'[c] = t /\ t # 0
        /\ use = "single" => t = 2
    BY <1>4, <1>18, Handled DEF HeapInv
  <2>2. \A d \in Callers : pc[d] = "idle"
    <3>1. CASE use = "serialized"
      BY <1>2, <3>1 DEF MayCall, Serialized
    <3>2. CASE use = "single"
      <4> SUFFICES ASSUME NEW d \in Callers, pc[d] # "idle"
                   PROVE  FALSE
        OBVIOUS
      <4>1. Holds(d, 2) /\ 2 \in handles
        BY <1>18, <2>1, <3>2 DEF AloneInv
      <4>2. CallerOK(d)
        BY DEF CallerInv
      <4> QED
        BY <4>1, <4>2 DEF Holds, CallerOK, Creating, Looking, Meant
    <3> QED
      BY <1>6, <3>1, <3>2
  <2>3. \A v \in Workers : ~Loose(v)
    BY <1>6, <2>1 DEF Loose, WorkerInv, WorkerOK, HeapInv
  <2>4. \A v \in Workers : heap[v] = "live" => v \in handles
    BY <2>2, <2>3 DEF OwnerInv, Holds, CreateLocs, FindLocs, JoinLocs, DetachLocs, DelLocs
  <2>5. \A d \in Callers : d # c => pc'[d] = "idle"
    BY <1>3, <1>4, <2>2
  <2>6. Holds(c, t)'
    BY <1>4, <2>1 DEF Holds
  <2>7. CallerInv'
    <3> SUFFICES ASSUME NEW d \in Callers
                 PROVE  CallerOK(d)'
      BY DEF CallerInv
    <3>1. CASE d # c
      BY <2>5, <3>1 DEF CallerOK, CreateLocs, FindLocs, JoinLocs, DetachLocs, DelLocs
    <3>2. CASE d = c
      <4>1. Looking(c)'
        BY <1>2, <1>4, <1>7, <1>17, <2>1 DEF Looking, Untouched
      <4> QED
        BY <1>1, <1>2, <1>4, <3>2, <4>1
        DEF CallerOK, CreateLocs, FindLocs, JoinLocs, DetachLocs, DelLocs
    <3> QED
      BY <3>1, <3>2
  <2>8. OwnerInv'
    BY <1>2, <1>14, <2>3, <2>4, <2>6 DEF OwnerInv
  <2>9. AloneInv'
    BY <1>14, <2>1, <2>3, <2>5, <2>6 DEF AloneInv
  <2> QED
    BY <2>7, <2>8, <2>9
<1>19. ASSUME t \notin handles
       PROVE  CallerInv' /\ OwnerInv' /\ AloneInv'
  <2>1. /\ UsedUp(t) /\ target'[c] = 0 /\ handles' = handles /\ heap[t] = "freed"
        /\ use = "single" => heap[2] = "freed"
    BY <1>2, <1>4, <1>19 DEF HeapInv, UsedUp
  <2>2. use = "serialized" => \A d \in Callers : pc[d] = "idle"
    BY <1>2 DEF MayCall, Serialized
  <2>3. \A v \in Workers : ~Loose(v)
    BY <1>6, <2>1 DEF Loose, WorkerInv, WorkerOK, HeapInv
  <2>4. \A v \in Workers, d \in Callers : Holds(d, v) => Holds(d, v)'
    BY <1>2, <1>3, <1>4 DEF Holds, CreateLocs, FindLocs, JoinLocs, DetachLocs, DelLocs
  <2>5. CallerInv'
    <3> SUFFICES ASSUME NEW d \in Callers
                 PROVE  CallerOK(d)'
      BY DEF CallerInv
    <3>1. CASE d = c
      <4>1. Looking(c)'
        BY <1>2, <1>4, <1>7, <1>17, <2>1 DEF Looking, UsedUp
      <4> QED
        BY <1>1, <1>2, <1>4, <3>1, <4>1
        DEF CallerOK, CreateLocs, FindLocs, JoinLocs, DetachLocs, DelLocs
    <3>2. CASE d # c
      <4>1. /\ pc'[d] = pc[d] /\ th'[d] = th[d] /\ value'[d] = value[d] /\ target'[d] = target[d] /\ arg'[d] = arg[d]
            /\ CallerOK(d)
        BY <1>2, <1>3, <1>4, <3>2 DEF CallerInv
      <4>2. Untouched(th[d])' = Untouched(th[d]) /\ Untouched(target[d])' = Untouched(target[d])
        BY <1>2, <4>1 DEF Untouched
      <4>3. pc[d] \in CreateLocs => Creating(d)'
        BY <1>2, <1>5, <1>7, <2>1, <4>1, <4>2 DEF CallerOK, Creating
      <4>4. pc[d] \in FindLocs => Looking(d)'
        BY <1>2, <1>7, <2>1, <4>1, <4>2 DEF CallerOK, Looking
      <4>5. pc[d] \in JoinLocs \cup DetachLocs \cup DelLocs => Meant(d)'
        BY <1>2, <1>5, <1>7, <2>1, <4>1 DEF CallerOK, Meant
      <4> QED
        BY <1>2, <4>1, <4>2, <4>3, <4>4, <4>5 DEF CallerOK
    <3> QED
      BY <3>1, <3>2
  <2>6. OwnerInv'
    BY <1>2, <1>14, <2>1, <2>3, <2>4 DEF OwnerInv
  <2>7. AloneInv'
    <3>1. use = "serialized" => \A d \in Callers : d # c => pc'[d] = "idle"
      BY <1>3, <1>4, <2>2
    <3> QED
      BY <1>2, <1>6, <1>14, <2>1, <2>3, <3>1 DEF AloneInv
  <2> QED
    BY <2>5, <2>6, <2>7
<1> QED
  BY <1>8, <1>9, <1>10, <1>11, <1>12, <1>13, <1>15, <1>16, <1>18, <1>19

-----------------------------------------------------------------------------
(* The thread layer begins with the invariant.                             *)
LEMMA InitEstablishes ==
  ASSUME ThreadInit
  PROVE  ThreadInv
<1> USE SetFacts DEF ThreadInit
<1>1. /\ \A c \in Callers : c \in Agents /\ pc[c] = "idle"
      /\ \A w \in Workers : /\ w \in Agents /\ w \in Nodes /\ w \notin Callers /\ w # main_thread
                            /\ pc[w] = "none" /\ heap[w] = "unused"
                            /\ id[w] = 0 /\ quit[w] = 0 /\ done[w] = 0 /\ detached[w] = 0
  OBVIOUS
<1>2. /\ heap[main_thread] = "live" /\ tid[main_thread] = main_thread /\ next[main_thread] = NULL
      /\ \A n \in Nodes : n # main_thread => heap[n] = "unused"
  OBVIOUS
<1>3. Listed = {main_thread}
  BY <1>1, <1>2 DEF Listed, Unlisted
<1>4. ThreadTypeOK
  <2>1. pc \in [Agents -> Locations]
    BY DEF Locations, EntryLocs
  <2> QED
    BY <2>1 DEF ThreadTypeOK
<1>5. PlaceInv
  BY <1>1 DEF PlaceInv, CallerLocs, EntryLocs
<1>6. HeapInv
  <2>1. \A m, n \in Nodes : m < n /\ heap[m] = "unused" => heap[n] = "unused"
    <3> SUFFICES ASSUME NEW m \in Nodes, NEW n \in Nodes, m < n
                 PROVE  heap[n] = "unused"
      OBVIOUS
    <3>1. m \in Nat /\ n \in Nat /\ main_thread <= m
      OBVIOUS
    <3>2. n # main_thread
      BY <3>1 DEF main_thread
    <3> QED
      BY <1>2, <3>2
  <2> QED
    BY <1>1, <1>2, <2>1 DEF HeapInv
<1>7. WorkerInv
  BY <1>1 DEF WorkerInv, WorkerOK, DelLocs
<1>8. CallerInv
  BY <1>1 DEF CallerInv, CallerOK, CreateLocs, FindLocs, JoinLocs, DetachLocs, DelLocs
<1>9. DelInv
  BY <1>1 DEF DelInv, DelOK, DelLocs
<1>10. ListInv
  BY <1>2, <1>3 DEF ListInv, Descends, main_thread
<1>11. OwnerInv /\ AloneInv
  BY <1>1 DEF OwnerInv, AloneInv, Loose
<1>12. HandleInv
  BY DEF HandleInv
<1>13. IdInv
  BY <1>1, <1>3 DEF IdInv
<1> QED
  BY <1>4, <1>5, <1>6, <1>7, <1>8, <1>9, <1>10, <1>11, <1>12, <1>13 DEF ThreadInv

\* Every step of a caller or a thread keeps the invariant.
LEMMA NextKeeps ==
  ASSUME ThreadInv, "overlapping" \notin Uses, ThreadNext
  PROVE  ThreadInv'
<1>1. UNCHANGED use /\ use # "overlapping"
  BY TypeFacts DEF ThreadInv, ThreadNext
<1>2. ASSUME NEW c \in Callers, NEW n \in Workers, Create(c, n) \/ Join(c, n) \/ Detach(c, n)
      PROVE  ThreadInv'
  BY <1>1, <1>2, CreateKeeps, UseKeeps
<1>3. ASSUME NEW a \in Agents, DelStep(a)
      PROVE  ThreadInv'
  <2>1. CASE DelTest(a) \/ DelWalk(a)
    BY <1>1, <2>1, CallerDelWalkKeeps, WorkerDelWalkKeeps DEF Agents
  <2>2. CASE DelHead(a) \/ DelUnlink(a)
    BY <1>1, <2>2, UnlinkKeeps
  <2>3. CASE DelFree(a)
    BY <1>1, <2>3, FreeKeeps
  <2> QED
    BY <1>3, <2>1, <2>2, <2>3 DEF DelStep
<1>4. ASSUME NEW c \in Callers, CallerStep(c)
      PROVE  ThreadInv'
  <2>1. CASE CreateStep(c)
    BY <1>1, <2>1, BeginThreadKeeps, BeginFailsKeeps, AddNextKeeps, AddStartKeeps, StoreTidKeeps DEF CreateStep
  <2>2. CASE JoinStep(c)
    BY <1>1, <2>2, FindKeeps, JoinCheckKeeps, PostQuitKeeps, WaitDoneKeeps, ReadResultKeeps, ReturnKeeps
    DEF JoinStep
  <2>3. CASE DetachStep(c)
    BY <1>1, <2>3, FindKeeps, SetDetachedKeeps, DetachPostKeeps DEF DetachStep
  <2>4. CASE DelStep(c)
    BY <1>3, <2>4 DEF Agents
  <2> QED
    BY <1>4, <2>1, <2>2, <2>3, <2>4 DEF CallerStep
<1>5. ASSUME NEW w \in Workers, WorkerStep(w)
      PROVE  ThreadInv'
  <2>1. CASE EntryStep(w)
    BY <1>1, <2>1, RunFuncKeeps, WaitQuitKeeps, ReadDetachedKeeps, PostDoneKeeps, LeaveKeeps DEF EntryStep
  <2>2. CASE DelStep(w)
    BY <1>3, <2>2 DEF Agents
  <2> QED
    BY <1>5, <2>1, <2>2 DEF WorkerStep
<1> QED
  BY <1>2, <1>4, <1>5 DEF ThreadNext

(* A step that changes nothing keeps the invariant.                        *)
LEMMA StutterKeeps ==
  ASSUME ThreadInv, UNCHANGED threadVars
  PROVE  ThreadInv'
<1>1. UNCHANGED <<use, start, tid, next, heap, detached, quit, done, result, id, handles, pc, arg, th,
                  prev, local, value, target>>
  BY DEF threadVars, list, node, locals
<1>2. Listed' = Listed
  BY <1>1 DEF Listed, Unlisted
<1> QED
  BY <1>1, <1>2
  DEF ThreadInv, ThreadTypeOK, PlaceInv, HeapInv, WorkerInv, WorkerOK, CallerInv, CallerOK, Creating,
      Looking, Meant, Untouched, DelInv, DelOK, ListInv, Descends, OwnerInv, Holds, Loose, AloneInv,
      HandleInv, IdInv

-----------------------------------------------------------------------------
(* In every reachable state of clients that do not overlap their calls,    *)
(* or that have a single thread, the list, the nodes, the threads and the  *)
(* callers fit together.                                                   *)
THEOREM ThreadsFitTogether ==
  ASSUME "overlapping" \notin Uses
  PROVE  ThreadSpec => []ThreadInv
<1>1. ThreadInit => ThreadInv
  BY InitEstablishes
<1>2. ThreadInv /\ [ThreadNext]_threadVars => ThreadInv'
  BY NextKeeps, StutterKeeps
<1> QED
  BY <1>1, <1>2, PTL DEF ThreadSpec

\* Every variable keeps its type.
THEOREM ThreadTypes ==
  ASSUME "overlapping" \notin Uses
  PROVE  ThreadSpec => []ThreadTypeOK
<1>1. ThreadInv => ThreadTypeOK
  BY DEF ThreadInv
<1> QED
  BY <1>1, ThreadsFitTogether, PTL

(* create, join, detach and thread_entry never follow a pointer to a freed *)
(* node, and never free a node twice.                                      *)
THEOREM NoFreedNodeIsUsed ==
  ASSUME "overlapping" \notin Uses
  PROVE  ThreadSpec => []NoDangling
<1>1. ThreadInv => NoDangling
  <2> SUFFICES ASSUME ThreadInv, NEW a \in Agents
               PROVE  /\ pc[a] \in UsesNode => heap[th[a]] = "live"
                      /\ pc[a] \in FindLocs /\ th[a] # NULL => heap[th[a]] = "live"
                      /\ pc[a] \in {"delWalk", "delUnlink"} => prev[a] # NULL /\ heap[prev[a]] = "live"
    BY DEF NoDangling
  <2> USE SetFacts DEF ThreadInv
  <2>1. Listed \subseteq Nodes /\ \A n \in Listed : heap[n] = "live"
    BY ListedFacts
  <2>2. pc[a] \in {"delWalk", "delUnlink"} => prev[a] # NULL /\ heap[prev[a]] = "live"
    BY <2>1 DEF DelInv, DelOK
  <2>3. pc[a] \in DelLocs => heap[th[a]] = "live"
    BY Deleter
  <2>4. CASE a \in Callers
    <3>1. CallerOK(a) /\ pc[a] \in CallerLocs
      BY <2>4 DEF CallerInv, PlaceInv
    <3>2. pc[a] \in CreateLocs => heap[th[a]] = "live"
      BY <3>1 DEF CallerOK, Creating, Untouched
    <3>3. pc[a] \in JoinLocs \cup DetachLocs => heap[th[a]] = "live"
      BY <3>1 DEF CallerOK, Meant
    <3>4. pc[a] \in FindLocs /\ th[a] # NULL => heap[th[a]] = "live"
      BY <2>1, <3>1 DEF CallerOK, Looking
    <3>5. pc[a] \in UsesNode => pc[a] \in CreateLocs \cup JoinLocs \cup DetachLocs \cup DelLocs
      BY <3>1 DEF UsesNode, CallerLocs, CreateLocs, FindLocs, JoinLocs, DetachLocs, DelLocs
    <3> QED
      BY <2>2, <2>3, <3>2, <3>3, <3>4, <3>5
  <2>5. CASE a \in Workers
    <3>1. WorkerOK(a) /\ pc[a] \in EntryLocs \cup DelLocs
      BY <2>5 DEF WorkerInv, PlaceInv
    <3>2. pc[a] \in {"func", "waitQuit", "readDetached", "postDone"} => heap[th[a]] = "live"
      BY <2>5, <3>1, TypeFacts DEF WorkerOK
    <3>3. pc[a] \in UsesNode => pc[a] \in {"func", "waitQuit", "readDetached", "postDone"} \cup DelLocs
      BY <3>1 DEF UsesNode, EntryLocs, JoinLocs, DetachLocs, DelLocs
    <3>4. pc[a] \notin FindLocs
      BY <3>1 DEF EntryLocs, FindLocs, DelLocs
    <3> QED
      BY <2>2, <2>3, <3>2, <3>3, <3>4
  <2> QED
    BY <2>4, <2>5 DEF Agents
<1> QED
  BY <1>1, ThreadsFitTogether, PTL

\* join and detach find every thread whose id was not used up before.
THEOREM RefusalsAreStale ==
  ASSUME "overlapping" \notin Uses
  PROVE  ThreadSpec => []RefusedOnlyStale
<1>1. ThreadInv => RefusedOnlyStale
  BY DEF ThreadInv, CallerInv, CallerOK, RefusedOnlyStale
<1> QED
  BY <1>1, ThreadsFitTogether, PTL

(* A join that returns 0 has the value of the thread that was meant,       *)
(* although the kernel uses ids again.                                     *)
THEOREM JoinGivesTheResult ==
  ASSUME "overlapping" \notin Uses
  PROVE  ThreadSpec => []JoinHasResult
<1>1. ThreadInv => JoinHasResult
  BY DEF ThreadInv, CallerInv, CallerOK, JoinHasResult
<1> QED
  BY <1>1, ThreadsFitTogether, PTL

(* When every call has returned and every thread has ended, every node but *)
(* the main thread's has been freed.                                       *)
THEOREM NodesAreFreed ==
  ASSUME "overlapping" \notin Uses
  PROVE  ThreadSpec => []NoLeak
<1>1. ThreadInv => NoLeak
  <2> SUFFICES ASSUME ThreadInv, \A c \in Callers : pc[c] = "idle",
                      \A w \in Workers : pc[w] \in {"none", "ended"}
               PROVE  start = main_thread /\ \A w \in Workers : heap[w] # "live"
    BY DEF NoLeak
  <2> USE SetFacts DEF ThreadInv
  <2>1. ASSUME NEW w \in Workers, heap[w] = "live"
        PROVE  FALSE
    <3>1. w \notin handles
      BY Handled DEF Running
    <3>2. ~Loose(w)
      BY <2>1 DEF Loose, WorkerInv, WorkerOK
    <3>3. \A c \in Callers : ~Holds(c, w)
      BY DEF Holds, CreateLocs, FindLocs, JoinLocs, DetachLocs, DelLocs
    <3> QED
      BY <2>1, <3>1, <3>2, <3>3 DEF OwnerInv
  <2>2. start \in Listed
    BY DEF ListInv, Descends
  <2> QED
    BY <2>1, <2>2, ListedFacts
<1> QED
  BY <1>1, ThreadsFitTogether, PTL

====
