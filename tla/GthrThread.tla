------------------------------ MODULE GthrThread ------------------------------
(***************************************************************************)
(* Threads of the OS/2 thread layer (libgcc/gthr-os2.c): create, join,     *)
(* detach and the thread_entry every thread starts in.                     *)
(*                                                                         *)
(* A thread has a heap node with two event semaphores.  The nodes form a   *)
(* singly linked list that starts at __gthread_os2_thread_start and ends   *)
(* with the static node of the main thread; join and detach find a node    *)
(* by its thread id.  A thread that has finished its function waits for    *)
(* hevQuit, which join and detach post, notes whether it is detached and   *)
(* posts hevDone.  The joiner frees the node of a joined thread, a         *)
(* detached thread frees its own.  No lock protects the list.              *)
(*                                                                         *)
(* _beginthread, the event semaphores, calloc and free are external.       *)
(* Freed memory is not handed out again, so that a stale pointer can be    *)
(* told from a good one.  The kernel gives a new thread any id that no     *)
(* running thread has, the id of one that has ended included.              *)
(***************************************************************************)
EXTENDS Naturals, FiniteSets

CONSTANTS
  Callers,      \* the threads that create, join and detach
  MaxThreads,   \* bound: how many threads are created
  MaxIds,       \* bound: how many threads the kernel runs at once, the main thread apart
  Uses          \* the ways the functions are used that are looked at

ASSUME ThreadAssumption ==
  /\ MaxThreads \in Nat \ {0} /\ MaxIds \in Nat \ {0}
  /\ Uses \subseteq {"serialized", "single", "overlapping"}

NULL == 0
main_thread == 1
Workers == 2..(MaxThreads + 1)
Ids == 2..(MaxIds + 1)
Nodes == {main_thread} \cup Workers
Agents == Callers \cup Workers

\* A created thread does not create threads itself.
ASSUME CallersAssumption == Callers \cap Nodes = {}

VARIABLES
  use,        \* how the callers use the functions
  start,      \* __gthread_os2_thread_start
  heap,       \* whether each node is not yet allocated, live or freed
  tid,        \* node->tid
  next,       \* node->next
  detached,   \* node->detached
  quit,       \* kernel: the state of node->hevQuit
  done,       \* kernel: the state of node->hevDone
  result,     \* node->result: a thread's function returns the number of its node
  id,         \* kernel: the id of each created thread
  handles,    \* client: the threads whose ids create has returned, not joined or detached yet
  pc,         \* where each caller, and each created thread, is
  arg,        \* the thread id given to join or detach
  th,         \* the local pointer to a node
  prev,       \* the local pointer prev of __gthread_os2_thread_del
  local,      \* the local copy of detached in thread_entry
  value,      \* what join stored through value_ptr
  target      \* history: the thread meant by join or detach, 0 if its id was used up before

list == <<start, tid, next>>
node == <<heap, detached, quit, done, result>>
locals == <<arg, th, prev, local, value, target>>
threadVars == <<use, list, node, id, handles, pc, locals>>

(* Three kinds of callers.  "serialized" never overlaps calls and joins    *)
(* every thread; "single" creates one thread and joins or detaches it, in  *)
(* calls that may overlap; "overlapping" overlaps its calls and joins.     *)
Serialized == use = "serialized"
MayDetach == use = "single"

CreateLocs == {"begin", "addNext", "addStart", "store"}
FindLocs == {"find", "walk"}
JoinLocs == {"joinCheck", "postQuit", "waitDone", "readResult"}
DetachLocs == {"setDetached", "detachPost"}
DelLocs == {"delTest", "delHead", "delWalk", "delUnlink", "delFree"}
EntryLocs == {"none", "func", "waitQuit", "readDetached", "postDone", "leave", "ended"}
Locations == {"idle", "joined", "refused"} \cup CreateLocs \cup FindLocs \cup JoinLocs
             \cup DetachLocs \cup DelLocs \cup EntryLocs

ThreadInit ==
  /\ use \in Uses
  /\ start = main_thread
  /\ heap = [n \in Nodes |-> IF n = main_thread THEN "live" ELSE "unused"]
  /\ tid = [n \in Nodes |-> IF n = main_thread THEN main_thread ELSE 0]
  /\ next = [n \in Nodes |-> NULL]
  /\ detached = [n \in Nodes |-> 0]
  /\ quit = [n \in Nodes |-> 0]
  /\ done = [n \in Nodes |-> 0]
  /\ result = [n \in Nodes |-> 0]
  /\ id = [w \in Workers |-> 0]
  /\ handles = {}
  /\ pc = [a \in Agents |-> IF a \in Callers THEN "idle" ELSE "none"]
  /\ arg = [a \in Agents |-> 0]
  /\ th = [a \in Agents |-> NULL]
  /\ prev = [a \in Agents |-> NULL]
  /\ local = [a \in Agents |-> 0]
  /\ value = [a \in Agents |-> 0]
  /\ target = [a \in Agents |-> 0]

Goto(a, from, to) == pc[a] = from /\ pc' = [pc EXCEPT ![a] = to]

\* What a caller may rely on when the clients do not overlap their calls.
MayCall(c) == Serialized => \A d \in Callers : pc[d] = "idle"

\* calloc: fresh nodes are interchangeable and are handed out in order.
Fresh(n) == /\ heap[n] = "unused" /\ \A m \in Workers : m < n => heap[m] # "unused"
            /\ use = "single" => n = 2

Running == {w \in Workers : pc[w] \notin {"none", "ended"}}
FreeIds == Ids \ {id[w] : w \in Running}

-----------------------------------------------------------------------------
(* __gthread_os2_create.  Without memory it returns ENOMEM and nothing has *)
(* happened.                                                               *)
Create(c, n) ==
  /\ MayCall(c)
  /\ Fresh(n)
  /\ Goto(c, "idle", "begin")
  /\ heap' = [heap EXCEPT ![n] = "live"]
  /\ th' = [th EXCEPT ![c] = n]
  /\ UNCHANGED <<list, detached, quit, done, result, id, handles, arg, prev, local, value, target>>

\* _beginthread: the thread runs from now on, before it is in the list.
BeginThread(c) ==
  /\ pc[c] = "begin"
  /\ \E i \in FreeIds : id' = [id EXCEPT ![th[c]] = i]
  /\ pc' = [pc EXCEPT ![c] = "addNext", ![th[c]] = "func"]
  /\ th' = [th EXCEPT ![th[c]] = th[c]]
  /\ UNCHANGED <<list, node, handles, arg, prev, local, value, target>>

\* _beginthread fails: the node is freed and create returns 1.
BeginFails(c) ==
  /\ Goto(c, "begin", "idle")
  /\ heap' = [heap EXCEPT ![th[c]] = "freed"]
  /\ UNCHANGED <<list, detached, quit, done, result, id, handles, locals>>

\* Mutant: the new node forgets the old list.
OldStartMutant == NULL

\* The start of the list, as __gthread_os2_thread_add reads it.
OldStart == start

AddNext(c) ==
  /\ Goto(c, "addNext", "addStart")
  /\ tid' = [tid EXCEPT ![th[c]] = id[th[c]]]
  /\ next' = [next EXCEPT ![th[c]] = OldStart]
  /\ UNCHANGED <<start, node, id, handles, locals>>

AddStart(c) ==
  /\ Goto(c, "addStart", "store")
  /\ start' = th[c]
  /\ UNCHANGED <<tid, next, node, id, handles, locals>>

\* *thread = tid, and create returns 0.
StoreTid(c) ==
  /\ Goto(c, "store", "idle")
  /\ handles' = handles \cup {th[c]}
  /\ UNCHANGED <<list, node, id, locals>>

CreateStep(c) == BeginThread(c) \/ BeginFails(c) \/ AddNext(c) \/ AddStart(c) \/ StoreTid(c)

-----------------------------------------------------------------------------
(* join and detach consume the handle and look the node up.  An id whose   *)
(* thread was joined or detached long ago, and which no other thread has   *)
(* got since, may be given again by mistake.                               *)
UsedUp(t) ==
  /\ heap[t] = "freed"
  /\ id[t] \in FreeIds
  /\ \A n \in Nodes : heap[n] = "live" => tid[n] # id[t]

Use(c, t, loop) ==
  /\ MayCall(c)
  /\ t \in handles \/ UsedUp(t)
  /\ handles' = handles \ {t}
  /\ Goto(c, "idle", loop)
  /\ arg' = [arg EXCEPT ![c] = id[t]]
  /\ th' = [th EXCEPT ![c] = start]
  /\ target' = [target EXCEPT ![c] = IF t \in handles THEN t ELSE 0]
  /\ UNCHANGED <<list, node, id, prev, local, value>>

Join(c, t) == Use(c, t, "find")
Detach(c, t) == MayDetach /\ Use(c, t, "walk")

\* Mutant: the search stops one node short of the end of the list.
FoundMutant(c) == tid[th[c]] = arg[c] /\ next[th[c]] # main_thread

\* The loop's comparison of thread->tid with the id.
Found(c) == tid[th[c]] = arg[c]

(* The loop of __gthread_os2_thread_find, for join ("find") and for detach *)
(* ("walk").                                                               *)
FindLoop(c, here, found) ==
  /\ pc[c] = here
  /\ \/ th[c] = NULL /\ Goto(c, here, "refused") /\ UNCHANGED th
     \/ th[c] # NULL /\ Found(c) /\ Goto(c, here, found) /\ UNCHANGED th
     \/ th[c] # NULL /\ ~Found(c) /\ th' = [th EXCEPT ![c] = next[th[c]]] /\ UNCHANGED pc
  /\ UNCHANGED <<list, node, id, handles, arg, prev, local, value, target>>

\* join or detach returns 1.
Refused(c) == Goto(c, "refused", "idle") /\ UNCHANGED <<list, node, id, handles, locals>>

-----------------------------------------------------------------------------
(* __gthread_os2_join.                                                     *)
JoinFind(c) == FindLoop(c, "find", "joinCheck")

JoinCheck(c) ==
  /\ pc[c] = "joinCheck"
  /\ Goto(c, "joinCheck", IF detached[th[c]] = 1 THEN "refused" ELSE "postQuit")
  /\ UNCHANGED <<list, node, id, handles, locals>>

\* Mutant: join waits for hevDone without letting the thread go.
PostQuitMutant(c) == Goto(c, "postQuit", "waitDone") /\ UNCHANGED <<list, node, id, handles, locals>>

PostQuit(c) ==
  /\ Goto(c, "postQuit", "waitDone")
  /\ quit' = [quit EXCEPT ![th[c]] = 1]
  /\ UNCHANGED <<list, heap, detached, done, result, id, handles, locals>>

\* Mutant: join does not wait for the thread.
DoneSeenMutant(c) == TRUE

DoneSeen(c) == done[th[c]] = 1

WaitDone(c) ==
  /\ pc[c] = "waitDone"
  /\ DoneSeen(c)
  /\ Goto(c, "waitDone", "readResult")
  /\ UNCHANGED <<list, node, id, handles, locals>>

ReadResult(c) ==
  /\ Goto(c, "readResult", "delTest")
  /\ value' = [value EXCEPT ![c] = result[th[c]]]
  /\ UNCHANGED <<list, node, id, handles, arg, th, prev, local, target>>

JoinReturns(c) == Goto(c, "joined", "idle") /\ UNCHANGED <<list, node, id, handles, locals>>

JoinStep(c) ==
  \/ JoinFind(c) \/ JoinCheck(c) \/ PostQuit(c) \/ WaitDone(c) \/ ReadResult(c) \/ JoinReturns(c)
  \/ Refused(c)

-----------------------------------------------------------------------------
(* __gthread_os2_detach.                                                   *)
DetachFind(c) == FindLoop(c, "walk", "setDetached")

SetDetached(c) ==
  /\ Goto(c, "setDetached", "detachPost")
  /\ detached' = [detached EXCEPT ![th[c]] = 1]
  /\ UNCHANGED <<list, heap, quit, done, result, id, handles, locals>>

DetachPost(c) ==
  /\ Goto(c, "detachPost", "idle")
  /\ quit' = [quit EXCEPT ![th[c]] = 1]
  /\ UNCHANGED <<list, heap, detached, done, result, id, handles, locals>>

DetachStep(c) == DetachFind(c) \/ SetDetached(c) \/ DetachPost(c)

-----------------------------------------------------------------------------
(* thread_entry.                                                           *)
RunFunc(w) ==
  /\ Goto(w, "func", "waitQuit")
  /\ result' = [result EXCEPT ![w] = w]
  /\ UNCHANGED <<list, heap, detached, quit, done, id, handles, locals>>

\* Mutant: a thread that has finished does not wait to be joined or detached.
QuitSeenMutant(w) == TRUE

QuitSeen(w) == quit[w] = 1

WaitQuit(w) ==
  /\ QuitSeen(w)
  /\ Goto(w, "waitQuit", "readDetached")
  /\ UNCHANGED <<list, node, id, handles, locals>>

ReadDetached(w) ==
  /\ Goto(w, "readDetached", "postDone")
  /\ local' = [local EXCEPT ![w] = detached[w]]
  /\ UNCHANGED <<list, node, id, handles, arg, th, prev, value, target>>

PostDone(w) ==
  /\ Goto(w, "postDone", "leave")
  /\ done' = [done EXCEPT ![w] = 1]
  /\ UNCHANGED <<list, heap, detached, quit, result, id, handles, locals>>

\* Mutant: a detached thread leaves its node to a joiner that never comes.
OwnsNodeMutant(w) == FALSE

\* The thread frees its node when it was detached before hevDone was posted.
OwnsNode(w) == local[w] = 1

Leave(w) ==
  /\ IF OwnsNode(w) THEN Goto(w, "leave", "delTest") ELSE Goto(w, "leave", "ended")
  /\ UNCHANGED <<list, node, id, handles, locals>>

EntryStep(w) == RunFunc(w) \/ WaitQuit(w) \/ ReadDetached(w) \/ PostDone(w) \/ Leave(w)

-----------------------------------------------------------------------------
(* __gthread_os2_thread_del, by a joiner or by a detached thread.          *)
DelTest(a) ==
  /\ IF th[a] = start
     THEN Goto(a, "delTest", "delHead") /\ UNCHANGED prev
     ELSE Goto(a, "delTest", "delWalk") /\ prev' = [prev EXCEPT ![a] = start]
  /\ UNCHANGED <<list, node, id, handles, arg, th, local, value, target>>

DelHead(a) ==
  /\ Goto(a, "delHead", "delFree")
  /\ start' = next[th[a]]
  /\ UNCHANGED <<tid, next, node, id, handles, locals>>

DelWalk(a) ==
  /\ pc[a] = "delWalk" /\ prev[a] # NULL
  /\ IF next[prev[a]] = th[a]
     THEN Goto(a, "delWalk", "delUnlink") /\ UNCHANGED prev
     ELSE UNCHANGED pc /\ prev' = [prev EXCEPT ![a] = next[prev[a]]]
  /\ UNCHANGED <<list, node, id, handles, arg, th, local, value, target>>

DelUnlink(a) ==
  /\ Goto(a, "delUnlink", "delFree")
  /\ next' = [next EXCEPT ![prev[a]] = next[th[a]]]
  /\ UNCHANGED <<start, tid, node, id, handles, locals>>

\* Mutant: the node stays allocated.
DelFreeMutant(a) ==
  /\ Goto(a, "delFree", IF a \in Callers THEN "joined" ELSE "ended")
  /\ UNCHANGED <<list, node, id, handles, locals>>

DelFree(a) ==
  /\ Goto(a, "delFree", IF a \in Callers THEN "joined" ELSE "ended")
  /\ heap' = [heap EXCEPT ![th[a]] = "freed"]
  /\ UNCHANGED <<list, detached, quit, done, result, id, handles, locals>>

DelStep(a) == DelTest(a) \/ DelHead(a) \/ DelWalk(a) \/ DelUnlink(a) \/ DelFree(a)

-----------------------------------------------------------------------------
CallerStep(c) == CreateStep(c) \/ JoinStep(c) \/ DetachStep(c) \/ DelStep(c)
WorkerStep(w) == EntryStep(w) \/ DelStep(w)

ThreadNext ==
  /\ UNCHANGED use
  /\ \/ \E c \in Callers :
          \/ \E n \in Workers : Create(c, n) \/ Join(c, n) \/ Detach(c, n)
          \/ CallerStep(c)
     \/ \E w \in Workers : WorkerStep(w)

\* Threads inside these functions run on, and every thread's function returns.
ThreadSpec ==
  /\ ThreadInit
  /\ [][ThreadNext]_threadVars
  /\ \A c \in Callers : WF_threadVars(UNCHANGED use /\ CallerStep(c))
  /\ \A w \in Workers : WF_threadVars(UNCHANGED use /\ WorkerStep(w))

-----------------------------------------------------------------------------
ThreadTypeOK ==
  /\ use \in Uses
  /\ start \in Nodes
  /\ heap \in [Nodes -> {"unused", "live", "freed"}]
  /\ tid \in [Nodes -> {0, main_thread} \cup Ids]
  /\ next \in [Nodes -> {NULL} \cup Nodes]
  /\ detached \in [Nodes -> {0, 1}] /\ quit \in [Nodes -> {0, 1}] /\ done \in [Nodes -> {0, 1}]
  /\ result \in [Nodes -> {0} \cup Workers]
  /\ id \in [Workers -> {0} \cup Ids]
  /\ handles \subseteq Workers
  /\ pc \in [Agents -> Locations]
  /\ arg \in [Agents -> {0} \cup Ids]
  /\ th \in [Agents -> {NULL} \cup Nodes]
  /\ prev \in [Agents -> {NULL} \cup Nodes]
  /\ local \in [Agents -> {0, 1}]
  /\ value \in [Agents -> {0} \cup Workers]
  /\ target \in [Agents -> {0} \cup Workers]

\* The locations whose next step follows the pointer th.
UsesNode ==
  {"begin", "addNext"} \cup JoinLocs \cup DetachLocs
  \cup {"func", "waitQuit", "readDetached", "postDone", "delHead", "delUnlink", "delFree"}

(* Nobody follows a pointer to a node that was freed, or a null pointer,   *)
(* and no node is freed twice: the thread and its joiner agree on who      *)
(* frees the node, and the list never leads to freed memory.               *)
NoDangling ==
  \A a \in Agents :
    /\ pc[a] \in UsesNode => heap[th[a]] = "live"
    /\ pc[a] \in FindLocs /\ th[a] # NULL => heap[th[a]] = "live"
    /\ pc[a] \in {"delWalk", "delUnlink"} => prev[a] # NULL /\ heap[prev[a]] = "live"

(* A join or detach is refused for no other reason than that the id was    *)
(* joined or detached before: the node of every other thread is found.     *)
RefusedOnlyStale == \A c \in Callers : pc[c] = "refused" => target[c] = 0

(* A join that returns 0 has waited for the thread its caller meant and    *)
(* has the value of that thread's function, although the kernel gives the  *)
(* ids of threads that have ended to new ones.  A join of a used-up id     *)
(* does not succeed.                                                       *)
JoinHasResult == \A c \in Callers : pc[c] = "joined" => value[c] = target[c]

(* Nothing leaks: when nobody is inside a call and every handle has been   *)
(* joined or detached, and every thread has ended, the main thread's node  *)
(* is alone in the list and in memory.                                     *)
NoLeak ==
  /\ \A c \in Callers : pc[c] = "idle"
  /\ \A w \in Workers : pc[w] \in {"none", "ended"}
  => start = main_thread /\ \A w \in Workers : heap[w] # "live"

\* Every join returns.
JoinReturnsInTime ==
  \A c \in Callers : (pc[c] \in FindLocs \cup JoinLocs) ~> (pc[c] = "idle")

(* The node of a detached thread is freed in the end.                      *)
DetachedFreed == \A w \in Workers : (detached[w] = 1) ~> (heap[w] = "freed")

=============================================================================
