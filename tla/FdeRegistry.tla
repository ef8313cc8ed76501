----------------------------- MODULE FdeRegistry -----------------------------
(***************************************************************************)
(* The registry of frame tables (libgcc/unwind-dw2-fde.c) and the start-up *)
(* code of OS/2 modules that uses it (config/i386/emx-eh.c and             *)
(* emx-ctordtor.c).                                                        *)
(*                                                                         *)
(* A module that is loaded registers its table, runs its constructors, and *)
(* when it is unloaded runs its destructors and deregisters.  A thread     *)
(* that unwinds asks for the FDE of a program counter.  New objects are on *)
(* the list unseen; the first search that meets one classifies it, sorts   *)
(* its FDEs if there is memory, and moves it to the list seen, which is    *)
(* kept in descending order of the objects' lowest addresses.  One mutex   *)
(* protects the lists; the object that was found is read after it.  The    *)
(* flag that spares the mutex while nothing is registered                  *)
(* (ATOMIC_FDE_FAST_PATH) is compiled only where another file includes     *)
(* this one under another name for _Unwind_Find_FDE, and not on OS/2.      *)
(*                                                                         *)
(* The lists are sequences; a module has one object at a time and stands   *)
(* for it.  malloc may fail where the code looks at its result.            *)
(***************************************************************************)
EXTENDS FdeSort

CONSTANTS
  Threads,      \* the threads that load and unload modules and unwind
  NoThread,
  Modules,      \* the modules of the program
  NoModule,
  Layouts,      \* the frame tables the modules may have
  Pcs,          \* the program counters that are asked for
  MaxPc,        \* bound: the largest address
  MaxCount      \* the largest value of the bit-field count

ASSUME RegistryAssumption ==
  /\ NoThread \notin Threads
  /\ NoModule \notin Modules
  /\ MaxPc \in Nat /\ MaxCount \in Nat
  /\ Pcs \subseteq 1..MaxPc

\* Where the code of FDEs lies: removed functions (begin is 0) have none.
Present(tab) == {i \in DOMAIN tab : tab[i].begin # 0}

\* Whether p lies between the first and the last FDE of tab.
Spans(tab, p) ==
  \E i, j \in Present(tab) : tab[i].begin <= p /\ p < tab[j].begin + tab[j].range

(* What a linker makes: functions do not overlap, and neither do modules.  *)
ASSUME LayoutAssumption ==
  \A layout \in Layouts :
    /\ layout \in [Modules -> Seq([begin : 0..MaxPc, range : Nat \ {0}, omit : BOOLEAN])]
    /\ \A m \in Modules : \A i, j \in Present(layout[m]) :
         \/ layout[m][i] = layout[m][j]
         \/ layout[m][i].begin + layout[m][i].range <= layout[m][j].begin
         \/ layout[m][j].begin + layout[m][j].range <= layout[m][i].begin
    /\ \A m, n \in Modules : \A p \in 1..MaxPc :
         Spans(layout[m], p) /\ Spans(layout[n], p) => m = n

VARIABLES
  table,        \* what the linker has put into each module
  phase,        \* whether each module is out, coming, in or leaving
  unseen,       \* unseen_objects
  seen,         \* seen_objects
  mutex,        \* the holder of object_mutex
  ob,           \* the object of each module
  at,           \* where each thread is
  mod,          \* the module a thread loads or unloads
  pc,           \* the program counter a thread asks about, 0 for none
  cur,          \* the local ob of _Unwind_Find_FDE
  f             \* the local f of _Unwind_Find_FDE

lists == <<unseen, seen>>
locals == <<mod, pc, cur, f>>
registryVars == <<table, phase, lists, mutex, ob, at, locals>>

\* (void *)-1, the lowest address of an object without FDEs.
TopAddress == MaxPc + 1

NoObject == [live |-> 0, pc_begin |-> 0, count |-> 0, sorted |-> 0, single |-> NoModule,
             orig_data |-> NoModule, array |-> <<>>]

RegistryInit ==
  /\ table \in Layouts
  /\ phase = [m \in Modules |-> "out"]
  /\ unseen = <<>> /\ seen = <<>>
  /\ mutex = NoThread
  /\ ob = [m \in Modules |-> NoObject]
  /\ at = [t \in Threads |-> "idle"]
  /\ mod = [t \in Threads |-> NoModule]
  /\ pc = [t \in Threads |-> 0]
  /\ cur = [t \in Threads |-> NoModule]
  /\ f = [t \in Threads |-> NoFde]

Goto(t, from, to) == at[t] = from /\ at' = [at EXCEPT ![t] = to]

Elements(s) == {s[i] : i \in DOMAIN s}

\* __gthread_mutex_lock (&object_mutex).
LockMutex(t, from, to) ==
  /\ mutex = NoThread
  /\ mutex' = t
  /\ Goto(t, from, to)
  /\ UNCHANGED <<table, phase, lists, ob, locals>>

\* Whether module m has code at p.
InModule(m, p) == Spans(table[m], p)

-----------------------------------------------------------------------------
(* __ctordtorInit and __ehInit of a module that is loaded.  An emx module  *)
(* registers with __register_frame_table, whatever is in the table; with   *)
(* __register_frame an empty table is left out.                            *)
Load(t, m, asTable) ==
  /\ phase[m] = "out" /\ ob[m].live = 0
  /\ mod' = [mod EXCEPT ![t] = m]
  /\ IF table[m] = <<>> /\ ~asTable
     THEN /\ Goto(t, "idle", "ctors")
          /\ phase' = [phase EXCEPT ![m] = "in"] /\ UNCHANGED ob
     ELSE /\ Goto(t, "idle", "regLock")
          /\ phase' = [phase EXCEPT ![m] = "coming"]
          /\ ob' = [ob EXCEPT ![m] =
                      [NoObject EXCEPT !.live = 1, !.pc_begin = TopAddress, !.single = m]]
  /\ UNCHANGED <<table, lists, mutex, pc, cur, f>>

RegisterLock(t) == LockMutex(t, "regLock", "regLink")

RegisterLink(t) ==
  /\ Goto(t, "regLink", "regUnlock")
  /\ unseen' = <<mod[t]>> \o unseen
  /\ UNCHANGED <<table, phase, seen, mutex, ob, locals>>

\* The mutex is released.
RegisterUnlock(t) ==
  /\ Goto(t, "regUnlock", "ctors")
  /\ mutex' = NoThread
  /\ phase' = [phase EXCEPT ![mod[t]] = "in"]
  /\ UNCHANGED <<table, lists, ob, locals>>

\* The constructors have run.
Constructed(t) ==
  /\ Goto(t, "ctors", "idle")
  /\ mod' = [mod EXCEPT ![t] = NoModule]
  /\ UNCHANGED <<table, phase, lists, mutex, ob, pc, cur, f>>

(* __ctordtorTerm: the destructors first, then __ehTerm.                   *)
Unload(t, m) ==
  /\ phase[m] = "in" /\ \A u \in Threads : mod[u] # m
  /\ Goto(t, "idle", "dtors")
  /\ mod' = [mod EXCEPT ![t] = m]
  /\ UNCHANGED <<table, phase, lists, mutex, ob, pc, cur, f>>

\* The system unmaps the module.
Unmap(t) ==
  /\ phase' = [phase EXCEPT ![mod[t]] = "out"]
  /\ mod' = [mod EXCEPT ![t] = NoModule]

(* __ehTerm calls __deregister_frame, which returns at once for an empty   *)
(* table.  The client has made sure that no thread runs in the module.     *)
Destructed(t) ==
  /\ at[t] = "dtors"
  /\ \A u \in Threads : pc[u] # 0 => ~InModule(mod[t], pc[u])
  /\ IF table[mod[t]] = <<>>
     THEN Goto(t, "dtors", "idle") /\ Unmap(t)
     ELSE /\ Goto(t, "dtors", "deregLock")
          /\ phase' = [phase EXCEPT ![mod[t]] = "leaving"] /\ UNCHANGED mod
  /\ UNCHANGED <<table, lists, mutex, ob, pc, cur, f>>

DeregisterLock(t) == LockMutex(t, "deregLock", "deregSearch")

\* Mutant: the key of a sorted object is looked for where the sorted array is.
KeyOfMutant(o) == IF o.sorted = 1 THEN NoModule ELSE o.single

\* The table by which an object is known.
KeyOf(o) == IF o.sorted = 1 THEN o.orig_data ELSE o.single

\* Mutant: the predecessor is not relinked.
UnlinkedMutant(s, begin) == s

\* The list s without the first object that is known by the table of begin.
Unlinked(s, begin) ==
  LET n == Lowermost({i \in DOMAIN s : KeyOf(ob[s[i]]) = begin})
  IN  [i \in 1..(Len(s) - 1) |-> IF i < n THEN s[i] ELSE s[i + 1]]

(* __deregister_frame_info_bases: unseen first, then seen; the object is   *)
(* unlinked, its sorted array freed and the mutex released.                *)
DeregisterSearch(t) ==
  LET Is(m) == KeyOf(ob[m]) = mod[t]
  IN  /\ at[t] = "deregSearch"
      /\ \/ /\ \E m \in Elements(unseen) : Is(m)
            /\ unseen' = Unlinked(unseen, mod[t]) /\ UNCHANGED seen
            /\ Goto(t, "deregSearch", "free")
         \/ /\ \A m \in Elements(unseen) : ~Is(m)
            /\ \E m \in Elements(seen) : Is(m)
            /\ seen' = Unlinked(seen, mod[t]) /\ UNCHANGED unseen
            /\ Goto(t, "deregSearch", "free")
         \/ /\ \A m \in Elements(unseen) \cup Elements(seen) : ~Is(m)
            /\ Goto(t, "deregSearch", "abort")
            /\ UNCHANGED <<unseen, seen>>
      /\ mutex' = NoThread
      /\ UNCHANGED <<table, phase, ob, locals>>

\* __deregister_frame frees the object.
FreeObject(t) ==
  /\ Goto(t, "free", "idle")
  /\ ob' = [ob EXCEPT ![mod[t]] = NoObject]
  /\ Unmap(t)
  /\ UNCHANGED <<table, lists, mutex, pc, cur, f>>

LoadStep(t) ==
  \/ RegisterLock(t) \/ RegisterLink(t) \/ RegisterUnlock(t) \/ Constructed(t) \/ Destructed(t)
  \/ DeregisterLock(t) \/ DeregisterSearch(t) \/ FreeObject(t)

-----------------------------------------------------------------------------
(* The sorted array of each frame table, with and without the erratic one. *)
Sorted ==
  [tab \in UNION {Elements(layout) : layout \in Layouts} |->
     [hasErratic \in BOOLEAN |-> end_fde_sort(Collected(tab), hasErratic)]]

\* What malloc gives start_fde_sort: no array, the linear one, or both.
Memory == {"none", "linear", "both"}

CountOf(n) == IF n > MaxCount THEN 0 ELSE n

(* init_object.  An object with an FDE that cannot be handled gets an      *)
(* empty table in place of its own; one that has been counted before is    *)
(* not classified again.                                                   *)
init_object(o, mem) ==
  LET tab == IF o.single = NoModule THEN <<>> ELSE table[o.single]
      classified == IF o.count # 0 THEN o
                    ELSE [o EXCEPT !.pc_begin = Lowest(tab, o.pc_begin),
                                   !.count = CountOf(Len(Collected(tab)))]
  IN  IF Unhandled(tab)
      THEN [o EXCEPT !.pc_begin = Lowest(tab, o.pc_begin), !.single = NoModule]
      ELSE IF Reached(tab) = {} \/ mem = "none" THEN classified
      ELSE [classified EXCEPT !.sorted = 1, !.orig_data = o.single,
                              !.array = Sorted[tab][mem = "both"]]

(* search_object: the object after the search, and what was found.         *)
search_object(o, p, mem) ==
  LET new == IF o.sorted = 1 THEN o ELSE init_object(o, mem)
      tab == IF new.single = NoModule THEN <<>> ELSE table[new.single]
      found == IF o.sorted = 0 /\ p < new.pc_begin THEN NoFde
               ELSE IF new.sorted = 1 THEN binary_search_fdes(new.array, p)
               ELSE linear_search_fdes(tab, p)
  IN  [object |-> new, fde |-> found]

-----------------------------------------------------------------------------
(* _Unwind_Find_FDE for a program counter in a module that is in, or in no *)
(* module at all.                                                          *)
Find(t, p) ==
  /\ \A m \in Modules : InModule(m, p) => phase[m] = "in"
  /\ Goto(t, "idle", "findLock")
  /\ pc' = [pc EXCEPT ![t] = p]
  /\ UNCHANGED <<table, phase, lists, mutex, ob, mod, cur, f>>

FindLock(t) == LockMutex(t, "findLock", "seen")

\* The places of the list seen whose objects start at or below p.
Candidates(p) == {i \in DOMAIN seen : p >= ob[seen[i]].pc_begin}

(* Only the first candidate is searched: the list is in descending order   *)
(* and modules do not overlap.                                             *)
SearchSeen(t) ==
  /\ at[t] = "seen"
  /\ \/ /\ Candidates(pc[t]) = {}
        /\ Goto(t, "seen", "unseen")
        /\ UNCHANGED <<ob, cur, f>>
     \/ /\ Candidates(pc[t]) # {}
        /\ \E mem \in Memory :
             LET m == seen[Lowermost(Candidates(pc[t]))]
                 s == search_object(ob[m], pc[t], mem)
             IN  /\ ob' = [ob EXCEPT ![m] = s.object]
                 /\ cur' = [cur EXCEPT ![t] = m]
                 /\ f' = [f EXCEPT ![t] = s.fde]
                 /\ Goto(t, "seen", IF s.fde # NoFde THEN "fini" ELSE "unseen")
  /\ UNCHANGED <<table, phase, lists, mutex, mod, pc>>

\* Mutant: the object that is searched stays on the list unseen as well.
TakeUnseenMutant(t) ==
  /\ IF unseen = <<>>
     THEN Goto(t, "unseen", "fini") /\ UNCHANGED cur
     ELSE Goto(t, "unseen", "search") /\ cur' = [cur EXCEPT ![t] = Head(unseen)]
  /\ UNCHANGED <<table, phase, lists, mutex, ob, mod, pc, f>>

\* The next object of the list unseen is taken off it.
TakeUnseen(t) ==
  /\ IF unseen = <<>>
     THEN Goto(t, "unseen", "fini") /\ UNCHANGED <<unseen, cur>>
     ELSE /\ Goto(t, "unseen", "search")
          /\ cur' = [cur EXCEPT ![t] = Head(unseen)]
          /\ unseen' = Tail(unseen)
  /\ UNCHANGED <<table, phase, seen, mutex, ob, mod, pc, f>>

\* Mutant: the list seen is kept in ascending order.
GoesBeforeMutant(o, m) == ob[m].pc_begin > o.pc_begin

\* Where an object goes in the list seen.
GoesBefore(o, m) == ob[m].pc_begin < o.pc_begin

\* Mutant: an object that belongs at the end is not linked.
InsertedMutant(m, o) ==
  LET later == {i \in DOMAIN seen : GoesBefore(o, seen[i])}
      n == IF later = {} THEN Len(seen) ELSE Lowermost(later) - 1
  IN  IF later = {} THEN seen ELSE SubSeq(seen, 1, n) \o <<m>> \o SubSeq(seen, n + 1, Len(seen))

\* The list seen with object o of module m before the first that starts lower.
Inserted(m, o) ==
  LET later == {i \in DOMAIN seen : GoesBefore(o, seen[i])}
      n == IF later = {} THEN Len(seen) ELSE Lowermost(later) - 1
  IN  SubSeq(seen, 1, n) \o <<m>> \o SubSeq(seen, n + 1, Len(seen))

(* The object is searched and put into the list seen.                      *)
SearchUnseen(t) ==
  /\ at[t] = "search"
  /\ \E mem \in Memory :
       LET m == cur[t]
           s == search_object(ob[m], pc[t], mem)
       IN  /\ ob' = [ob EXCEPT ![m] = s.object]
           /\ seen' = Inserted(m, s.object)
           /\ f' = [f EXCEPT ![t] = s.fde]
           /\ Goto(t, "search", IF s.fde # NoFde THEN "fini" ELSE "unseen")
  /\ UNCHANGED <<table, phase, unseen, mutex, mod, pc, cur>>

\* The locals end with the call.
Leave(t) ==
  /\ pc' = [pc EXCEPT ![t] = 0]
  /\ cur' = [cur EXCEPT ![t] = NoModule]
  /\ f' = [f EXCEPT ![t] = NoFde]

\* Mutant: the mutex is released only after a search that found something.
FiniMutant(t) ==
  /\ \/ f[t] # NoFde /\ mutex' = NoThread /\ Goto(t, "fini", "bases") /\ UNCHANGED <<pc, cur, f>>
     \/ f[t] = NoFde /\ Goto(t, "fini", "idle") /\ Leave(t) /\ UNCHANGED mutex
  /\ UNCHANGED <<table, phase, lists, ob, mod>>

\* The end of the search: the mutex is released.
Fini(t) ==
  /\ mutex' = NoThread
  /\ \/ f[t] # NoFde /\ Goto(t, "fini", "bases") /\ UNCHANGED <<pc, cur, f>>
     \/ f[t] = NoFde /\ Goto(t, "fini", "idle") /\ Leave(t)
  /\ UNCHANGED <<table, phase, lists, ob, mod>>

\* tbase, dbase and the encoding are read from the object, without the mutex.
ReadBases(t) ==
  /\ Goto(t, "bases", "idle") /\ Leave(t)
  /\ UNCHANGED <<table, phase, lists, mutex, ob, mod>>

FindStep(t) ==
  \/ FindLock(t) \/ SearchSeen(t) \/ TakeUnseen(t) \/ SearchUnseen(t) \/ Fini(t) \/ ReadBases(t)

-----------------------------------------------------------------------------
\* gcc_assert (ob) ends the process.
Alive == \A t \in Threads : at[t] # "abort"

RegistryNext ==
  /\ Alive
  /\ \E t \in Threads :
       \/ \E m \in Modules : Load(t, m, TRUE) \/ Load(t, m, FALSE) \/ Unload(t, m)
       \/ \E p \in Pcs : Find(t, p)
       \/ LoadStep(t) \/ FindStep(t)

\* The steps of a loading thread that holds the mutex.
HolderStep(t) == RegisterLink(t) \/ RegisterUnlock(t) \/ DeregisterSearch(t)

(* A thread that unwinds or holds the mutex runs on, and a mutex that is   *)
(* released again and again is granted in the end to everybody who waits   *)
(* for it.  Nobody has to load, to unload or to ask.                       *)
RegistrySpec ==
  /\ RegistryInit
  /\ [][RegistryNext]_registryVars
  /\ \A t \in Threads : /\ SF_registryVars(Alive /\ FindStep(t))
                        /\ WF_registryVars(Alive /\ HolderStep(t))

-----------------------------------------------------------------------------
\* The objects on the lists, and those a search is about to move.
Linked ==
  Elements(unseen) \cup Elements(seen) \cup {cur[t] : t \in {u \in Threads : at[u] = "search"}}

RegistryTypeOK ==
  /\ table \in Layouts
  /\ phase \in [Modules -> {"out", "coming", "in", "leaving"}]
  /\ unseen \in Seq(Modules) /\ seen \in Seq(Modules)
  /\ mutex \in Threads \cup {NoThread}
  /\ mod \in [Threads -> Modules \cup {NoModule}]
  /\ pc \in [Threads -> Pcs \cup {0}]
  /\ cur \in [Threads -> Modules \cup {NoModule}]

(* No freed object is reachable: all objects on the lists are allocated,   *)
(* and so is the one that _Unwind_Find_FDE reads after it has released the *)
(* mutex, while other threads load and unload other modules.               *)
NoFreedRead ==
  /\ \A m \in Linked : ob[m].live = 1
  /\ \A t \in Threads : at[t] = "bases" => ob[cur[t]].live = 1

(* Deregistration finds the object of every module, wherever the object is *)
(* and whether or not it was sorted in between: the assertion fails for a  *)
(* module with FDEs that init_object cannot handle, and for no other.      *)
AbortOnlyUnhandled == \A t \in Threads : at[t] = "abort" => Unhandled(table[mod[t]])

(* A module that has been unloaded has left nothing behind that a search   *)
(* would follow into unmapped memory, unless its table was empty.          *)
UnloadedIsGone == \A m \in Linked : phase[m] = "out" => table[m] = <<>>

(* While the constructors and the destructors of a module run, exceptions  *)
(* can pass through it: its table is registered.                           *)
FramesWhileRunning ==
  \A t \in Threads :
    at[t] \in {"ctors", "dtors"} /\ table[mod[t]] # <<>> => mod[t] \in Linked

\* Every search ends.
FindsReturn == \A t \in Threads : (pc[t] # 0) ~> (pc[t] = 0 \/ ~Alive)

Answered == {t \in Threads : at[t] \in {"fini", "bases"}}

(* The two lists, the sorting and the searches implement a set of modules: *)
(* a question is answered with the FDE that the registered modules have    *)
(* for the program counter, and with none only if there is none, however   *)
(* often memory ran out and whatever was registered and removed meanwhile. *)
Abs == INSTANCE AbstractRegistry WITH
         registered <- Linked \ {mod[t] : t \in {u \in Threads : at[u] = "regUnlock"}},
         asking <- pc,
         answered <- Answered,
         answer <- [t \in Threads |-> IF t \in Answered THEN f[t] ELSE NoFde]
ImplementsRegistry == Abs!AbsSpec

=============================================================================
