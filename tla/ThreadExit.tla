----------------------------- MODULE ThreadExit -----------------------------
(***************************************************************************)
(* The thread-local variables of a C++ program: their storage (Emutls),    *)
(* their destructors (libstdc++-v3/libsupc++/atexit_thread.cc), and the    *)
(* TLS keys (gthr-os2.h) by which both learn that a thread ends.           *)
(*                                                                         *)
(* __cxa_thread_atexit pushes a destructor on a list of its thread.  When  *)
(* the thread ends, kLIBC calls the destructor of each key that has a      *)
(* value, having cleared the value: run for the list and emutls_destroy    *)
(* for the storage, in an order that nothing specifies.  A key that has a  *)
(* value again afterwards is visited in a further round, of which there    *)
(* are only so many.  The thread that calls exit runs its own list, and    *)
(* then the key of the lists is deleted.                                   *)
(***************************************************************************)
EXTENDS Emutls

CONSTANTS
  Main,         \* the thread that may call exit
  Names,        \* bound: the thread-local variables that each thread's code names
  Destructible, \* the variables that have destructors
  Orders,       \* which key is visited first: "list", "storage"
  MaxRounds     \* the rounds of key destructors

ASSUME ThreadExitAssumption ==
  /\ Main \in Threads
  /\ Names \in [Threads -> SUBSET Objects]
  /\ Destructible \subseteq Objects
  /\ Orders \subseteq {"list", "storage"}
  /\ MaxRounds \in Nat

VARIABLES
  first,        \* the key that kLIBC visits first
  key,          \* the key of the lists: "none", "live", "deleted"
  list,         \* its value in each thread, the latest cleanup first
  e,            \* the local e of run
  inside,       \* the threads that are in a destructor
  phase,        \* "running", "exit" (in exit), "ending" (in the key destructors), "over"
  visits,       \* the keys that are still to be visited in this round
  rounds,       \* the rounds each thread has begun
  built,        \* the cleanups each thread has registered (history)
  ran           \* the cleanups that each thread has run, in order (history)

exitVars == <<first, key, list, e, inside, phase, visits, rounds, built, ran>>
vars == <<emutlsVars, exitVars>>

ThreadExitInit ==
  /\ EmutlsInit
  /\ first \in Orders
  /\ key = "none"
  /\ list = [t \in Threads |-> <<>>]
  /\ e = [t \in Threads |-> <<>>]
  /\ inside = {}
  /\ phase = [t \in Threads |-> "running"]
  /\ visits = [t \in Threads |-> {}]
  /\ rounds = [t \in Threads |-> 0]
  /\ built = [t \in Threads |-> <<>>]
  /\ ran = [t \in Threads |-> <<>>]

Elements(s) == {s[i] : i \in DOMAIN s}

\* Whether t is in code of the program, and not in the library.
InProgram(t) == at[t] = "out" /\ (phase[t] = "running" \/ t \in inside)

Use(t, o) == InProgram(t) /\ Get(t, o) /\ UNCHANGED exitVars

Access(t) == (GetStep(t) \/ OutOfMemory(t)) /\ UNCHANGED exitVars

-----------------------------------------------------------------------------
\* Mutant: the new element is not linked to those before it.
PushedMutant(t, elt) == <<elt>>

\* The list of t with a new element in front.
Pushed(t, elt) == <<elt>> \o list[t]

(* __cxa_thread_atexit, called when a variable has been constructed: the   *)
(* key is created once, the cleanup pushed.  A key that has been deleted   *)
(* has no value and takes none.  That the new element cannot be allocated  *)
(* changes nothing.  A thread constructs a variable once.                  *)
Register(t, o) ==
  LET elt == [object |-> o, block |-> given[t][o], late |-> phase[t] # "running"]
  IN  /\ InProgram(t)
      /\ o \in Destructible /\ given[t][o] # NULL
      /\ \A c \in Elements(built[t]) : c.object # o
      /\ key' = IF key = "none" THEN "live" ELSE key
      /\ list' = IF key' = "live" THEN [list EXCEPT ![t] = Pushed(t, elt)] ELSE list
      /\ built' = [built EXCEPT ![t] = Append(built[t], elt)]
      /\ UNCHANGED <<emutlsVars, first, e, inside, phase, visits, rounds, ran>>

-----------------------------------------------------------------------------
\* The destructor of the first cleanup of run's list is called.
CallDestructor(t) ==
  /\ e[t] # <<>> /\ t \notin inside
  /\ inside' = inside \cup {t}
  /\ LET c == Head(e[t])
     IN  ran' = [ran EXCEPT ![t] = Append(ran[t],
                   [object |-> c.object, late |-> c.late, intact |-> given[t][c.object] = c.block])]
  /\ UNCHANGED <<emutlsVars, first, key, list, e, phase, visits, rounds, built>>

\* It returns; the element is deleted and the next one taken.
NextElement(t) ==
  /\ t \in inside /\ at[t] = "out"
  /\ inside' = inside \ {t}
  /\ e' = [e EXCEPT ![t] = Tail(e[t])]
  /\ UNCHANGED <<emutlsVars, first, key, list, phase, visits, rounds, built, ran>>

\* The list goes from the key to run.
ListToRun(t) ==
  /\ e' = [e EXCEPT ![t] = list[t]]
  /\ list' = [list EXCEPT ![t] = <<>>]

\* run () reads the value of the key and clears it.
TakeList(t) == ListToRun(t)

\* kLIBC clears the value and hands it to run (void *).
PassList(t) == ListToRun(t)

-----------------------------------------------------------------------------
\* std::exit calls run if a cleanup was ever registered.
Exit(t) ==
  /\ t = Main /\ phase[t] = "running" /\ at[t] = "out"
  /\ phase' = [phase EXCEPT ![t] = "exit"]
  /\ IF key = "live" THEN TakeList(t) ELSE UNCHANGED <<e, list>>
  /\ UNCHANGED <<emutlsVars, first, key, inside, visits, rounds, built, ran>>

\* The destructor of key_s, registered before run, is called after it.
DeleteKey(t) ==
  /\ phase[t] = "exit" /\ e[t] = <<>>
  /\ phase' = [phase EXCEPT ![t] = "over"]
  /\ key' = IF key = "live" THEN "deleted" ELSE key
  /\ UNCHANGED <<emutlsVars, first, list, e, inside, visits, rounds, built, ran>>

-----------------------------------------------------------------------------
\* A thread returns from its function.
End(t) ==
  /\ t # Main /\ phase[t] = "running" /\ at[t] = "out"
  /\ phase' = [phase EXCEPT ![t] = "ending"]
  /\ UNCHANGED <<emutlsVars, first, key, list, e, inside, visits, rounds, built, ran>>

\* Whether a key has a value in t that its destructor is to be called for.
HasValue(t, k) == IF k = "storage" THEN arr[t] # <<>> ELSE key = "live" /\ list[t] # <<>>

\* Between two key destructors.
Between(t) == phase[t] = "ending" /\ e[t] = <<>>

Round(t) ==
  /\ Between(t) /\ visits[t] = {}
  /\ rounds[t] < MaxRounds /\ \E k \in {"list", "storage"} : HasValue(t, k)
  /\ visits' = [visits EXCEPT ![t] = {"list", "storage"}]
  /\ rounds' = [rounds EXCEPT ![t] = @ + 1]
  /\ UNCHANGED <<emutlsVars, first, key, list, e, inside, phase, built, ran>>

(* A key is visited.                                                       *)
Visit(t, k) ==
  /\ Between(t) /\ k \in visits[t]
  /\ k # first => first \notin visits[t]
  /\ visits' = [visits EXCEPT ![t] = @ \ {k}]
  /\ \/ ~HasValue(t, k) /\ UNCHANGED <<emutlsVars, list, e>>
     \/ /\ HasValue(t, k) /\ k = "list"
        /\ PassList(t) /\ UNCHANGED emutlsVars
     \/ /\ HasValue(t, k) /\ k = "storage"
        /\ emutls_destroy(t) /\ UNCHANGED <<numbering, at, obj, off, list, e>>
  /\ UNCHANGED <<first, key, inside, phase, rounds, built, ran>>

\* The thread is gone, and whatever its keys may still hold is lost.
Over(t) ==
  /\ Between(t) /\ visits[t] = {}
  /\ rounds[t] = MaxRounds \/ \A k \in {"list", "storage"} : ~HasValue(t, k)
  /\ phase' = [phase EXCEPT ![t] = "over"]
  /\ UNCHANGED <<emutlsVars, first, key, list, e, inside, visits, rounds, built, ran>>

-----------------------------------------------------------------------------
ThreadExitNext ==
  /\ Alive
  /\ \E t \in Threads :
       \/ \E o \in Names[t] : Use(t, o) \/ Register(t, o)
       \/ Access(t) \/ CallDestructor(t) \/ NextElement(t)
       \/ Exit(t) \/ DeleteKey(t) \/ End(t) \/ Round(t) \/ Over(t)
       \/ \E k \in {"list", "storage"} : Visit(t, k)

ThreadExitSpec == ThreadExitInit /\ [][ThreadExitNext]_vars

-----------------------------------------------------------------------------
ThreadExitTypeOK ==
  /\ offset \in [Objects -> Nat]
  /\ emutls_size \in Nat
  /\ emutls_key \in BOOLEAN
  /\ emutls_mutex \in Threads \cup {NoThread}
  /\ off \in [Threads -> Nat]
  /\ arr \in [Threads -> Seq(Blocks \cup {NULL})]
  /\ live \in [Threads -> SUBSET Blocks]
  /\ given \in [Threads -> [Objects -> Blocks \cup {NULL}]]
  /\ key \in {"none", "live", "deleted"}
  /\ phase \in [Threads -> {"running", "exit", "ending", "over"}]

(* Every object has one offset for good, no two objects have the same, and *)
(* the offset that a thread goes on with, read with or without the mutex,  *)
(* is the one its object has.                                              *)
OneOffset ==
  /\ \A o, p \in Objects : offset[o] # 0 /\ offset[o] = offset[p] => o = p
  /\ \A t \in Threads : at[t] \in {"unlock", "slot"} => off[t] = offset[obj[t]]

(* The address of a variable stays what it was while its thread lives,     *)
(* however its array grows: the slot still holds it, the memory has not    *)
(* been freed, and no other variable of the thread was given it.           *)
(* No slot is looked for outside of the array.                             *)
AddressStable ==
  /\ \A t \in Threads : InBounds(t)
  /\ \A t \in Threads, o \in Objects :
       given[t][o] # NULL =>
         /\ offset[o] \in DOMAIN arr[t] /\ arr[t][offset[o]] = given[t][o]
         /\ given[t][o] \in live[t]
         /\ \A p \in Objects : given[t][p] = given[t][o] => p = o

(* No block that was allocated is lost while in use; and when a thread is  *)
(* gone, all of its storage has been freed, unless its destructors kept    *)
(* making new storage until kLIBC gave up.                                 *)
NothingLeaks ==
  /\ \A t \in Threads : live[t] = BlocksOf(arr[t])
  /\ \A t \in Threads : phase[t] = "over" /\ t # Main => arr[t] = <<>> \/ rounds[t] = MaxRounds

\* The destructor of o, a variable of t, has been called.
HasRun(t, o) == \E i \in DOMAIN ran[t] : ran[t][i].object = o

(* Only destructors that were registered run, once each, the latest first. *)
(* All have run when the thread is gone, unless exit has deleted the key   *)
(* or kLIBC gave up; those of the thread that called exit have run as      *)
(* well.  Variables that another's destructor was the first to use are     *)
(* exempt from the order, and lost in exit.                                *)
CleanupsRun ==
  \A t \in Threads :
    /\ \A i \in DOMAIN ran[t] : \E k \in DOMAIN built[t] : built[t][k].object = ran[t][i].object
    /\ \A i, j \in DOMAIN ran[t] : ran[t][i].object = ran[t][j].object => i = j
    /\ \A i, j \in DOMAIN ran[t], k, l \in DOMAIN built[t] :
         /\ ran[t][i].object = built[t][k].object /\ ran[t][j].object = built[t][l].object
         /\ ~ran[t][i].late /\ ~ran[t][j].late /\ i < j
         => k > l
    /\ phase[t] = "over" /\ t = Main =>
         \A k \in DOMAIN built[t] : built[t][k].late \/ HasRun(t, built[t][k].object)
    /\ phase[t] = "over" /\ t # Main /\ key # "deleted" /\ rounds[t] < MaxRounds =>
         \A k \in DOMAIN built[t] : HasRun(t, built[t][k].object)

(* If kLIBC visits the key of the lists before that of the storage, every  *)
(* destructor finds its variable where it was built, unless the variable   *)
(* was first used by another's destructor.  In exit it always does.        *)
CleanupsFindStorage ==
  \A t \in Threads : \A i \in DOMAIN ran[t] :
    (first = "list" \/ t = Main) /\ ~ran[t][i].late => ran[t][i].intact

=============================================================================
