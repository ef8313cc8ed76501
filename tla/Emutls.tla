------------------------------- MODULE Emutls -------------------------------
(***************************************************************************)
(* Emulated thread-local storage (libgcc/emutls.c), on which every         *)
(* thread-local variable of the OS/2 port is built.                        *)
(*                                                                         *)
(* An object gets its offset, the number of its slot, when some thread     *)
(* first asks for its address: the offset is read without the mutex, and   *)
(* again under it.  Each thread keeps the addresses of its own copies in   *)
(* an array that grows when an offset beyond its end is met, and that the  *)
(* destructor of a TLS key frees when the thread ends.                     *)
(*                                                                         *)
(* Here are the steps of __emutls_get_address and of emutls_destroy;       *)
(* ThreadExit composes them with the life of the threads.  __gthread_once  *)
(* is one step, as GthrOnce shows it may be seen.  The size, the alignment *)
(* and the initial value of objects are left out.                          *)
(***************************************************************************)
EXTENDS Integers, Sequences, FiniteSets

CONSTANTS
  Threads,
  NoThread,
  Objects,      \* the variables declared thread-local
  NoObject,
  Slack,        \* the free slots of a new array (32 in the code)
  MaxBlocks     \* bound: the blocks of memory a thread can have

ASSUME EmutlsAssumption ==
  /\ NoThread \notin Threads /\ NoObject \notin Objects
  /\ Slack \in Nat /\ MaxBlocks \in Nat

VARIABLES
  offset,       \* loc.offset of each object
  emutls_size,
  emutls_key,   \* whether the key has been created
  emutls_mutex, \* the holder of the mutex
  at,           \* where each thread is in __emutls_get_address
  obj,          \* the parameter
  off,          \* the local offset
  arr,          \* the value of emutls_key in each thread: the slots, <<>> for NULL
  live,         \* the blocks of memory that each thread has allocated and not freed
  given         \* the address each thread has last been given of each object (history)

numbering == <<offset, emutls_size, emutls_key, emutls_mutex>>
storage == <<arr, live, given>>
emutlsVars == <<numbering, at, obj, off, storage>>

NULL == 0

Blocks == 1..MaxBlocks

EmutlsInit ==
  /\ offset = [o \in Objects |-> 0]
  /\ emutls_size = 0
  /\ emutls_key = FALSE
  /\ emutls_mutex = NoThread
  /\ at = [t \in Threads |-> "out"]
  /\ obj = [t \in Threads |-> NoObject]
  /\ off = [t \in Threads |-> 0]
  /\ arr = [t \in Threads |-> <<>>]
  /\ live = [t \in Threads |-> {}]
  /\ given = [t \in Threads |-> [o \in Objects |-> NULL]]

Goto(t, from, to) == at[t] = from /\ at' = [at EXCEPT ![t] = to]

-----------------------------------------------------------------------------
(* A thread names a thread-local variable: the offset is loaded without    *)
(* the mutex.                                                              *)
Get(t, o) ==
  /\ Goto(t, "out", IF offset[o] = 0 THEN "once" ELSE "slot")
  /\ obj' = [obj EXCEPT ![t] = o]
  /\ off' = [off EXCEPT ![t] = offset[o]]
  /\ UNCHANGED <<numbering, storage>>

\* __gthread_once (&once, emutls_init).
Once(t) ==
  /\ Goto(t, "once", "lock")
  /\ emutls_key' = TRUE
  /\ UNCHANGED <<offset, emutls_size, emutls_mutex, obj, off, storage>>

Lock(t) ==
  /\ emutls_mutex = NoThread
  /\ Goto(t, "lock", "number")
  /\ emutls_mutex' = t
  /\ UNCHANGED <<offset, emutls_size, emutls_key, obj, off, storage>>

\* Mutant: the offset is not read again.
StillZeroMutant(t) == TRUE

\* The test of the offset under the mutex.
StillZero(t) == offset[obj[t]] = 0

Number(t) ==
  /\ Goto(t, "number", "unlock")
  /\ \/ /\ StillZero(t)
        /\ emutls_size' = emutls_size + 1
        /\ offset' = [offset EXCEPT ![obj[t]] = emutls_size']
        /\ off' = [off EXCEPT ![t] = emutls_size']
     \/ /\ ~StillZero(t)
        /\ off' = [off EXCEPT ![t] = offset[obj[t]]]
        /\ UNCHANGED <<offset, emutls_size>>
  /\ UNCHANGED <<emutls_key, emutls_mutex, obj, storage>>

Unlock(t) ==
  /\ Goto(t, "unlock", "slot")
  /\ emutls_mutex' = NoThread
  /\ UNCHANGED <<offset, emutls_size, emutls_key, obj, off, storage>>

-----------------------------------------------------------------------------
\* Mutant: an array is doubled even if that is not enough.
NewSizeMutant(old, n) == IF old = 0 THEN n + Slack ELSE 2 * old

\* The size of a new array, or of one that grows.
NewSize(old, n) == IF old = 0 \/ n > 2 * old THEN n + Slack ELSE 2 * old

MustGrow(t) == off[t] > Len(arr[t])

\* Mutant: memset clears the array from its start.
GrownMutant(t) ==
  LET old == Len(arr[t])
  IN  IF MustGrow(t) THEN [i \in 1..NewSize(old, off[t]) |-> NULL] ELSE arr[t]

(* The array of t as it is used: getspecific; no array: calloc; too small: *)
(* realloc, memset of what was added, and setspecific.                     *)
Grown(t) ==
  LET old == Len(arr[t])
      size == IF MustGrow(t) THEN NewSize(old, off[t]) ELSE old
  IN  [i \in 1..size |-> IF i <= old THEN arr[t][i] ELSE NULL]

\* malloc: an address that is not in use.
Malloc(t) == CHOOSE b \in Blocks : b \notin live[t]

(* The thread's own part: the slot, and emutls_alloc if it is empty.  An   *)
(* offset beyond the array would be a wild access: InBounds.               *)
Slot(t) ==
  /\ Goto(t, "slot", "out")
  /\ off[t] \in DOMAIN Grown(t)
  /\ LET new == Grown(t)[off[t]] = NULL
         ret == IF new THEN Malloc(t) ELSE Grown(t)[off[t]]
     IN  /\ new => Blocks \ live[t] # {}
         /\ arr' = [arr EXCEPT ![t] = [Grown(t) EXCEPT ![off[t]] = ret]]
         /\ live' = [live EXCEPT ![t] = IF new THEN @ \cup {ret} ELSE @]
         /\ given' = [given EXCEPT ![t][obj[t]] = ret]
  /\ obj' = [obj EXCEPT ![t] = NoObject]
  /\ off' = [off EXCEPT ![t] = 0]
  /\ UNCHANGED numbering

InBounds(t) == at[t] = "slot" => off[t] \in DOMAIN Grown(t)

GetStep(t) ==
  Once(t) \/ Lock(t) \/ Number(t) \/ Unlock(t) \/ Slot(t)

(* abort: a key, an array or a block could not be allocated.               *)
OutOfMemory(t) ==
  /\ \/ at[t] = "once" /\ ~emutls_key
     \/ at[t] = "slot" /\ off[t] \notin {i \in DOMAIN arr[t] : arr[t][i] # NULL}
  /\ at' = [at EXCEPT ![t] = "abort"]
  /\ UNCHANGED <<numbering, obj, off, storage>>

Alive == \A t \in Threads : at[t] # "abort"

-----------------------------------------------------------------------------
\* The blocks in the slots of a.
BlocksOf(a) == {a[i] : i \in DOMAIN a} \ {NULL}

\* Mutant: the last slot is not looked at.
FreedMutant(a) == {a[i] : i \in 1..(Len(a) - 1)} \ {NULL}

\* What emutls_destroy frees, besides the array itself.
Freed(a) == {a[i] : i \in 1..Len(a)} \ {NULL}

(* emutls_destroy, called for an array when its thread ends.               *)
emutls_destroy(t) ==
  /\ live' = [live EXCEPT ![t] = @ \ Freed(arr[t])]
  /\ arr' = [arr EXCEPT ![t] = <<>>]
  /\ given' = [given EXCEPT ![t] = [o \in Objects |-> NULL]]

=============================================================================
