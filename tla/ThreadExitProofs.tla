-------------------------- MODULE ThreadExitProofs --------------------------
(***************************************************************************)
(* Proofs about emulated TLS, whatever variables threads use and however   *)
(* they end: the objects are numbered soundly; addresses are stable and    *)
(* storage is freed; registered destructors run, once, in order and on     *)
(* storage that is still there.                                            *)
(***************************************************************************)
EXTENDS ThreadExit, TLAPS

Locations == {"out", "once", "lock", "number", "unlock", "slot", "abort"}

\* The words that numbering works on.
NumberTypeOK ==
  /\ offset \in [Objects -> Nat]
  /\ emutls_size \in Nat
  /\ at \in [Threads -> Locations]
  /\ obj \in [Threads -> Objects \cup {NoObject}]
  /\ off \in [Threads -> Nat]

\* Only the holder of the mutex is between the second test and the unlock.
OneInside == \A t \in Threads : at[t] \in {"number", "unlock"} => emutls_mutex = t

\* A thread in the call has an object; past the numbering, a number.
Working ==
  \A t \in Threads :
    /\ at[t] \in {"once", "lock", "number", "unlock", "slot"} => obj[t] \in Objects
    /\ at[t] \in {"unlock", "slot"} => off[t] # 0

\* No offset has been given out beyond emutls_size.
GivenOut == \A o \in Objects : offset[o] <= emutls_size

NumberInv == NumberTypeOK /\ OneInside /\ Working /\ GivenOut /\ OneOffset

-----------------------------------------------------------------------------
\* Nothing is numbered and nobody is in the call at first.
LEMMA NumberInit == ThreadExitInit => NumberInv
  BY ThreadExitAssumption
  DEF ThreadExitInit, EmutlsInit, NumberInv, NumberTypeOK, OneInside, Working, GivenOut, OneOffset,
      Locations

\* The unlocked load: what it finds is the object's offset, for good.
LEMMA GetKeepsInv ==
  ASSUME NumberInv, NEW t \in Threads, NEW o \in Objects, Get(t, o)
  PROVE  NumberInv'
  BY DEF NumberInv, NumberTypeOK, OneInside, Working, GivenOut, OneOffset, Locations, Get, Goto,
         numbering, storage

\* The key is created, the mutex taken.
LEMMA OnceLockKeepInv ==
  ASSUME NumberInv, NEW t \in Threads, Once(t) \/ Lock(t), NoThread \notin Threads
  PROVE  NumberInv'
  BY DEF NumberInv, NumberTypeOK, OneInside, Working, GivenOut, OneOffset, Locations, Once, Lock,
         Goto, storage

(* The second test and the new offset, which is above all that were given  *)
(* out; nobody else is in between, and who is past it has another object.  *)
LEMMA NumberKeepsInv ==
  ASSUME NumberInv, NEW t \in Threads, Number(t)
  PROVE  NumberInv'
<1>1. CASE StillZero(t)
  <2>1. /\ at[t] = "number" /\ obj[t] \in Objects /\ offset[obj[t]] = 0
        /\ \A u \in Threads : at[u] = "unlock" => u = t
    BY <1>1 DEF Number, Goto, StillZero, NumberInv, Working, OneInside
  <2>2. /\ emutls_size' = emutls_size + 1
        /\ offset' = [offset EXCEPT ![obj[t]] = emutls_size + 1]
        /\ off' = [off EXCEPT ![t] = emutls_size + 1]
        /\ at' = [at EXCEPT ![t] = "unlock"]
        /\ UNCHANGED <<emutls_mutex, obj>>
    BY <1>1 DEF Number, Goto, StillZero
  <2>3. NumberTypeOK'
    BY <2>1, <2>2 DEF NumberInv, NumberTypeOK, Locations
  <2>4. OneInside' /\ Working'
    BY <2>1, <2>2 DEF NumberInv, NumberTypeOK, OneInside, Working, Locations
  <2>5. GivenOut'
    BY <2>1, <2>2 DEF NumberInv, NumberTypeOK, GivenOut
  <2>6. OneOffset'
    <3>1. \A o, p \in Objects : offset'[o] # 0 /\ offset'[o] = offset'[p] => o = p
      BY <2>1, <2>2 DEF NumberInv, NumberTypeOK, GivenOut, OneOffset
    <3>2. \A u \in Threads : at'[u] \in {"unlock", "slot"} => off'[u] = offset'[obj'[u]]
      BY <2>1, <2>2 DEF NumberInv, NumberTypeOK, Working, OneOffset
    <3> QED
      BY <3>1, <3>2 DEF OneOffset
  <2> QED
    BY <2>3, <2>4, <2>5, <2>6 DEF NumberInv
<1>2. CASE ~StillZero(t)
  <2>1. /\ at[t] = "number" /\ offset[obj[t]] # 0
        /\ off' = [off EXCEPT ![t] = offset[obj[t]]]
        /\ at' = [at EXCEPT ![t] = "unlock"]
        /\ UNCHANGED <<offset, emutls_size, emutls_mutex, obj>>
    BY <1>2 DEF Number, Goto, StillZero
  <2> QED
    BY <2>1 DEF NumberInv, NumberTypeOK, OneInside, Working, GivenOut, OneOffset, Locations
<1> QED
  BY <1>1, <1>2

\* The mutex is released, the thread's own part follows.
LEMMA UnlockSlotKeepInv ==
  ASSUME NumberInv, NEW t \in Threads, Unlock(t) \/ Slot(t) \/ OutOfMemory(t), NoThread \notin Threads
  PROVE  NumberInv'
<1>1. CASE Unlock(t)
  BY <1>1 DEF NumberInv, NumberTypeOK, OneInside, Working, GivenOut, OneOffset, Locations, Unlock,
              Goto, storage
<1>2. CASE Slot(t)
  BY <1>2 DEF NumberInv, NumberTypeOK, OneInside, Working, GivenOut, OneOffset, Locations, Slot,
              Goto, numbering
<1>3. CASE OutOfMemory(t)
  BY <1>3 DEF NumberInv, NumberTypeOK, OneInside, Working, GivenOut, OneOffset, Locations,
              OutOfMemory, numbering, storage
<1> QED
  BY <1>1, <1>2, <1>3

\* Nothing else touches the words of the numbering.
LEMMA OthersKeepInv ==
  ASSUME NumberInv, UNCHANGED <<numbering, at, obj, off>>
  PROVE  NumberInv'
  BY DEF NumberInv, NumberTypeOK, OneInside, Working, GivenOut, OneOffset, numbering

(* Every step keeps the numbering of the objects.                          *)
LEMMA NumberNext == NumberInv /\ [ThreadExitNext]_vars => NumberInv'
<1> SUFFICES ASSUME NumberInv, [ThreadExitNext]_vars
             PROVE  NumberInv'
  OBVIOUS
<1> USE EmutlsAssumption, ThreadExitAssumption
<1>1. CASE UNCHANGED vars
  BY <1>1, OthersKeepInv DEF vars, emutlsVars
<1>2. ASSUME NEW t \in Threads, NEW o \in Names[t], Use(t, o) \/ Register(t, o)
      PROVE  NumberInv'
  <2>1. o \in Objects
    BY <1>2
  <2>2. CASE Use(t, o)
    BY <2>1, <2>2, GetKeepsInv DEF Use
  <2>3. CASE Register(t, o)
    BY <2>3, OthersKeepInv DEF Register, emutlsVars
  <2> QED
    BY <1>2, <2>2, <2>3
<1>3. ASSUME NEW t \in Threads, Access(t)
      PROVE  NumberInv'
  BY <1>3, OnceLockKeepInv, NumberKeepsInv, UnlockSlotKeepInv DEF Access, GetStep
<1>4. ASSUME NEW t \in Threads,
             \/ CallDestructor(t) \/ NextElement(t) \/ Exit(t) \/ DeleteKey(t) \/ End(t)
             \/ Round(t) \/ Over(t)
      PROVE  NumberInv'
  BY <1>4, OthersKeepInv
  DEF CallDestructor, NextElement, Exit, DeleteKey, End, Round, Over, emutlsVars
<1>5. ASSUME NEW t \in Threads, NEW k \in {"list", "storage"}, Visit(t, k)
      PROVE  NumberInv'
  BY <1>5, OthersKeepInv DEF Visit, emutlsVars
<1> QED
  BY <1>1, <1>2, <1>3, <1>4, <1>5 DEF ThreadExitNext

(* For any threads and variables, and however threads end: every object    *)
(* has one offset for good, no two have the same, and __emutls_get_address *)
(* goes on with the offset its object has, with or without the mutex.      *)
THEOREM NumberingSafe == ThreadExitSpec => []OneOffset
<1>1. NumberInv => OneOffset
  BY DEF NumberInv
<1> QED
  BY <1>1, NumberInit, NumberNext, PTL DEF ThreadExitSpec

-----------------------------------------------------------------------------
\* The arrays and the blocks.
StorageTypeOK ==
  /\ arr \in [Threads -> Seq(Blocks \cup {NULL})]
  /\ live \in [Threads -> SUBSET Blocks]
  /\ given \in [Threads -> [Objects -> Blocks \cup {NULL}]]

\* The blocks of a thread are those in its slots, each in one slot.
SlotsOK ==
  \A t \in Threads :
    /\ live[t] = BlocksOf(arr[t])
    /\ \A i, j \in DOMAIN arr[t] : arr[t][i] # NULL /\ arr[t][i] = arr[t][j] => i = j

\* What a thread was given is in the slot of its object.
GivenOK ==
  \A t \in Threads, o \in Objects :
    given[t][o] # NULL => /\ offset[o] \in DOMAIN arr[t]
                          /\ arr[t][offset[o]] = given[t][o]

StorageInv == StorageTypeOK /\ SlotsOK /\ GivenOK

(* The threads begin without storage.                                      *)
LEMMA StorageInit == ThreadExitInit => StorageInv
  BY DEF ThreadExitInit, EmutlsInit, StorageInv, StorageTypeOK, SlotsOK, GivenOK, BlocksOf, NULL

\* An offset is only ever set once.
LEMMA NumberKeepsStorage ==
  ASSUME NumberInv, StorageInv, NEW t \in Threads, Number(t)
  PROVE  StorageInv'
<1>1. UNCHANGED <<arr, live, given>>
  BY DEF Number, storage
<1>2. \A o \in Objects : offset[o] # 0 => offset'[o] = offset[o]
  BY DEF Number, StillZero, NumberInv, NumberTypeOK
<1>3. \A u \in Threads, o \in Objects : given[u][o] # NULL => offset[o] # 0
  BY DEF StorageInv, StorageTypeOK, GivenOK
<1> QED
  BY <1>1, <1>2, <1>3 DEF StorageInv, StorageTypeOK, SlotsOK, GivenOK, BlocksOf

(* The array as it is used: what it had is where it was, the rest is       *)
(* empty, and it has the slot that is asked for.                           *)
LEMMA GrownIsRight ==
  ASSUME NumberInv, StorageInv, NEW t \in Threads, at[t] = "slot"
  PROVE  /\ Grown(t) \in Seq(Blocks \cup {NULL})
         /\ DOMAIN arr[t] \subseteq DOMAIN Grown(t)
         /\ \A i \in DOMAIN arr[t] : Grown(t)[i] = arr[t][i]
         /\ \A i \in DOMAIN Grown(t) \ DOMAIN arr[t] : Grown(t)[i] = NULL
         /\ off[t] \in DOMAIN Grown(t)
<1> DEFINE old == Len(arr[t])
           size == IF MustGrow(t) THEN NewSize(old, off[t]) ELSE old
<1>1. /\ arr[t] \in Seq(Blocks \cup {NULL}) /\ old \in Nat /\ DOMAIN arr[t] = 1..old
      /\ off[t] \in Nat /\ off[t] # 0
  BY DEF NumberInv, NumberTypeOK, Working, StorageInv, StorageTypeOK
<1>2. size \in Nat /\ old <= size /\ off[t] <= size
  BY <1>1, EmutlsAssumption DEF MustGrow, NewSize
<1>3. Grown(t) = [i \in 1..size |-> IF i <= old THEN arr[t][i] ELSE NULL]
  BY DEF Grown
<1>4. \A i \in 1..size : (IF i <= old THEN arr[t][i] ELSE NULL) \in Blocks \cup {NULL}
  BY <1>1, <1>2
<1> HIDE DEF size, old
<1>5. Grown(t) \in Seq(Blocks \cup {NULL})
  BY <1>2, <1>3, <1>4
<1> QED
  BY <1>1, <1>2, <1>3, <1>5

(* The slot is filled with a block that is not in use, if it is empty; the *)
(* other slots keep theirs, and no other object has this slot.             *)
LEMMA SlotKeepsStorage ==
  ASSUME NumberInv, StorageInv, NEW t \in Threads, Slot(t)
  PROVE  StorageInv'
<1> DEFINE n == off[t]
           o == obj[t]
           ret == IF Grown(t)[n] = NULL THEN Malloc(t) ELSE Grown(t)[n]
           a == [Grown(t) EXCEPT ![n] = ret]
<1>1. /\ at[t] = "slot" /\ o \in Objects /\ n = offset[o] /\ n # 0
      /\ Grown(t)[n] = NULL => \E b \in Blocks : b \notin live[t]
      /\ arr' = [arr EXCEPT ![t] = a]
      /\ live' = [live EXCEPT ![t] = IF Grown(t)[n] = NULL THEN live[t] \cup {ret} ELSE live[t]]
      /\ given' = [given EXCEPT ![t][o] = ret]
      /\ offset' = offset
  BY DEF Slot, Goto, numbering, NumberInv, Working, OneOffset
<1>2. /\ Grown(t) \in Seq(Blocks \cup {NULL})
      /\ DOMAIN arr[t] \subseteq DOMAIN Grown(t)
      /\ \A i \in DOMAIN arr[t] : Grown(t)[i] = arr[t][i]
      /\ \A i \in DOMAIN Grown(t) \ DOMAIN arr[t] : Grown(t)[i] = NULL
      /\ n \in DOMAIN Grown(t)
  BY <1>1, GrownIsRight
<1>3. Grown(t)[n] = NULL => Malloc(t) \in Blocks /\ Malloc(t) \notin live[t]
  BY <1>1 DEF Malloc
<1>4. NULL \notin Blocks
  BY EmutlsAssumption DEF Blocks, NULL
<1>5. ret \in Blocks
  BY <1>2, <1>3
<1>6. /\ a \in Seq(Blocks \cup {NULL}) /\ DOMAIN a = DOMAIN Grown(t)
      /\ a[n] = ret /\ \A i \in DOMAIN a \ {n} : a[i] = Grown(t)[i]
  BY <1>2, <1>5
<1>7. /\ live[t] = {arr[t][i] : i \in DOMAIN arr[t]} \ {NULL} /\ live[t] \subseteq Blocks
      /\ \A i, j \in DOMAIN arr[t] : arr[t][i] # NULL /\ arr[t][i] = arr[t][j] => i = j
  BY DEF StorageInv, StorageTypeOK, SlotsOK, BlocksOf
<1>8. arr'[t] = a /\ given'[t] = [given[t] EXCEPT ![o] = ret]
      /\ live'[t] = IF Grown(t)[n] = NULL THEN live[t] \cup {ret} ELSE live[t]
  BY <1>1 DEF StorageInv, StorageTypeOK
<1>9. \A u \in Threads \ {t} : arr'[u] = arr[u] /\ given'[u] = given[u] /\ live'[u] = live[u]
  BY <1>1 DEF StorageInv, StorageTypeOK
<1> HIDE DEF a, ret, n, o
<1>10. StorageTypeOK'
  BY <1>1, <1>5, <1>6, <1>7 DEF StorageInv, StorageTypeOK
<1>11. live'[t] = BlocksOf(arr'[t])
  BY <1>2, <1>4, <1>5, <1>6, <1>7, <1>8 DEF BlocksOf, ret
<1>12. \A i, j \in DOMAIN a : a[i] # NULL /\ a[i] = a[j] => i = j
  BY <1>2, <1>3, <1>6, <1>7 DEF ret
<1>13. SlotsOK'
  BY <1>8, <1>9, <1>11, <1>12 DEF StorageInv, SlotsOK, BlocksOf
<1>14. GivenOK'
  <2> SUFFICES ASSUME NEW u \in Threads, NEW p \in Objects, given'[u][p] # NULL
               PROVE  offset'[p] \in DOMAIN arr'[u] /\ arr'[u][offset'[p]] = given'[u][p]
    BY DEF GivenOK
  <2>1. CASE u # t
    BY <2>1, <1>1, <1>9 DEF StorageInv, GivenOK
  <2>2. CASE u = t /\ p = o
    BY <2>2, <1>1, <1>2, <1>6, <1>8 DEF StorageInv, StorageTypeOK
  <2>3. CASE u = t /\ p # o
    <3>1. offset[p] \in DOMAIN arr[t] /\ arr[t][offset[p]] = given[t][p] /\ given'[t][p] = given[t][p]
      BY <2>3, <1>8 DEF StorageInv, StorageTypeOK, GivenOK
    <3>2. offset[p] # n
      BY <2>3, <1>1 DEF NumberInv, OneOffset
    <3> QED
      BY <3>1, <3>2, <2>3, <1>1, <1>2, <1>6, <1>8
  <2> QED
    BY <2>1, <2>2, <2>3
<1> QED
  BY <1>10, <1>13, <1>14 DEF StorageInv

\* emutls_destroy frees every block of the array that it is given.
LEMMA DestroyKeepsStorage ==
  ASSUME StorageInv, NEW t \in Threads, emutls_destroy(t), offset' = offset
  PROVE  StorageInv'
<1>1. Freed(arr[t]) = live[t]
  BY DEF Freed, BlocksOf, StorageInv, StorageTypeOK, SlotsOK
<1>2. arr'[t] = <<>> /\ live'[t] = {} /\ given'[t] = [o \in Objects |-> NULL]
  BY <1>1 DEF emutls_destroy, StorageInv, StorageTypeOK
<1>3. \A u \in Threads \ {t} : arr'[u] = arr[u] /\ given'[u] = given[u] /\ live'[u] = live[u]
  BY DEF emutls_destroy, StorageInv, StorageTypeOK
<1>4. StorageTypeOK'
  BY DEF emutls_destroy, StorageInv, StorageTypeOK, NULL
<1>5. BlocksOf(<<>>) = {}
  BY DEF BlocksOf
<1>6. SlotsOK'
  BY <1>2, <1>3, <1>5 DEF StorageInv, SlotsOK, BlocksOf
<1>7. GivenOK'
  BY <1>2, <1>3 DEF StorageInv, GivenOK
<1> QED
  BY <1>4, <1>6, <1>7 DEF StorageInv

\* Nothing else touches the storage.
LEMMA OthersKeepStorage ==
  ASSUME StorageInv, UNCHANGED <<offset, storage>>
  PROVE  StorageInv'
  BY DEF StorageInv, StorageTypeOK, SlotsOK, GivenOK, BlocksOf, storage

(* Every step keeps the storage of the threads in order.                   *)
LEMMA StorageNext == NumberInv /\ StorageInv /\ [ThreadExitNext]_vars => StorageInv'
<1> SUFFICES ASSUME NumberInv, StorageInv, [ThreadExitNext]_vars
             PROVE  StorageInv'
  OBVIOUS
<1>1. CASE UNCHANGED vars
  BY <1>1, OthersKeepStorage DEF vars, emutlsVars, numbering
<1>2. ASSUME NEW t \in Threads, NEW o \in Names[t], Use(t, o) \/ Register(t, o)
      PROVE  StorageInv'
  BY <1>2, OthersKeepStorage DEF Use, Get, Register, emutlsVars, numbering
<1>3. ASSUME NEW t \in Threads, Access(t)
      PROVE  StorageInv'
  <2>1. CASE Number(t)
    BY <2>1, NumberKeepsStorage
  <2>2. CASE Slot(t)
    BY <2>2, SlotKeepsStorage
  <2>3. CASE Once(t) \/ Lock(t) \/ Unlock(t) \/ OutOfMemory(t)
    BY <2>3, OthersKeepStorage DEF Once, Lock, Unlock, OutOfMemory, numbering
  <2> QED
    BY <1>3, <2>1, <2>2, <2>3 DEF Access, GetStep
<1>4. ASSUME NEW t \in Threads,
             \/ CallDestructor(t) \/ NextElement(t) \/ Exit(t) \/ DeleteKey(t) \/ End(t)
             \/ Round(t) \/ Over(t)
      PROVE  StorageInv'
  BY <1>4, OthersKeepStorage
  DEF CallDestructor, NextElement, Exit, DeleteKey, End, Round, Over, emutlsVars, numbering
<1>5. ASSUME NEW t \in Threads, NEW k \in {"list", "storage"}, Visit(t, k)
      PROVE  StorageInv'
  <2>1. CASE UNCHANGED emutlsVars
    BY <2>1, OthersKeepStorage DEF emutlsVars, numbering
  <2>2. CASE emutls_destroy(t) /\ UNCHANGED numbering
    BY <2>2, DestroyKeepsStorage DEF numbering
  <2> QED
    BY <1>5, <2>1, <2>2 DEF Visit
<1> QED
  BY <1>1, <1>2, <1>3, <1>4, <1>5 DEF ThreadExitNext

-----------------------------------------------------------------------------
\* The words of a thread's life.
LifeTypeOK ==
  /\ phase \in [Threads -> {"running", "exit", "ending", "over"}]
  /\ at \in [Threads -> Locations]
  /\ e = [t \in Threads |-> e[t]]
  /\ rounds = [t \in Threads |-> rounds[t]]
  /\ arr = [t \in Threads |-> arr[t]]

(* A thread is in __emutls_get_address only from code of the program, in a *)
(* destructor only from run, and in run only while it ends.                *)
Nesting ==
  \A t \in Threads :
    /\ at[t] # "out" => phase[t] = "running" \/ t \in inside
    /\ t \in inside => e[t] # <<>>
    /\ phase[t] \in {"running", "over"} => e[t] = <<>>

\* When a thread is gone its array has been freed, unless kLIBC gave up.
ArrayFreed ==
  \A t \in Threads :
    /\ phase[t] = "exit" => t = Main
    /\ phase[t] = "over" /\ t # Main => arr[t] = <<>> \/ rounds[t] = MaxRounds

LifeInv == LifeTypeOK /\ Nesting /\ ArrayFreed

(* The threads begin outside of the functions.                             *)
LEMMA LifeInit == ThreadExitInit => LifeInv
  BY DEF ThreadExitInit, EmutlsInit, LifeInv, LifeTypeOK, Nesting, ArrayFreed, Locations

\* A thread that asks for an address is not gone.
LEMMA AccessKeepsLife ==
  ASSUME LifeInv, NEW t \in Threads, UNCHANGED exitVars,
         at[t] # "out" \/ phase[t] = "running" \/ t \in inside,
         NEW w \in Locations, at' = [at EXCEPT ![t] = w],
         NEW a, arr' = arr \/ arr' = [arr EXCEPT ![t] = a]
  PROVE  LifeInv'
<1>1. phase[t] # "over"
  BY DEF LifeInv, Nesting
<1>2. UNCHANGED <<phase, e, inside, rounds>>
  BY DEF exitVars
<1>3. LifeTypeOK'
  BY <1>2 DEF LifeInv, LifeTypeOK
<1>4. Nesting'
  BY <1>2 DEF LifeInv, LifeTypeOK, Nesting
<1>5. \A u \in Threads : phase[u] = "over" => arr'[u] = arr[u]
  BY <1>1 DEF LifeInv, LifeTypeOK
<1>6. ArrayFreed'
  BY <1>2, <1>5 DEF LifeInv, ArrayFreed
<1> QED
  BY <1>3, <1>4, <1>6 DEF LifeInv

(* Every step keeps the nesting of the functions.                          *)
LEMMA LifeNext == LifeInv /\ [ThreadExitNext]_vars => LifeInv'
<1> SUFFICES ASSUME LifeInv, [ThreadExitNext]_vars
             PROVE  LifeInv'
  OBVIOUS
<1>1. CASE UNCHANGED vars
  BY <1>1 DEF vars, emutlsVars, exitVars, storage, LifeInv, LifeTypeOK, Nesting, ArrayFreed
<1>2. ASSUME NEW t \in Threads, NEW o \in Names[t], Use(t, o)
      PROVE  LifeInv'
  <2>1. PICK w \in Locations : at' = [at EXCEPT ![t] = w]
    BY <1>2 DEF Use, Get, Goto, Locations
  <2>2. UNCHANGED <<exitVars, arr>> /\ (phase[t] = "running" \/ t \in inside)
    BY <1>2 DEF Use, Get, InProgram, storage
  <2> QED
    BY <2>1, <2>2, AccessKeepsLife
<1>3. ASSUME NEW t \in Threads, NEW o \in Names[t], Register(t, o)
      PROVE  LifeInv'
  BY <1>3 DEF Register, emutlsVars, storage, LifeInv, LifeTypeOK, Nesting, ArrayFreed
<1>4. ASSUME NEW t \in Threads, Access(t)
      PROVE  LifeInv'
  <2>1. UNCHANGED exitVars /\ at[t] # "out"
    BY <1>4 DEF Access, GetStep, Once, Lock, Number, Unlock, Slot, OutOfMemory, Goto
  <2>2. \E w \in Locations : at' = [at EXCEPT ![t] = w]
    BY <1>4 DEF Access, GetStep, Once, Lock, Number, Unlock, Slot, OutOfMemory, Goto, Locations
  <2>3. \E a : arr' = arr \/ arr' = [arr EXCEPT ![t] = a]
    <3>1. CASE Slot(t)
      BY <3>1 DEF Slot
    <3>2. CASE Once(t) \/ Lock(t) \/ Number(t) \/ Unlock(t) \/ OutOfMemory(t)
      BY <3>2 DEF Once, Lock, Number, Unlock, OutOfMemory, storage
    <3> QED
      BY <1>4, <3>1, <3>2 DEF Access, GetStep
  <2> QED
    BY <2>1, <2>2, <2>3, AccessKeepsLife
<1>5. ASSUME NEW t \in Threads, CallDestructor(t) \/ NextElement(t)
      PROVE  LifeInv'
  BY <1>5 DEF CallDestructor, NextElement, emutlsVars, storage, LifeInv, LifeTypeOK, Nesting, ArrayFreed
<1>6. ASSUME NEW t \in Threads, Exit(t)
      PROVE  LifeInv'
  BY <1>6 DEF Exit, TakeList, ListToRun, emutlsVars, storage, LifeInv, LifeTypeOK, Nesting, ArrayFreed
<1>7. ASSUME NEW t \in Threads, DeleteKey(t) \/ End(t) \/ Over(t)
      PROVE  LifeInv'
  BY <1>7 DEF DeleteKey, End, Over, Between, HasValue, emutlsVars, storage,
              LifeInv, LifeTypeOK, Nesting, ArrayFreed
<1>8. ASSUME NEW t \in Threads, Round(t)
      PROVE  LifeInv'
  BY <1>8 DEF Round, Between, emutlsVars, storage, LifeInv, LifeTypeOK, Nesting, ArrayFreed
<1>9. ASSUME NEW t \in Threads, NEW k \in {"list", "storage"}, Visit(t, k)
      PROVE  LifeInv'
  BY <1>9 DEF Visit, Between, PassList, ListToRun, emutls_destroy, emutlsVars, storage,
              LifeInv, LifeTypeOK, Nesting, ArrayFreed
<1> QED
  BY <1>1, <1>2, <1>3, <1>4, <1>5, <1>6, <1>7, <1>8, <1>9 DEF ThreadExitNext

-----------------------------------------------------------------------------
\* What the invariants say of addresses.
LEMMA InvAddressStable == NumberInv /\ StorageInv => AddressStable
<1> SUFFICES ASSUME NumberInv, StorageInv
             PROVE  AddressStable
  OBVIOUS
<1>1. \A t \in Threads : InBounds(t)
  BY GrownIsRight DEF InBounds
<1>2. ASSUME NEW t \in Threads, NEW o \in Objects, given[t][o] # NULL
      PROVE  /\ offset[o] \in DOMAIN arr[t] /\ arr[t][offset[o]] = given[t][o]
             /\ given[t][o] \in live[t]
             /\ \A p \in Objects : given[t][p] = given[t][o] => p = o
  <2>1. offset[o] \in DOMAIN arr[t] /\ arr[t][offset[o]] = given[t][o]
    BY <1>2 DEF StorageInv, GivenOK
  <2>2. given[t][o] \in live[t]
    BY <1>2, <2>1 DEF StorageInv, SlotsOK, BlocksOf
  <2>3. offset[o] # 0
    BY <2>1 DEF StorageInv, StorageTypeOK
  <2>4. ASSUME NEW p \in Objects, given[t][p] = given[t][o]
        PROVE  p = o
    <3>1. offset[p] \in DOMAIN arr[t] /\ arr[t][offset[p]] = given[t][p]
      BY <1>2, <2>4 DEF StorageInv, GivenOK
    <3>2. offset[p] = offset[o]
      BY <3>1, <2>1, <2>4, <1>2 DEF StorageInv, SlotsOK
    <3> QED
      BY <3>2, <2>3 DEF NumberInv, OneOffset
  <2> QED
    BY <2>1, <2>2, <2>4
<1> QED
  BY <1>1, <1>2 DEF AddressStable

(* For any threads, variables, array sizes and destructor orders: the      *)
(* address of a thread-local variable stays valid, in its slot and its     *)
(* own while its thread lives, however emutls.c grows the array; and no    *)
(* slot is looked for outside of the array.                                *)
THEOREM AddressesSafe == ThreadExitSpec => []AddressStable
  BY InvAddressStable, NumberInit, NumberNext, StorageInit, StorageNext, PTL DEF ThreadExitSpec

(* For any threads, variables and destructor orders: every block that      *)
(* emutls_alloc made is in a slot until it is freed, and emutls_destroy    *)
(* has freed the array of a thread that is gone unless kLIBC gave up.      *)
THEOREM NoStorageLost == ThreadExitSpec => []NothingLeaks
<1>1. StorageInv /\ LifeInv => NothingLeaks
  BY DEF StorageInv, SlotsOK, LifeInv, ArrayFreed, NothingLeaks
<1> QED
  BY <1>1, NumberInit, NumberNext, StorageInit, StorageNext, LifeInit, LifeNext, PTL DEF ThreadExitSpec

-----------------------------------------------------------------------------
\* The words that neither numbering nor storage depends on.
KeysTypeOK ==
  /\ emutls_key \in BOOLEAN
  /\ emutls_mutex \in Threads \cup {NoThread}
  /\ key \in {"none", "live", "deleted"}

(* Every step keeps the types of the keys.                                 *)
LEMMA KeysNext == KeysTypeOK /\ [ThreadExitNext]_vars => KeysTypeOK'
<1> SUFFICES ASSUME KeysTypeOK, [ThreadExitNext]_vars
             PROVE  KeysTypeOK'
  OBVIOUS
<1> USE DEF KeysTypeOK, emutlsVars, numbering, exitVars
<1>1. CASE UNCHANGED vars
  BY <1>1 DEF vars
<1>2. ASSUME NEW t \in Threads, NEW o \in Names[t], Use(t, o) \/ Register(t, o)
      PROVE  KeysTypeOK'
  BY <1>2 DEF Use, Get, Register
<1>3. ASSUME NEW t \in Threads, Access(t)
      PROVE  KeysTypeOK'
  BY <1>3 DEF Access, GetStep, Once, Lock, Number, Unlock, Slot, OutOfMemory
<1>4. ASSUME NEW t \in Threads,
             \/ CallDestructor(t) \/ NextElement(t) \/ Exit(t) \/ DeleteKey(t) \/ End(t)
             \/ Round(t) \/ Over(t)
      PROVE  KeysTypeOK'
  BY <1>4 DEF CallDestructor, NextElement, Exit, DeleteKey, End, Round, Over
<1>5. ASSUME NEW t \in Threads, NEW k \in {"list", "storage"}, Visit(t, k)
      PROVE  KeysTypeOK'
  BY <1>5 DEF Visit
<1> QED
  BY <1>1, <1>2, <1>3, <1>4, <1>5 DEF ThreadExitNext

(* The words of emutls.c and of atexit_thread.cc keep their types, for any *)
(* program.                                                                *)
THEOREM TypesRight == ThreadExitSpec => []ThreadExitTypeOK
<1>1. ThreadExitInit => KeysTypeOK
  BY DEF ThreadExitInit, EmutlsInit, KeysTypeOK
<1>2. NumberInv /\ StorageInv /\ LifeInv /\ KeysTypeOK => ThreadExitTypeOK
  BY DEF NumberInv, NumberTypeOK, StorageInv, StorageTypeOK, LifeInv, LifeTypeOK, KeysTypeOK,
         ThreadExitTypeOK
<1> QED
  BY <1>1, <1>2, KeysNext, NumberInit, NumberNext, StorageInit, StorageNext, LifeInit, LifeNext, PTL
  DEF ThreadExitSpec

-----------------------------------------------------------------------------
(* The destructors.  A cleanup of t is in its list, in the list e that run *)
(* goes through, or has run; the first of e runs while t is inside.        *)
Cleanup == [object : Objects, block : Blocks, late : BOOLEAN]
Past == [object : Objects, late : BOOLEAN, intact : BOOLEAN]

ObjectsOf(s) == {s[i].object : i \in DOMAIN s}

Distinct(s) == \A i, j \in DOMAIN s : s[i].object = s[j].object => i = j

\* The early cleanups of s have been registered in the opposite order.
Reversed(s, b) ==
  \A i, j \in DOMAIN s, k, l \in DOMAIN b :
    s[i].object = b[k].object /\ s[j].object = b[l].object /\ ~s[i].late /\ ~s[j].late /\ i < j => k > l

\* The list l, the rest s of run's list, r that have run, b that were registered.
Apart(l, s, r, b, in) ==
  /\ Distinct(l) /\ Distinct(s) /\ Distinct(r) /\ Distinct(b)
  /\ ObjectsOf(l) \cup ObjectsOf(s) \cup ObjectsOf(r) \subseteq ObjectsOf(b)
  /\ ObjectsOf(l) \cap (ObjectsOf(s) \cup ObjectsOf(r)) = {}
  /\ in => s # <<>> /\ s[1].object \in ObjectsOf(r)
  /\ \A m \in DOMAIN s : s[m].object \in ObjectsOf(r) => in /\ m = 1

Ordered(l, s, r, b, in) ==
  /\ Reversed(l, b) /\ Reversed(s, b) /\ Reversed(r, b)
  /\ \A i \in DOMAIN r, j \in DOMAIN s, k, n \in DOMAIN b :
       /\ r[i].object = b[k].object /\ s[j].object = b[n].object
       /\ ~r[i].late /\ ~s[j].late /\ ~(in /\ j = 1)
       => k > n
  /\ s # <<>> \/ r # <<>> => \A i \in DOMAIN l : l[i].late

CleanupTypeOK ==
  /\ list \in [Threads -> Seq(Cleanup)] /\ e \in [Threads -> Seq(Cleanup)]
  /\ built \in [Threads -> Seq(Cleanup)] /\ ran \in [Threads -> Seq(Past)]
  /\ inside \subseteq Threads
  /\ first \in {"list", "storage"} /\ key \in {"none", "live", "deleted"}
  /\ visits \in [Threads -> SUBSET {"list", "storage"}]

\* Where the cleanups of t are.
Accounted(t) ==
  /\ Apart(list[t], e[t], ran[t], built[t], t \in inside)
  /\ Ordered(list[t], e[t], ran[t], built[t], t \in inside)
  /\ phase[t] = "running" => ran[t] = <<>>
  /\ key = "none" => list[t] = <<>>
  /\ key # "deleted" => ObjectsOf(built[t]) \subseteq ObjectsOf(list[t]) \cup ObjectsOf(e[t]) \cup ObjectsOf(ran[t])
  /\ t = Main /\ phase[t] \in {"exit", "over"} =>
       \A k \in DOMAIN built[t] : built[t][k].late \/ built[t][k].object \in ObjectsOf(e[t]) \cup ObjectsOf(ran[t])
  /\ t # Main /\ phase[t] = "over" /\ key # "deleted" /\ rounds[t] < MaxRounds => list[t] = <<>>

\* The variable of an early cleanup that is still to run is where it was.
Intact(t) ==
  /\ first = "list" \/ t = Main =>
       /\ \A i \in DOMAIN e[t] : e[t][i].late \/ given[t][e[t][i].object] = e[t][i].block
       /\ key = "live" => \A i \in DOMAIN list[t] : list[t][i].late \/ given[t][list[t][i].object] = list[t][i].block
       /\ \A i \in DOMAIN ran[t] : ran[t][i].late \/ ran[t][i].intact
  /\ phase[t] = "ending" /\ first = "list" /\ visits[t] = {"storage"} /\ key = "live" =>
       \A i \in DOMAIN list[t] : list[t][i].late
  /\ phase[t] = "running" => visits[t] = {}

\* Only the thread that calls exit deletes the key.
MainInv == phase[Main] # "ending" /\ (key = "deleted" => phase[Main] = "over")

CleanupInv == CleanupTypeOK /\ MainInv /\ \A t \in Threads : Accounted(t) /\ Intact(t)

-----------------------------------------------------------------------------
\* The sequences one element longer or shorter.
LEMMA PushFacts ==
  ASSUME NEW C, NEW s \in Seq(C), NEW x \in C
  PROVE  /\ <<x>> \o s \in Seq(C) /\ DOMAIN (<<x>> \o s) = 1..(Len(s) + 1) /\ DOMAIN s = 1..Len(s)
         /\ (<<x>> \o s)[1] = x /\ \A i \in 2..(Len(s) + 1) : i - 1 \in DOMAIN s /\ (<<x>> \o s)[i] = s[i - 1]
  OBVIOUS

(* Appending to a sequence.                                                *)
LEMMA AddFacts ==
  ASSUME NEW C, NEW s \in Seq(C), NEW x \in C
  PROVE  /\ Append(s, x) \in Seq(C) /\ DOMAIN Append(s, x) = 1..(Len(s) + 1) /\ DOMAIN s = 1..Len(s)
         /\ Len(s) \in Nat /\ Append(s, x)[Len(s) + 1] = x /\ \A i \in DOMAIN s : Append(s, x)[i] = s[i]
  OBVIOUS

(* Taking the head off a sequence.                                         *)
LEMMA TailFacts ==
  ASSUME NEW C, NEW s \in Seq(C), s # <<>>
  PROVE  /\ Tail(s) \in Seq(C) /\ DOMAIN Tail(s) = 1..(Len(s) - 1) /\ DOMAIN s = 1..Len(s)
         /\ Len(s) \in Nat /\ Len(s) >= 1 /\ Head(s) = s[1] /\ Head(s) \in C
         /\ \A i \in DOMAIN Tail(s) : i + 1 \in DOMAIN s /\ Tail(s)[i] = s[i + 1]
  OBVIOUS

(* The objects of a list with one more cleanup in front.                   *)
LEMMA PushObjects ==
  ASSUME NEW C, NEW s \in Seq(C), NEW x \in C
  PROVE  /\ ObjectsOf(<<x>> \o s) = ObjectsOf(s) \cup {x.object}
         /\ Distinct(s) /\ x.object \notin ObjectsOf(s) => Distinct(<<x>> \o s)
<1> DEFINE p == <<x>> \o s
<1>1. /\ DOMAIN p = 1..(Len(s) + 1) /\ DOMAIN s = 1..Len(s) /\ Len(s) \in Nat
      /\ p[1] = x /\ \A i \in 2..(Len(s) + 1) : i - 1 \in DOMAIN s /\ p[i] = s[i - 1]
  BY PushFacts
<1> HIDE DEF p
<1>2. \A i \in DOMAIN s : i + 1 \in 2..(Len(s) + 1) /\ p[i + 1] = s[i]
  BY <1>1
<1>3. \A i \in DOMAIN p : i = 1 \/ i \in 2..(Len(s) + 1)
  BY <1>1
<1>4. ObjectsOf(p) = ObjectsOf(s) \cup {x.object}
  <2>1. ObjectsOf(p) \subseteq ObjectsOf(s) \cup {x.object}
    BY <1>1, <1>3 DEF ObjectsOf
  <2>2. x.object \in ObjectsOf(p)
    BY <1>1 DEF ObjectsOf
  <2>3. ObjectsOf(s) \subseteq ObjectsOf(p)
    BY <1>1, <1>2 DEF ObjectsOf
  <2> QED
    BY <2>1, <2>2, <2>3
<1>5. ASSUME Distinct(s), x.object \notin ObjectsOf(s)
      PROVE  Distinct(p)
  <2> SUFFICES ASSUME NEW i \in DOMAIN p, NEW j \in DOMAIN p, p[i].object = p[j].object
               PROVE  i = j
    BY DEF Distinct
  <2>1. CASE i = 1 /\ j # 1
    BY <1>1, <1>3, <1>5, <2>1 DEF ObjectsOf
  <2>2. CASE i # 1 /\ j = 1
    BY <1>1, <1>3, <1>5, <2>2 DEF ObjectsOf
  <2>3. CASE i # 1 /\ j # 1
    <3>1. i \in 2..(Len(s) + 1) /\ j \in 2..(Len(s) + 1)
      BY <1>3, <2>3
    <3>2. i - 1 = j - 1
      BY <1>1, <1>5, <3>1 DEF Distinct
    <3> QED
      BY <3>1, <3>2
  <2> QED
    BY <2>1, <2>2, <2>3
<1> QED
  BY <1>4, <1>5 DEF p

(* The objects of a sequence with one more cleanup at its end.             *)
LEMMA AddObjects ==
  ASSUME NEW C, NEW s \in Seq(C), NEW x \in C
  PROVE  /\ ObjectsOf(Append(s, x)) = ObjectsOf(s) \cup {x.object}
         /\ Distinct(s) /\ x.object \notin ObjectsOf(s) => Distinct(Append(s, x))
<1> DEFINE p == Append(s, x)
<1>1. /\ DOMAIN p = 1..(Len(s) + 1) /\ DOMAIN s = 1..Len(s) /\ Len(s) \in Nat
      /\ p[Len(s) + 1] = x /\ \A i \in DOMAIN s : p[i] = s[i]
  BY AddFacts
<1> HIDE DEF p
<1>2. (\A i \in DOMAIN p : i = Len(s) + 1 \/ i \in DOMAIN s) /\ DOMAIN s \subseteq DOMAIN p /\ Len(s) + 1 \in DOMAIN p
  BY <1>1
<1>3. ObjectsOf(p) = ObjectsOf(s) \cup {x.object}
  BY <1>1, <1>2 DEF ObjectsOf
<1>4. ASSUME Distinct(s), x.object \notin ObjectsOf(s)
      PROVE  Distinct(p)
  BY <1>1, <1>2, <1>4 DEF Distinct, ObjectsOf
<1> QED
  BY <1>3, <1>4 DEF p

(* The objects of a list without its head.                                 *)
LEMMA TailObjects ==
  ASSUME NEW C, NEW s \in Seq(C), s # <<>>, Distinct(s)
  PROVE  /\ ObjectsOf(s) = ObjectsOf(Tail(s)) \cup {s[1].object} /\ Distinct(Tail(s))
         /\ s[1].object \notin ObjectsOf(Tail(s))
<1> DEFINE p == Tail(s)
<1>1. /\ DOMAIN p = 1..(Len(s) - 1) /\ DOMAIN s = 1..Len(s) /\ Len(s) \in Nat /\ Len(s) >= 1
      /\ \A i \in DOMAIN p : i + 1 \in DOMAIN s /\ p[i] = s[i + 1]
  BY TailFacts
<1> HIDE DEF p
<1>2. 1 \in DOMAIN s /\ \A i \in DOMAIN s : i = 1 \/ (i - 1 \in DOMAIN p /\ s[i] = p[i - 1])
  BY <1>1
<1>3. ObjectsOf(s) = ObjectsOf(p) \cup {s[1].object}
  <2>1. ObjectsOf(p) \subseteq ObjectsOf(s)
    BY <1>1 DEF ObjectsOf
  <2>2. ObjectsOf(s) \subseteq ObjectsOf(p) \cup {s[1].object}
    BY <1>2 DEF ObjectsOf
  <2>3. s[1].object \in ObjectsOf(s)
    BY <1>2 DEF ObjectsOf
  <2> QED
    BY <2>1, <2>2, <2>3
<1>4. Distinct(p)
  <2> SUFFICES ASSUME NEW i \in DOMAIN p, NEW j \in DOMAIN p, p[i].object = p[j].object
               PROVE  i = j
    BY DEF Distinct
  <2>1. i + 1 = j + 1
    BY <1>1 DEF Distinct
  <2> QED
    BY <1>1, <2>1
<1>5. s[1].object \notin ObjectsOf(p)
  <2> SUFFICES ASSUME NEW i \in DOMAIN p, p[i].object = s[1].object
               PROVE  FALSE
    BY DEF ObjectsOf
  <2>1. i + 1 = 1
    BY <1>1, <1>2 DEF Distinct
  <2> QED
    BY <1>1, <2>1
<1> QED
  BY <1>3, <1>4, <1>5 DEF p

-----------------------------------------------------------------------------
(* A new cleanup is registered: it is in the list and nowhere else, or     *)
(* lost when the key has been deleted.                                     *)
LEMMA RegisterApart ==
  ASSUME NEW l \in Seq(Cleanup), NEW s \in Seq(Cleanup), NEW r \in Seq(Past), NEW b \in Seq(Cleanup),
         NEW in \in BOOLEAN, NEW x \in Cleanup, x.object \notin ObjectsOf(b), Apart(l, s, r, b, in)
  PROVE  Apart(<<x>> \o l, s, r, Append(b, x), in) /\ Apart(l, s, r, Append(b, x), in)
<1> DEFINE c == Append(b, x)
           p == <<x>> \o l
<1>1. ObjectsOf(c) = ObjectsOf(b) \cup {x.object} /\ Distinct(c)
  BY AddObjects DEF Apart
<1>2. x.object \notin ObjectsOf(l) \cup ObjectsOf(s) \cup ObjectsOf(r)
  BY DEF Apart
<1>3. ObjectsOf(p) = ObjectsOf(l) \cup {x.object} /\ Distinct(p)
  BY <1>2, PushObjects DEF Apart
<1> HIDE DEF c, p
<1>4. Apart(p, s, r, c, in) /\ Apart(l, s, r, c, in)
  BY <1>1, <1>2, <1>3 DEF Apart
<1> QED
  BY <1>4 DEF c, p

\* run takes the list.
LEMMA TakeApart ==
  ASSUME NEW l, NEW s, NEW r, NEW b, s = <<>>, Apart(l, s, r, b, FALSE)
  PROVE  Apart(<<>>, l, r, b, FALSE)
<1>1. ObjectsOf(<<>>) = {} /\ Distinct(<<>>)
  BY DEF ObjectsOf, Distinct
<1> QED
  BY <1>1 DEF Apart, ObjectsOf

\* A destructor is called.
LEMMA CallApart ==
  ASSUME NEW l \in Seq(Cleanup), NEW s \in Seq(Cleanup), NEW r \in Seq(Past), NEW b \in Seq(Cleanup),
         s # <<>>, NEW y \in Past, y.object = s[1].object, Apart(l, s, r, b, FALSE)
  PROVE  Apart(l, s, Append(r, y), b, TRUE)
<1> DEFINE p == Append(r, y)
<1>0. 1 \in DOMAIN s
  BY TailFacts
<1>1. s[1].object \in ObjectsOf(s) /\ s[1].object \notin ObjectsOf(r)
  BY <1>0 DEF Apart, ObjectsOf
<1>2. ObjectsOf(p) = ObjectsOf(r) \cup {s[1].object} /\ Distinct(p)
  BY <1>1, AddObjects DEF Apart
<1> HIDE DEF p
<1>3. \A m \in DOMAIN s : s[m].object \in ObjectsOf(p) => m = 1
  BY <1>0, <1>2 DEF Apart, Distinct
<1>4. Apart(l, s, p, b, TRUE)
  BY <1>1, <1>2, <1>3 DEF Apart
<1> QED
  BY <1>4 DEF p

\* It returns.
LEMMA NextApart ==
  ASSUME NEW l \in Seq(Cleanup), NEW s \in Seq(Cleanup), NEW r \in Seq(Past), NEW b \in Seq(Cleanup),
         Apart(l, s, r, b, TRUE)
  PROVE  Apart(l, Tail(s), r, b, FALSE) /\ ObjectsOf(s) \subseteq ObjectsOf(Tail(s)) \cup ObjectsOf(r)
<1> DEFINE p == Tail(s)
<1>0. s # <<>> /\ s[1].object \in ObjectsOf(r) /\ Distinct(s)
  BY DEF Apart
<1>1. ObjectsOf(s) = ObjectsOf(p) \cup {s[1].object} /\ Distinct(p) /\ s[1].object \notin ObjectsOf(p)
  BY <1>0, TailObjects
<1>2. /\ Len(s) \in Nat /\ DOMAIN p = 1..(Len(s) - 1)
      /\ \A i \in DOMAIN p : i + 1 \in DOMAIN s /\ p[i] = s[i + 1]
  BY <1>0, TailFacts
<1> HIDE DEF p
<1>3. \A m \in DOMAIN p : p[m].object \notin ObjectsOf(r)
  <2> SUFFICES ASSUME NEW m \in DOMAIN p, p[m].object \in ObjectsOf(r)
               PROVE  FALSE
    OBVIOUS
  <2>1. m + 1 = 1 /\ m \in 1..(Len(s) - 1)
    BY <1>2 DEF Apart
  <2> QED
    BY <1>2, <2>1
<1>4. Apart(l, p, r, b, FALSE)
  BY <1>1, <1>3 DEF Apart
<1> QED
  BY <1>0, <1>1, <1>4 DEF p

-----------------------------------------------------------------------------
\* What is registered later does not change the order of what was there.
LEMMA ReversedStays ==
  ASSUME NEW s, NEW b, NEW c, Reversed(s, b),
         \A i \in DOMAIN s, k \in DOMAIN c : s[i].object = c[k].object => k \in DOMAIN b /\ c[k] = b[k]
  PROVE  Reversed(s, c)
  BY DEF Reversed

\* The latest is registered last and is the first of the list.
LEMMA RegisterOrdered ==
  ASSUME NEW l \in Seq(Cleanup), NEW s \in Seq(Cleanup), NEW r \in Seq(Past), NEW b \in Seq(Cleanup),
         NEW in \in BOOLEAN, NEW x \in Cleanup, x.object \notin ObjectsOf(b),
         Apart(l, s, r, b, in), Ordered(l, s, r, b, in), x.late \/ (s = <<>> /\ r = <<>>)
  PROVE  Ordered(<<x>> \o l, s, r, Append(b, x), in) /\ Ordered(l, s, r, Append(b, x), in)
<1> DEFINE c == Append(b, x)
           p == <<x>> \o l
<1>1. /\ DOMAIN c = 1..(Len(b) + 1) /\ DOMAIN b = 1..Len(b) /\ Len(b) \in Nat
      /\ c[Len(b) + 1] = x /\ \A i \in DOMAIN b : c[i] = b[i]
  BY AddFacts
<1>2. /\ DOMAIN p = 1..(Len(l) + 1) /\ DOMAIN l = 1..Len(l) /\ Len(l) \in Nat
      /\ p[1] = x /\ \A i \in 2..(Len(l) + 1) : i - 1 \in DOMAIN l /\ p[i] = l[i - 1]
  BY PushFacts
<1> HIDE DEF c, p
<1>3. \A i \in DOMAIN c : i \in DOMAIN b \/ (i = Len(b) + 1 /\ c[i] = x)
  BY <1>1
<1>4. \A q : q \in ObjectsOf(l) \cup ObjectsOf(s) \cup ObjectsOf(r) =>
        \A i \in DOMAIN c : q = c[i].object => i \in DOMAIN b /\ c[i] = b[i]
  BY <1>1, <1>3 DEF Apart
<1>5. Reversed(l, c) /\ Reversed(s, c) /\ Reversed(r, c)
  <2>1. \A i \in DOMAIN l, k \in DOMAIN c : l[i].object = c[k].object => k \in DOMAIN b /\ c[k] = b[k]
    BY <1>4 DEF ObjectsOf
  <2>2. \A i \in DOMAIN s, k \in DOMAIN c : s[i].object = c[k].object => k \in DOMAIN b /\ c[k] = b[k]
    BY <1>4 DEF ObjectsOf
  <2>3. \A i \in DOMAIN r, k \in DOMAIN c : r[i].object = c[k].object => k \in DOMAIN b /\ c[k] = b[k]
    BY <1>4 DEF ObjectsOf
  <2>4. Reversed(l, b) /\ Reversed(s, b) /\ Reversed(r, b)
    BY DEF Ordered
  <2> QED
    BY <2>1, <2>2, <2>3, <2>4, ReversedStays
<1>6. Reversed(p, c)
  <2> SUFFICES ASSUME NEW i \in DOMAIN p, NEW j \in DOMAIN p, NEW k \in DOMAIN c, NEW n \in DOMAIN c,
                      p[i].object = c[k].object, p[j].object = c[n].object, ~p[i].late, ~p[j].late, i < j
               PROVE  k > n
    BY DEF Reversed
  <2>0. i \in 1..(Len(l) + 1) /\ j \in 2..(Len(l) + 1) /\ k \in 1..(Len(b) + 1) /\ n \in 1..(Len(b) + 1)
    BY <1>1, <1>2
  <2>1. j - 1 \in DOMAIN l /\ p[j] = l[j - 1]
    BY <1>2, <2>0
  <2>2. n \in DOMAIN b
    BY <1>4, <2>1 DEF ObjectsOf
  <2>3. CASE i = 1
    <3>1. k = Len(b) + 1
      <4>1. c[k].object = x.object
        BY <1>2, <2>3
      <4>2. k \notin DOMAIN b
        BY <1>1, <4>1 DEF ObjectsOf
      <4> QED
        BY <1>3, <4>2
    <3> QED
      BY <1>1, <2>2, <3>1
  <2>4. CASE i # 1
    <3>1. i - 1 \in DOMAIN l /\ p[i] = l[i - 1] /\ i - 1 < j - 1
      BY <1>2, <2>0, <2>4
    <3>2. Reversed(l, c)
      BY <1>5
    <3> QED
      BY <2>1, <3>1, <3>2 DEF Reversed
  <2> QED
    BY <2>3, <2>4
<1>7. \A i \in DOMAIN r, j \in DOMAIN s, k, n \in DOMAIN c :
        /\ r[i].object = c[k].object /\ s[j].object = c[n].object
        /\ ~r[i].late /\ ~s[j].late /\ ~(in /\ j = 1)
        => k > n
  <2>1. \A i \in DOMAIN s : s[i].object \in ObjectsOf(s)
    BY DEF ObjectsOf
  <2>2. \A i \in DOMAIN r : r[i].object \in ObjectsOf(r)
    BY DEF ObjectsOf
  <2> QED
    BY <1>4, <2>1, <2>2 DEF Ordered
<1>8. s # <<>> \/ r # <<>> => \A i \in DOMAIN p : p[i].late
  <2> SUFFICES ASSUME s # <<>> \/ r # <<>>, NEW i \in DOMAIN p
               PROVE  p[i].late
    OBVIOUS
  <2>1. CASE i = 1
    BY <1>2, <2>1
  <2>2. CASE i # 1
    <3>1. i - 1 \in DOMAIN l /\ p[i] = l[i - 1]
      BY <1>2, <2>2
    <3> QED
      BY <3>1 DEF Ordered
  <2> QED
    BY <2>1, <2>2
<1>9. Ordered(p, s, r, c, in) /\ Ordered(l, s, r, c, in)
  BY <1>5, <1>6, <1>7, <1>8 DEF Ordered
<1> QED
  BY <1>9 DEF c, p

(* run takes over the whole list when it has nothing left to do.           *)
LEMMA TakeOrdered ==
  ASSUME NEW l, NEW s, NEW r, NEW b, s = <<>>, Ordered(l, s, r, b, FALSE)
  PROVE  Ordered(<<>>, l, r, b, FALSE)
<1>1. Reversed(<<>>, b)
  BY DEF Reversed
<1>2. \A i \in DOMAIN r, j \in DOMAIN l : l[j].late
  <2>1. \A i \in DOMAIN r : r # <<>>
    OBVIOUS
  <2> QED
    BY <2>1 DEF Ordered
<1> QED
  BY <1>1, <1>2 DEF Ordered

(* run calls the destructor at the head of its list.                       *)
LEMMA CallOrdered ==
  ASSUME NEW l \in Seq(Cleanup), NEW s \in Seq(Cleanup), NEW r \in Seq(Past), NEW b \in Seq(Cleanup),
         s # <<>>, NEW y \in Past, y.object = s[1].object, y.late = s[1].late, Ordered(l, s, r, b, FALSE)
  PROVE  Ordered(l, s, Append(r, y), b, TRUE)
<1> DEFINE p == Append(r, y)
<1>0. /\ 1 \in DOMAIN s /\ DOMAIN s = 1..Len(s) /\ Len(s) \in Nat
  BY TailFacts
<1>1. /\ DOMAIN p = 1..(Len(r) + 1) /\ DOMAIN r = 1..Len(r) /\ Len(r) \in Nat
      /\ p[Len(r) + 1] = y /\ \A i \in DOMAIN r : p[i] = r[i]
  BY AddFacts
<1> HIDE DEF p
<1>2. \A i \in DOMAIN p : (i \in DOMAIN r /\ p[i] = r[i]) \/ (i = Len(r) + 1 /\ p[i] = y)
  BY <1>1
<1>3. Reversed(p, b)
  <2> SUFFICES ASSUME NEW i \in DOMAIN p, NEW j \in DOMAIN p, NEW k \in DOMAIN b, NEW n \in DOMAIN b,
                      p[i].object = b[k].object, p[j].object = b[n].object, ~p[i].late, ~p[j].late, i < j
               PROVE  k > n
    BY DEF Reversed
  <2>1. i \in DOMAIN r /\ p[i] = r[i]
    BY <1>1
  <2>2. CASE j \in DOMAIN r
    BY <1>1, <2>1, <2>2 DEF Ordered, Reversed
  <2>3. CASE j = Len(r) + 1 /\ p[j] = y
    BY <1>0, <2>1, <2>3 DEF Ordered
  <2> QED
    BY <1>2, <2>2, <2>3
<1>4. \A i \in DOMAIN p, j \in DOMAIN s, k, n \in DOMAIN b :
        /\ p[i].object = b[k].object /\ s[j].object = b[n].object
        /\ ~p[i].late /\ ~s[j].late /\ ~(TRUE /\ j = 1)
        => k > n
  <2> SUFFICES ASSUME NEW i \in DOMAIN p, NEW j \in DOMAIN s, NEW k \in DOMAIN b, NEW n \in DOMAIN b,
                      p[i].object = b[k].object, s[j].object = b[n].object, ~p[i].late, ~s[j].late, j # 1
               PROVE  k > n
    OBVIOUS
  <2>1. CASE i \in DOMAIN r /\ p[i] = r[i]
    BY <2>1 DEF Ordered
  <2>2. CASE p[i] = y
    <3>1. 1 < j
      BY <1>0
    <3> QED
      BY <1>0, <2>2, <3>1 DEF Ordered, Reversed
  <2> QED
    BY <1>2, <2>1, <2>2
<1>5. Ordered(l, s, p, b, TRUE)
  BY <1>3, <1>4 DEF Ordered
<1> QED
  BY <1>5 DEF p

(* run goes on to the next cleanup.                                        *)
LEMMA NextOrdered ==
  ASSUME NEW l \in Seq(Cleanup), NEW s \in Seq(Cleanup), NEW r \in Seq(Past), NEW b \in Seq(Cleanup),
         s # <<>>, Ordered(l, s, r, b, TRUE)
  PROVE  Ordered(l, Tail(s), r, b, FALSE)
<1> DEFINE p == Tail(s)
<1>1. /\ Len(s) \in Nat /\ DOMAIN p = 1..(Len(s) - 1)
      /\ \A i \in DOMAIN p : i + 1 \in DOMAIN s /\ p[i] = s[i + 1]
  BY TailFacts
<1> HIDE DEF p
<1>2. Reversed(p, b)
  <2> SUFFICES ASSUME NEW i \in DOMAIN p, NEW j \in DOMAIN p, NEW k \in DOMAIN b, NEW n \in DOMAIN b,
                      p[i].object = b[k].object, p[j].object = b[n].object, ~p[i].late, ~p[j].late, i < j
               PROVE  k > n
    BY DEF Reversed
  <2>1. i + 1 < j + 1
    BY <1>1
  <2> QED
    BY <1>1, <2>1 DEF Ordered, Reversed
<1>3. \A i \in DOMAIN r, j \in DOMAIN p, k, n \in DOMAIN b :
        r[i].object = b[k].object /\ p[j].object = b[n].object /\ ~r[i].late /\ ~p[j].late => k > n
  <2> SUFFICES ASSUME NEW i \in DOMAIN r, NEW j \in DOMAIN p, NEW k \in DOMAIN b, NEW n \in DOMAIN b,
                      r[i].object = b[k].object, p[j].object = b[n].object, ~r[i].late, ~p[j].late
               PROVE  k > n
    OBVIOUS
  <2>1. j + 1 # 1
    BY <1>1
  <2> QED
    BY <1>1, <2>1 DEF Ordered
<1>4. Ordered(l, p, r, b, FALSE)
  BY <1>2, <1>3 DEF Ordered
<1> QED
  BY <1>4 DEF p

-----------------------------------------------------------------------------
\* A thread of which nothing changes, when another registers its first or deletes the key.
LEMMA SameCleanups ==
  ASSUME CleanupInv, NEW u \in Threads,
         UNCHANGED <<first, list[u], e[u], ran[u], built[u], phase[u], rounds[u], visits[u]>>,
         u \in inside' <=> u \in inside,
         key' = key \/ (key = "none" /\ key' = "live") \/ (key = "live" /\ key' = "deleted"),
         \A o \in Objects : given[u][o] # NULL => given'[u][o] = given[u][o]
  PROVE  Accounted(u)' /\ Intact(u)'
<1>1. Accounted(u) /\ Intact(u)
  BY DEF CleanupInv
<1>2. (u \in inside)' = (u \in inside)
  OBVIOUS
<1>3. Apart(list[u], e[u], ran[u], built[u], u \in inside)' /\ Ordered(list[u], e[u], ran[u], built[u], u \in inside)'
  BY <1>1, <1>2 DEF Accounted, Apart, Ordered
<1>4. Accounted(u)'
  BY <1>1, <1>3 DEF Accounted
<1>a. \A c \in Cleanup : c.object \in Objects /\ c.block # NULL
  BY EmutlsAssumption DEF Cleanup, Blocks, NULL
<1>b. e[u] \in Seq(Cleanup) /\ list[u] \in Seq(Cleanup)
  BY DEF CleanupInv, CleanupTypeOK
<1>5. \A i \in DOMAIN e[u] : e[u][i].object \in Objects /\ e[u][i].block # NULL
  <2>1. \A i \in DOMAIN e[u] : e[u][i] \in Cleanup
    BY <1>b
  <2> QED
    BY <1>a, <2>1
<1>6. \A i \in DOMAIN list[u] : list[u][i].object \in Objects /\ list[u][i].block # NULL
  <2>1. \A i \in DOMAIN list[u] : list[u][i] \in Cleanup
    BY <1>b
  <2> QED
    BY <1>a, <2>1
<1>7. key' = "live" => key = "live" \/ list[u] = <<>>
  BY <1>1 DEF Accounted
<1>8. Intact(u)'
  BY <1>1, <1>5, <1>6, <1>7 DEF Intact
<1> QED
  BY <1>4, <1>8

\* Nobody's variables move while their storage is there.
LEMMA GivenStays ==
  ASSUME NumberInv, StorageInv, NEW t \in Threads, Slot(t)
  PROVE  \A u \in Threads, p \in Objects : given[u][p] # NULL => given'[u][p] = given[u][p]
<1> DEFINE n == off[t]
           o == obj[t]
           ret == IF Grown(t)[n] = NULL THEN Malloc(t) ELSE Grown(t)[n]
<1>1. at[t] = "slot" /\ o \in Objects /\ n = offset[o] /\ given' = [given EXCEPT ![t][o] = ret]
  BY DEF Slot, Goto, NumberInv, Working, OneOffset
<1>2. \A i \in DOMAIN arr[t] : Grown(t)[i] = arr[t][i]
  BY <1>1, GrownIsRight
<1>3. given[t][o] # NULL => ret = given[t][o]
  BY <1>1, <1>2 DEF StorageInv, GivenOK
<1> HIDE DEF ret, o
<1> QED
  BY <1>1, <1>3 DEF StorageInv, StorageTypeOK

(* A thread that uses its variables leaves the cleanups and the storage    *)
(* they refer to alone.                                                    *)
LEMMA AccessKeepsCleanups ==
  ASSUME CleanupInv, NumberInv, StorageInv, UNCHANGED exitVars, UNCHANGED given \/ \E t \in Threads : Slot(t)
  PROVE  CleanupInv'
<1>1. UNCHANGED <<first, key, list, e, inside, phase, visits, rounds, built, ran>>
  BY DEF exitVars
<1>2. \A u \in Threads, p \in Objects : given[u][p] # NULL => given'[u][p] = given[u][p]
  BY GivenStays
<1>3. \A u \in Threads : Accounted(u)' /\ Intact(u)'
  BY <1>1, <1>2, SameCleanups
<1>4. CleanupTypeOK' /\ MainInv'
  BY <1>1 DEF CleanupInv, CleanupTypeOK, MainInv
<1> QED
  BY <1>3, <1>4 DEF CleanupInv

\* What a step finds in its thread.
LEMMA ThreadFacts ==
  ASSUME CleanupInv, LifeInv, StorageInv, NEW t \in Threads
  PROVE  /\ list[t] \in Seq(Cleanup) /\ e[t] \in Seq(Cleanup) /\ built[t] \in Seq(Cleanup) /\ ran[t] \in Seq(Past)
         /\ phase[t] \in {"running", "exit", "ending", "over"}
         /\ Accounted(t) /\ Intact(t)
         /\ phase[t] \in {"running", "over"} => e[t] = <<>>
         /\ e[t] = <<>> => t \notin inside
         /\ phase[t] = "running" => ran[t] = <<>> /\ e[t] = <<>>
         /\ \A o \in Objects : given[t][o] \in Blocks \cup {NULL}
  BY DEF CleanupInv, CleanupTypeOK, LifeInv, LifeTypeOK, Nesting, Accounted, StorageInv, StorageTypeOK

\* A step of t that leaves the storage and the other threads alone.
LEMMA OthersKeepCleanups ==
  ASSUME CleanupInv, NEW t \in Threads, UNCHANGED first,
         \A u \in Threads : u # t =>
           /\ UNCHANGED <<list[u], e[u], ran[u], built[u], phase[u], rounds[u], visits[u], given[u]>>
           /\ u \in inside' <=> u \in inside,
         key' = key \/ (key = "none" /\ key' = "live") \/ (key = "live" /\ key' = "deleted"),
         CleanupTypeOK', MainInv', Accounted(t)', Intact(t)'
  PROVE  CleanupInv'
<1>1. \A u \in Threads : u # t => Accounted(u)' /\ Intact(u)'
  BY SameCleanups
<1> QED
  BY <1>1 DEF CleanupInv

\* __cxa_thread_atexit.
LEMMA RegisterKeepsCleanups ==
  ASSUME CleanupInv, LifeInv, StorageInv, NEW t \in Threads, NEW o \in Objects, Register(t, o)
  PROVE  CleanupInv'
<1> DEFINE x == [object |-> o, block |-> given[t][o], late |-> phase[t] # "running"]
<1>1. /\ InProgram(t) /\ given[t][o] # NULL /\ \A c \in Elements(built[t]) : c.object # o
      /\ key' = IF key = "none" THEN "live" ELSE key
      /\ list' = IF key' = "live" THEN [list EXCEPT ![t] = <<x>> \o list[t]] ELSE list
      /\ built' = [built EXCEPT ![t] = Append(built[t], x)]
      /\ UNCHANGED <<given, first, e, inside, phase, visits, rounds, ran>>
  BY DEF Register, Pushed, emutlsVars, storage
<1>2. /\ list[t] \in Seq(Cleanup) /\ e[t] \in Seq(Cleanup) /\ built[t] \in Seq(Cleanup) /\ ran[t] \in Seq(Past)
      /\ Accounted(t) /\ Intact(t)
      /\ phase[t] = "running" => ran[t] = <<>> /\ e[t] = <<>>
      /\ phase[t] = "over" => e[t] = <<>>
      /\ e[t] = <<>> => t \notin inside
      /\ given[t][o] \in Blocks
      /\ key \in {"none", "live", "deleted"}
  BY <1>1, ThreadFacts DEF CleanupInv, CleanupTypeOK
<1>3. x \in Cleanup /\ x.object = o /\ x.block = given[t][o] /\ (x.late <=> phase[t] # "running")
  BY <1>2 DEF Cleanup
<1>4. o \notin ObjectsOf(built[t])
  BY <1>1 DEF ObjectsOf, Elements
<1> HIDE DEF x
<1>5. /\ <<x>> \o list[t] \in Seq(Cleanup) /\ Append(built[t], x) \in Seq(Cleanup)
      /\ ObjectsOf(<<x>> \o list[t]) = ObjectsOf(list[t]) \cup {o}
      /\ ObjectsOf(Append(built[t], x)) = ObjectsOf(built[t]) \cup {o}
      /\ \A k \in DOMAIN Append(built[t], x) :
           Append(built[t], x)[k] = x \/ (k \in DOMAIN built[t] /\ Append(built[t], x)[k] = built[t][k])
      /\ \A k \in DOMAIN (<<x>> \o list[t]) :
           (<<x>> \o list[t])[k] = x \/ (k - 1 \in DOMAIN list[t] /\ (<<x>> \o list[t])[k] = list[t][k - 1])
  <2>1. ObjectsOf(<<x>> \o list[t]) = ObjectsOf(list[t]) \cup {o}
    BY <1>2, <1>3, PushObjects
  <2>2. ObjectsOf(Append(built[t], x)) = ObjectsOf(built[t]) \cup {o}
    BY <1>2, <1>3, AddObjects
  <2> QED
    BY <1>2, <1>3, <2>1, <2>2
<1>6. CleanupTypeOK'
  BY <1>1, <1>5 DEF CleanupInv, CleanupTypeOK
<1>7. built'[t] = Append(built[t], x) /\ list'[t] = IF key' = "live" THEN <<x>> \o list[t] ELSE list[t]
  BY <1>1 DEF CleanupInv, CleanupTypeOK
<1>8. \A u \in Threads : u # t => built'[u] = built[u] /\ list'[u] = list[u]
  BY <1>1 DEF CleanupInv, CleanupTypeOK
<1>9. MainInv'
  BY <1>1 DEF CleanupInv, MainInv
<1>10. Apart(list[t], e[t], ran[t], built[t], t \in inside)'
  <2>1. Apart(list[t], e[t], ran[t], built[t], t \in inside) /\ (t \in inside) \in BOOLEAN
    BY <1>2 DEF Accounted
  <2>2. /\ Apart(<<x>> \o list[t], e[t], ran[t], Append(built[t], x), t \in inside)
        /\ Apart(list[t], e[t], ran[t], Append(built[t], x), t \in inside)
    BY <1>2, <1>3, <1>4, <2>1, RegisterApart
  <2> QED
    BY <1>1, <1>7, <2>2
<1>11. Ordered(list[t], e[t], ran[t], built[t], t \in inside)'
  <2>1. /\ Apart(list[t], e[t], ran[t], built[t], t \in inside) /\ (t \in inside) \in BOOLEAN
        /\ Ordered(list[t], e[t], ran[t], built[t], t \in inside)
    BY <1>2 DEF Accounted
  <2>2. x.late \/ (e[t] = <<>> /\ ran[t] = <<>>)
    BY <1>2, <1>3
  <2>3. /\ Ordered(<<x>> \o list[t], e[t], ran[t], Append(built[t], x), t \in inside)
        /\ Ordered(list[t], e[t], ran[t], Append(built[t], x), t \in inside)
    BY <1>2, <1>3, <1>4, <2>1, <2>2, RegisterOrdered
  <2> QED
    BY <1>1, <1>7, <2>3
<1>12. Accounted(t)'
  <2>1. phase[t] # "over"
    BY <1>1, <1>2 DEF InProgram
  <2>2. key' # "none"
    BY <1>1, <1>2
  <2>3. key' # "deleted" => ObjectsOf(built'[t]) \subseteq ObjectsOf(list'[t]) \cup ObjectsOf(e[t]) \cup ObjectsOf(ran[t])
    <3>1. key' # "deleted" => key # "deleted" /\ key' = "live"
      BY <1>1, <1>2
    <3> QED
      BY <1>2, <1>5, <1>7, <3>1 DEF Accounted
  <2>4. t = Main /\ phase[t] \in {"exit", "over"} =>
          \A k \in DOMAIN built'[t] :
            built'[t][k].late \/ built'[t][k].object \in ObjectsOf(e[t]) \cup ObjectsOf(ran[t])
    BY <1>2, <1>3, <1>5, <1>7 DEF Accounted
  <2> QED
    BY <1>1, <1>2, <1>10, <1>11, <2>1, <2>2, <2>3, <2>4 DEF Accounted
<1>13. Intact(t)'
  <2>1. key' = "live" => list'[t] = <<x>> \o list[t] /\ (key = "live" \/ list[t] = <<>>)
    BY <1>1, <1>2, <1>7 DEF Accounted
  <2>a. key' = "live" =>
          \A i \in DOMAIN list'[t] : list'[t][i] = x \/ (key = "live" /\ \E j \in DOMAIN list[t] : list'[t][i] = list[t][j])
    <3> SUFFICES ASSUME key' = "live", NEW i \in DOMAIN list'[t], list'[t][i] # x
                 PROVE  key = "live" /\ \E j \in DOMAIN list[t] : list'[t][i] = list[t][j]
      OBVIOUS
    <3>1. i - 1 \in DOMAIN list[t] /\ list'[t][i] = list[t][i - 1]
      BY <1>5, <2>1
    <3> QED
      BY <2>1, <3>1
  <2>2. first = "list" \/ t = Main => (key' = "live" =>
          \A i \in DOMAIN list'[t] : list'[t][i].late \/ given[t][list'[t][i].object] = list'[t][i].block)
    BY <1>2, <1>3, <2>1, <2>a DEF Intact
  <2>3. phase[t] = "ending" /\ first = "list" /\ visits[t] = {"storage"} /\ key' = "live" =>
          \A i \in DOMAIN list'[t] : list'[t][i].late
    BY <1>2, <1>3, <2>1, <2>a DEF Intact
  <2> QED
    BY <1>1, <1>2, <2>2, <2>3 DEF Intact
<1> QED
  BY <1>1, <1>2, <1>6, <1>8, <1>9, <1>12, <1>13, OthersKeepCleanups

\* A destructor is called.
LEMMA CallKeepsCleanups ==
  ASSUME CleanupInv, LifeInv, StorageInv, NEW t \in Threads, CallDestructor(t)
  PROVE  CleanupInv'
<1> DEFINE c == Head(e[t])
           y == [object |-> c.object, late |-> c.late, intact |-> given[t][c.object] = c.block]
<1>1. /\ e[t] # <<>> /\ t \notin inside /\ inside' = inside \cup {t}
      /\ ran' = [ran EXCEPT ![t] = Append(ran[t], y)]
      /\ UNCHANGED <<given, first, key, list, e, phase, visits, rounds, built>>
  BY DEF CallDestructor, emutlsVars, storage
<1>2. /\ list[t] \in Seq(Cleanup) /\ e[t] \in Seq(Cleanup) /\ built[t] \in Seq(Cleanup) /\ ran[t] \in Seq(Past)
      /\ Accounted(t) /\ Intact(t) /\ phase[t] \notin {"running", "over"}
  BY <1>1, ThreadFacts
<1>3. c = e[t][1] /\ c \in Cleanup /\ 1 \in DOMAIN e[t]
  BY <1>1, <1>2, TailFacts
<1>4. /\ y \in Past /\ y.object = e[t][1].object /\ y.late = e[t][1].late
      /\ y.intact <=> given[t][c.object] = c.block
  BY <1>3 DEF Past, Cleanup
<1>5. (first = "list" \/ t = Main) => y.late \/ y.intact
  BY <1>2, <1>3, <1>4 DEF Intact
<1> HIDE DEF y, c
<1>6. /\ Append(ran[t], y) \in Seq(Past) /\ ObjectsOf(ran[t]) \subseteq ObjectsOf(Append(ran[t], y))
      /\ \A k \in DOMAIN Append(ran[t], y) :
           Append(ran[t], y)[k] = y \/ (k \in DOMAIN ran[t] /\ Append(ran[t], y)[k] = ran[t][k])
  <2>1. ObjectsOf(ran[t]) \subseteq ObjectsOf(Append(ran[t], y))
    BY <1>2, <1>4, AddObjects
  <2> QED
    BY <1>2, <1>4, <2>1
<1>7. CleanupTypeOK' /\ MainInv'
  BY <1>1, <1>6 DEF CleanupInv, CleanupTypeOK, MainInv
<1>8. ran'[t] = Append(ran[t], y) /\ \A u \in Threads : u # t => ran'[u] = ran[u]
  BY <1>1 DEF CleanupInv, CleanupTypeOK
<1>9. (t \in inside) = FALSE /\ (t \in inside)' = TRUE
  BY <1>1
<1>10. /\ Apart(list[t], e[t], ran[t], built[t], t \in inside)'
       /\ Ordered(list[t], e[t], ran[t], built[t], t \in inside)'
  <2>1. Apart(list[t], e[t], ran[t], built[t], FALSE) /\ Ordered(list[t], e[t], ran[t], built[t], FALSE)
    BY <1>2, <1>9 DEF Accounted
  <2>2. /\ Apart(list[t], e[t], Append(ran[t], y), built[t], TRUE)
        /\ Ordered(list[t], e[t], Append(ran[t], y), built[t], TRUE)
    BY <1>1, <1>2, <1>4, <2>1, CallApart, CallOrdered
  <2> QED
    BY <1>1, <1>8, <1>9, <2>2
<1>11. Accounted(t)'
  BY <1>1, <1>2, <1>6, <1>8, <1>10 DEF Accounted
<1>12. Intact(t)'
  BY <1>1, <1>2, <1>5, <1>6, <1>8 DEF Intact
<1> QED
  BY <1>1, <1>7, <1>8, <1>11, <1>12, OthersKeepCleanups

\* It returns, and run goes on.
LEMMA NextKeepsCleanups ==
  ASSUME CleanupInv, LifeInv, StorageInv, NEW t \in Threads, NextElement(t)
  PROVE  CleanupInv'
<1>1. /\ t \in inside /\ inside' = inside \ {t} /\ e' = [e EXCEPT ![t] = Tail(e[t])]
      /\ UNCHANGED <<given, first, key, list, phase, visits, rounds, built, ran>>
  BY DEF NextElement, emutlsVars, storage
<1>2. /\ list[t] \in Seq(Cleanup) /\ e[t] \in Seq(Cleanup) /\ built[t] \in Seq(Cleanup) /\ ran[t] \in Seq(Past)
      /\ Accounted(t) /\ Intact(t) /\ e[t] # <<>> /\ phase[t] \notin {"running", "over"}
  BY <1>1, ThreadFacts
<1>3. /\ Tail(e[t]) \in Seq(Cleanup)
      /\ \A i \in DOMAIN Tail(e[t]) : i + 1 \in DOMAIN e[t] /\ Tail(e[t])[i] = e[t][i + 1]
  BY <1>2, TailFacts
<1>4. CleanupTypeOK' /\ MainInv'
  BY <1>1, <1>3 DEF CleanupInv, CleanupTypeOK, MainInv
<1>5. e'[t] = Tail(e[t]) /\ \A u \in Threads : u # t => e'[u] = e[u]
  BY <1>1 DEF CleanupInv, CleanupTypeOK
<1>6. (t \in inside) = TRUE /\ (t \in inside)' = FALSE
  BY <1>1
<1>7. /\ Apart(list[t], Tail(e[t]), ran[t], built[t], FALSE) /\ Ordered(list[t], Tail(e[t]), ran[t], built[t], FALSE)
      /\ ObjectsOf(e[t]) \subseteq ObjectsOf(Tail(e[t])) \cup ObjectsOf(ran[t])
  <2>1. Apart(list[t], e[t], ran[t], built[t], TRUE) /\ Ordered(list[t], e[t], ran[t], built[t], TRUE)
    BY <1>2, <1>6 DEF Accounted
  <2> QED
    BY <1>2, <2>1, NextApart, NextOrdered
<1>8. /\ Apart(list[t], e[t], ran[t], built[t], t \in inside)'
      /\ Ordered(list[t], e[t], ran[t], built[t], t \in inside)'
  BY <1>1, <1>5, <1>6, <1>7
<1>9. Accounted(t)'
  BY <1>1, <1>2, <1>5, <1>7, <1>8 DEF Accounted
<1>10. Intact(t)'
  BY <1>1, <1>2, <1>3, <1>5 DEF Intact
<1> QED
  BY <1>1, <1>4, <1>5, <1>9, <1>10, OthersKeepCleanups

\* run, or the key's destructor, is given the list of its thread.
LEMMA TakeKeepsCleanups ==
  ASSUME CleanupInv, LifeInv, StorageInv, NEW t \in Threads, ListToRun(t), e[t] = <<>>, key = "live"
  PROVE  /\ e' \in [Threads -> Seq(Cleanup)] /\ list' \in [Threads -> Seq(Cleanup)]
         /\ e'[t] = list[t] /\ list'[t] = <<>>
         /\ \A u \in Threads : u # t => e'[u] = e[u] /\ list'[u] = list[u]
         /\ (t \in inside) = FALSE
         /\ Apart(<<>>, list[t], ran[t], built[t], FALSE) /\ Ordered(<<>>, list[t], ran[t], built[t], FALSE)
         /\ ObjectsOf(e[t]) = {} /\ ObjectsOf(<<>>) = {}
<1>1. list[t] \in Seq(Cleanup) /\ Accounted(t) /\ (t \in inside) = FALSE
  BY ThreadFacts
<1>2. /\ e' \in [Threads -> Seq(Cleanup)] /\ list' \in [Threads -> Seq(Cleanup)]
      /\ e'[t] = list[t] /\ list'[t] = <<>>
      /\ \A u \in Threads : u # t => e'[u] = e[u] /\ list'[u] = list[u]
  BY <1>1 DEF ListToRun, CleanupInv, CleanupTypeOK
<1>3. Apart(list[t], e[t], ran[t], built[t], FALSE) /\ Ordered(list[t], e[t], ran[t], built[t], FALSE)
  BY <1>1 DEF Accounted
<1>4. Apart(<<>>, list[t], ran[t], built[t], FALSE) /\ Ordered(<<>>, list[t], ran[t], built[t], FALSE)
  BY <1>3, TakeApart, TakeOrdered
<1>5. ObjectsOf(<<>>) = {}
  BY DEF ObjectsOf
<1> QED
  BY <1>1, <1>2, <1>4, <1>5

\* exit runs the destructors of its thread.
LEMMA ExitKeepsCleanups ==
  ASSUME CleanupInv, LifeInv, StorageInv, NEW t \in Threads, Exit(t)
  PROVE  CleanupInv'
<1>1. /\ t = Main /\ phase[t] = "running" /\ phase' = [phase EXCEPT ![t] = "exit"]
      /\ IF key = "live" THEN ListToRun(t) ELSE UNCHANGED <<e, list>>
      /\ UNCHANGED <<given, first, key, inside, visits, rounds, built, ran>>
  BY DEF Exit, TakeList, emutlsVars, storage
<1>2. /\ Accounted(t) /\ Intact(t) /\ e[t] = <<>> /\ ran[t] = <<>> /\ t \notin inside
      /\ list[t] \in Seq(Cleanup) /\ e[t] \in Seq(Cleanup)
  BY <1>1, ThreadFacts
<1>3. phase'[t] = "exit" /\ \A u \in Threads : u # t => phase'[u] = phase[u]
  BY <1>1 DEF LifeInv, LifeTypeOK
<1>4. key \in {"none", "live"} /\ MainInv'
  BY <1>1, <1>3 DEF CleanupInv, MainInv, CleanupTypeOK
<1>5. ObjectsOf(<<>>) = {}
  BY DEF ObjectsOf
<1>6. \A k \in DOMAIN built[t] : built[t][k].object \in ObjectsOf(built[t])
  BY DEF ObjectsOf
<1>7. ObjectsOf(built[t]) \subseteq ObjectsOf(list[t])
  BY <1>2, <1>4, <1>5 DEF Accounted
<1>8. CASE key = "live"
  <2>1. /\ e' \in [Threads -> Seq(Cleanup)] /\ list' \in [Threads -> Seq(Cleanup)]
        /\ e'[t] = list[t] /\ list'[t] = <<>>
        /\ \A u \in Threads : u # t => e'[u] = e[u] /\ list'[u] = list[u]
        /\ (t \in inside) = FALSE
        /\ Apart(<<>>, list[t], ran[t], built[t], FALSE) /\ Ordered(<<>>, list[t], ran[t], built[t], FALSE)
    BY <1>1, <1>2, <1>8, TakeKeepsCleanups
  <2>2. CleanupTypeOK'
    BY <1>1, <2>1 DEF CleanupInv, CleanupTypeOK
  <2>3. Apart(list[t], e[t], ran[t], built[t], t \in inside)' /\ Ordered(list[t], e[t], ran[t], built[t], t \in inside)'
    BY <1>1, <2>1
  <2>4. Accounted(t)'
    BY <1>1, <1>3, <1>6, <1>7, <1>8, <2>1, <2>3 DEF Accounted
  <2>5. Intact(t)'
    BY <1>1, <1>2, <1>3, <1>8, <2>1 DEF Intact
  <2> QED
    BY <1>1, <1>3, <1>4, <2>1, <2>2, <2>4, <2>5, OthersKeepCleanups
<1>9. CASE key = "none"
  <2>1. UNCHANGED <<e, list>> /\ list[t] = <<>>
    BY <1>1, <1>2, <1>9 DEF Accounted
  <2>2. CleanupTypeOK'
    BY <1>1, <2>1 DEF CleanupInv, CleanupTypeOK
  <2>3. (t \in inside)' = (t \in inside)
    BY <1>1
  <2>4. Apart(list[t], e[t], ran[t], built[t], t \in inside)' /\ Ordered(list[t], e[t], ran[t], built[t], t \in inside)'
    BY <1>1, <1>2, <2>1, <2>3 DEF Accounted
  <2>5. Accounted(t)'
    BY <1>1, <1>2, <1>3, <1>5, <1>6, <1>7, <1>9, <2>1, <2>4 DEF Accounted
  <2>6. Intact(t)'
    BY <1>1, <1>2, <1>3, <1>9, <2>1 DEF Intact
  <2> QED
    BY <1>1, <1>3, <1>4, <2>1, <2>2, <2>5, <2>6, OthersKeepCleanups
<1> QED
  BY <1>4, <1>8, <1>9

\* The key of the lists is deleted, or a thread begins to end or is gone, or a round begins.
LEMMA PhaseKeepsCleanups ==
  ASSUME CleanupInv, LifeInv, StorageInv, NEW t \in Threads, DeleteKey(t) \/ End(t) \/ Round(t) \/ Over(t)
  PROVE  CleanupInv'
<1>1. /\ UNCHANGED <<given, first, list, e, inside, built, ran>>
      /\ phase' = phase \/ \E p : phase' = [phase EXCEPT ![t] = p]
      /\ visits' = visits \/ visits' = [visits EXCEPT ![t] = {"list", "storage"}]
      /\ rounds' = rounds \/ \E r : rounds' = [rounds EXCEPT ![t] = r]
      /\ key' = key \/ (key = "live" /\ key' = "deleted")
  BY DEF DeleteKey, End, Round, Over, emutlsVars, storage
<1>2. /\ \A u \in Threads : u # t => phase'[u] = phase[u] /\ visits'[u] = visits[u] /\ rounds'[u] = rounds[u]
      /\ visits' \in [Threads -> SUBSET {"list", "storage"}]
  <2>1. /\ phase \in [Threads -> {"running", "exit", "ending", "over"}]
        /\ rounds = [u \in Threads |-> rounds[u]]
        /\ visits \in [Threads -> SUBSET {"list", "storage"}]
    BY DEF LifeInv, LifeTypeOK, CleanupInv, CleanupTypeOK
  <2>2. \A u \in Threads : u # t => phase'[u] = phase[u]
    BY <1>1, <2>1
  <2>3. \A u \in Threads : u # t => rounds'[u] = rounds[u]
    <3>1. CASE rounds' = rounds
      BY <3>1
    <3>2. CASE \E r : rounds' = [rounds EXCEPT ![t] = r]
      <4>1. PICK r : rounds' = [rounds EXCEPT ![t] = r]
        BY <3>2
      <4>2. rounds' = [u \in Threads |-> IF u = t THEN r ELSE rounds[u]]
        BY <2>1, <4>1
      <4> QED
        BY <4>2
    <3> QED
      BY <1>1, <3>1, <3>2
  <2>4. {"list", "storage"} \in SUBSET {"list", "storage"}
    OBVIOUS
  <2>5. visits' \in [Threads -> SUBSET {"list", "storage"}]
    BY <1>1, <2>1, <2>4
  <2>6. \A u \in Threads : u # t => visits'[u] = visits[u]
    BY <1>1, <2>1
  <2> QED
    BY <2>2, <2>3, <2>5, <2>6
<1>3. Accounted(t) /\ Intact(t) /\ key \in {"none", "live", "deleted"}
  BY DEF CleanupInv, CleanupTypeOK
<1>4. CleanupTypeOK'
  BY <1>1, <1>2 DEF CleanupInv, CleanupTypeOK
<1>5. Apart(list[t], e[t], ran[t], built[t], t \in inside)' /\ Ordered(list[t], e[t], ran[t], built[t], t \in inside)'
  <2>1. (t \in inside)' = (t \in inside)
    BY <1>1
  <2> QED
    BY <1>1, <1>3, <2>1 DEF Accounted
<1>6. ASSUME MainInv', Accounted(t)', Intact(t)'
      PROVE  CleanupInv'
  BY <1>1, <1>2, <1>4, <1>6, OthersKeepCleanups
<1>7. CASE DeleteKey(t)
  <2>1. /\ phase[t] = "exit" /\ phase'[t] = "over" /\ UNCHANGED <<visits, rounds>> /\ t = Main
        /\ key' = IF key = "live" THEN "deleted" ELSE key
    BY <1>7 DEF DeleteKey, LifeInv, LifeTypeOK, ArrayFreed
  <2>2. MainInv'
    BY <2>1 DEF MainInv
  <2>3. Accounted(t)'
    BY <1>1, <1>3, <1>5, <2>1 DEF Accounted
  <2>4. Intact(t)'
    BY <1>1, <1>3, <2>1 DEF Intact
  <2> QED
    BY <1>6, <2>2, <2>3, <2>4
<1>8. CASE End(t)
  <2>1. /\ phase[t] = "running" /\ phase'[t] = "ending" /\ UNCHANGED <<key, visits, rounds>> /\ t # Main
    BY <1>8 DEF End, LifeInv, LifeTypeOK
  <2>2. MainInv'
    BY <1>2, <2>1, ThreadExitAssumption DEF MainInv, CleanupInv
  <2>3. Accounted(t)'
    BY <1>1, <1>3, <1>5, <2>1 DEF Accounted
  <2>4. Intact(t)'
    BY <1>1, <1>3, <2>1 DEF Intact
  <2> QED
    BY <1>6, <2>2, <2>3, <2>4
<1>9. CASE Round(t)
  <2>1. /\ phase[t] = "ending" /\ UNCHANGED <<key, phase>> /\ visits'[t] = {"list", "storage"}
    BY <1>9 DEF Round, Between, CleanupInv, CleanupTypeOK
  <2>2. MainInv'
    BY <2>1 DEF MainInv, CleanupInv
  <2>3. Accounted(t)'
    BY <1>1, <1>3, <1>5, <2>1 DEF Accounted
  <2>4. Intact(t)'
    BY <1>1, <1>3, <2>1 DEF Intact
  <2> QED
    BY <1>6, <2>2, <2>3, <2>4
<1>10. CASE Over(t)
  <2>1. /\ phase[t] = "ending" /\ phase'[t] = "over" /\ UNCHANGED <<key, visits, rounds>> /\ t # Main
        /\ rounds[t] = MaxRounds \/ ~HasValue(t, "list")
    BY <1>10 DEF Over, Between, LifeInv, LifeTypeOK, CleanupInv, MainInv
  <2>2. MainInv'
    BY <1>2, <2>1, ThreadExitAssumption DEF MainInv, CleanupInv
  <2>3. key # "deleted" /\ rounds[t] < MaxRounds => list[t] = <<>>
    <3>1. rounds[t] < MaxRounds => rounds[t] # MaxRounds
      BY ThreadExitAssumption
    <3> QED
      BY <1>3, <2>1, <3>1 DEF HasValue, Accounted
  <2>4. Accounted(t)'
    BY <1>1, <1>3, <1>5, <2>1, <2>3 DEF Accounted
  <2>5. Intact(t)'
    BY <1>1, <1>3, <2>1 DEF Intact
  <2> QED
    BY <1>6, <2>2, <2>4, <2>5
<1> QED
  BY <1>7, <1>8, <1>9, <1>10

\* kLIBC visits a key.
LEMMA VisitKeepsCleanups ==
  ASSUME CleanupInv, LifeInv, StorageInv, NEW t \in Threads, NEW k \in {"list", "storage"}, Visit(t, k)
  PROVE  CleanupInv'
<1>1. /\ phase[t] = "ending" /\ e[t] = <<>> /\ k \in visits[t] /\ (k # first => first \notin visits[t])
      /\ visits' = [visits EXCEPT ![t] = visits[t] \ {k}]
      /\ UNCHANGED <<first, key, inside, phase, rounds, built, ran>>
  BY DEF Visit, Between
<1>2. /\ Accounted(t) /\ Intact(t) /\ key \in {"none", "live", "deleted"} /\ t \notin inside
      /\ first \in {"list", "storage"} /\ visits[t] \subseteq {"list", "storage"} /\ t # Main
      /\ list[t] \in Seq(Cleanup) /\ e[t] \in Seq(Cleanup)
  BY <1>1, ThreadFacts DEF CleanupInv, CleanupTypeOK, MainInv
<1>3. visits'[t] = visits[t] \ {k} /\ \A u \in Threads : u # t => visits'[u] = visits[u]
  BY <1>1 DEF CleanupInv, CleanupTypeOK
<1>4. visits' \in [Threads -> SUBSET {"list", "storage"}] /\ MainInv'
  BY <1>1, <1>2 DEF CleanupInv, CleanupTypeOK, MainInv
<1>5. CASE ~HasValue(t, k) \/ k = "storage"
  <2>1. UNCHANGED <<list, e>> /\ (UNCHANGED given \/ (k = "storage" /\ emutls_destroy(t)))
    BY <1>5 DEF Visit, emutlsVars, storage
  <2>2. CleanupTypeOK'
    BY <1>1, <1>4, <2>1 DEF CleanupInv, CleanupTypeOK
  <2>3. (t \in inside)' = (t \in inside)
    BY <1>1
  <2>4. Accounted(t)'
    BY <1>1, <1>2, <2>1, <2>3 DEF Accounted
  <2>5. \A u \in Threads : u # t => given'[u] = given[u]
    BY <2>1 DEF emutls_destroy, StorageInv, StorageTypeOK
  <2>6. first = "list" /\ key = "live" => \A i \in DOMAIN list[t] : list[t][i].late \/ UNCHANGED given
    <3>1. CASE k = "list"
      BY <2>1, <3>1
    <3>2. CASE k = "storage" /\ first = "list"
      <4>1. visits[t] = {"storage"}
        BY <1>1, <1>2, <3>2
      <4> QED
        BY <1>1, <1>2, <4>1 DEF Intact
    <3> QED
      BY <3>1, <3>2
  <2>7. visits'[t] = {"storage"} /\ key = "live" => list[t] = <<>>
    <3>1. visits'[t] = {"storage"} => k = "list"
      BY <1>3
    <3> QED
      BY <1>5, <3>1 DEF HasValue
  <2>8. Intact(t)'
    BY <1>1, <1>2, <2>1, <2>6, <2>7 DEF Intact
  <2> QED
    BY <1>1, <1>3, <1>4, <2>1, <2>2, <2>4, <2>5, <2>8, OthersKeepCleanups
<1>6. CASE HasValue(t, k) /\ k = "list"
  <2>1. ListToRun(t) /\ UNCHANGED given /\ key = "live"
    BY <1>6 DEF Visit, PassList, HasValue, emutlsVars, storage
  <2>2. /\ e' \in [Threads -> Seq(Cleanup)] /\ list' \in [Threads -> Seq(Cleanup)]
        /\ e'[t] = list[t] /\ list'[t] = <<>>
        /\ \A u \in Threads : u # t => e'[u] = e[u] /\ list'[u] = list[u]
        /\ (t \in inside) = FALSE
        /\ Apart(<<>>, list[t], ran[t], built[t], FALSE) /\ Ordered(<<>>, list[t], ran[t], built[t], FALSE)
        /\ ObjectsOf(e[t]) = {} /\ ObjectsOf(<<>>) = {}
    BY <1>1, <2>1, TakeKeepsCleanups
  <2>3. CleanupTypeOK'
    BY <1>1, <1>4, <2>2 DEF CleanupInv, CleanupTypeOK
  <2>4. Apart(list[t], e[t], ran[t], built[t], t \in inside)' /\ Ordered(list[t], e[t], ran[t], built[t], t \in inside)'
    BY <1>1, <2>2
  <2>5. Accounted(t)'
    BY <1>1, <1>2, <2>1, <2>2, <2>4 DEF Accounted
  <2>6. Intact(t)'
    BY <1>1, <1>2, <2>1, <2>2 DEF Intact
  <2> QED
    BY <1>1, <1>3, <1>4, <2>1, <2>2, <2>3, <2>5, <2>6, OthersKeepCleanups
<1> QED
  BY <1>5, <1>6

(* The threads begin without cleanups.                                     *)
LEMMA CleanupInit == ThreadExitInit => CleanupInv
<1> SUFFICES ASSUME ThreadExitInit
             PROVE  CleanupInv
  OBVIOUS
<1> USE DEF ThreadExitInit
<1>1. CleanupTypeOK
  BY ThreadExitAssumption DEF CleanupTypeOK
<1>2. MainInv
  BY ThreadExitAssumption DEF MainInv
<1>3. \A t \in Threads : Accounted(t)
  BY DEF Accounted, Apart, Ordered, Distinct, Reversed, ObjectsOf
<1>4. \A t \in Threads : Intact(t)
  BY DEF Intact
<1> QED
  BY <1>1, <1>2, <1>3, <1>4 DEF CleanupInv

(* Every step keeps the cleanups accounted for, in order and intact.       *)
LEMMA CleanupNext == CleanupInv /\ NumberInv /\ StorageInv /\ LifeInv /\ [ThreadExitNext]_vars => CleanupInv'
<1> SUFFICES ASSUME CleanupInv, NumberInv, StorageInv, LifeInv, [ThreadExitNext]_vars
             PROVE  CleanupInv'
  OBVIOUS
<1>1. CASE UNCHANGED vars
  BY <1>1, AccessKeepsCleanups DEF vars, emutlsVars, storage
<1>2. ASSUME NEW t \in Threads, NEW o \in Names[t], Use(t, o)
      PROVE  CleanupInv'
  BY <1>2, AccessKeepsCleanups DEF Use, Get, storage
<1>3. ASSUME NEW t \in Threads, NEW o \in Names[t], Register(t, o)
      PROVE  CleanupInv'
  <2>1. o \in Objects
    BY ThreadExitAssumption
  <2> QED
    BY <1>3, <2>1, RegisterKeepsCleanups
<1>4. ASSUME NEW t \in Threads, Access(t)
      PROVE  CleanupInv'
  <2>1. UNCHANGED given \/ Slot(t)
    BY <1>4 DEF Access, GetStep, Once, Lock, Number, Unlock, OutOfMemory, storage
  <2> QED
    BY <1>4, <2>1, AccessKeepsCleanups DEF Access
<1>5. ASSUME NEW t \in Threads, CallDestructor(t) \/ NextElement(t) \/ Exit(t)
      PROVE  CleanupInv'
  BY <1>5, CallKeepsCleanups, NextKeepsCleanups, ExitKeepsCleanups
<1>6. ASSUME NEW t \in Threads, DeleteKey(t) \/ End(t) \/ Round(t) \/ Over(t)
      PROVE  CleanupInv'
  BY <1>6, PhaseKeepsCleanups
<1>7. ASSUME NEW t \in Threads, NEW k \in {"list", "storage"}, Visit(t, k)
      PROVE  CleanupInv'
  BY <1>7, VisitKeepsCleanups
<1> QED
  BY <1>1, <1>2, <1>3, <1>4, <1>5, <1>6, <1>7 DEF ThreadExitNext

(* For any program: the destructors that __cxa_thread_atexit registered    *)
(* run once each and the latest first, and none is forgotten unless the    *)
(* key has been deleted or kLIBC gave up.                                  *)
THEOREM DestructorsRun == ThreadExitSpec => []CleanupsRun
<1>1. CleanupInv /\ LifeInv => CleanupsRun
  <2> SUFFICES ASSUME CleanupInv, LifeInv, NEW t \in Threads
               PROVE  /\ \A i \in DOMAIN ran[t] : \E k \in DOMAIN built[t] : built[t][k].object = ran[t][i].object
                      /\ \A i, j \in DOMAIN ran[t] : ran[t][i].object = ran[t][j].object => i = j
                      /\ \A i, j \in DOMAIN ran[t], k, l \in DOMAIN built[t] :
                           /\ ran[t][i].object = built[t][k].object /\ ran[t][j].object = built[t][l].object
                           /\ ~ran[t][i].late /\ ~ran[t][j].late /\ i < j
                           => k > l
                      /\ phase[t] = "over" /\ t = Main =>
                           \A k \in DOMAIN built[t] : built[t][k].late \/ HasRun(t, built[t][k].object)
                      /\ phase[t] = "over" /\ t # Main /\ key # "deleted" /\ rounds[t] < MaxRounds =>
                           \A k \in DOMAIN built[t] : HasRun(t, built[t][k].object)
    BY DEF CleanupsRun
  <2>1. /\ Accounted(t) /\ Apart(list[t], e[t], ran[t], built[t], t \in inside)
        /\ Ordered(list[t], e[t], ran[t], built[t], t \in inside)
        /\ phase[t] = "over" => e[t] = <<>>
    BY DEF CleanupInv, Accounted, LifeInv, Nesting
  <2>2. \A i \in DOMAIN ran[t] : \E k \in DOMAIN built[t] : built[t][k].object = ran[t][i].object
    <3> SUFFICES ASSUME NEW i \in DOMAIN ran[t]
                 PROVE  \E k \in DOMAIN built[t] : built[t][k].object = ran[t][i].object
      OBVIOUS
    <3>1. ran[t][i].object \in ObjectsOf(ran[t])
      BY DEF ObjectsOf
    <3>2. ran[t][i].object \in ObjectsOf(built[t])
      BY <2>1, <3>1 DEF Apart
    <3> QED
      BY <3>2 DEF ObjectsOf
  <2>3. \A i, j \in DOMAIN ran[t] : ran[t][i].object = ran[t][j].object => i = j
    BY <2>1 DEF Apart, Distinct
  <2>4. Reversed(ran[t], built[t])
    BY <2>1 DEF Ordered
  <2>5. ObjectsOf(<<>>) = {} /\ \A o : o \in ObjectsOf(ran[t]) => HasRun(t, o)
    BY DEF ObjectsOf, HasRun
  <2>6. \A k \in DOMAIN built[t] : built[t][k].object \in ObjectsOf(built[t])
    BY DEF ObjectsOf
  <2>7. phase[t] = "over" /\ t = Main =>
          \A k \in DOMAIN built[t] : built[t][k].late \/ HasRun(t, built[t][k].object)
    BY <2>1, <2>5 DEF Accounted
  <2>8. phase[t] = "over" /\ t # Main /\ key # "deleted" /\ rounds[t] < MaxRounds =>
          \A k \in DOMAIN built[t] : HasRun(t, built[t][k].object)
    BY <2>1, <2>5, <2>6 DEF Accounted
  <2> QED
    BY <2>2, <2>3, <2>4, <2>7, <2>8 DEF Reversed
<1> QED
  BY <1>1, NumberInit, NumberNext, StorageInit, StorageNext, LifeInit, LifeNext, CleanupInit, CleanupNext, PTL
  DEF ThreadExitSpec

(* For any program: a destructor finds its variable where it was built if  *)
(* kLIBC visits the key of the lists first, and in exit.                   *)
THEOREM DestructorsFindStorage == ThreadExitSpec => []CleanupsFindStorage
<1>1. CleanupInv => CleanupsFindStorage
  BY DEF CleanupInv, Intact, CleanupsFindStorage
<1> QED
  BY <1>1, NumberInit, NumberNext, StorageInit, StorageNext, LifeInit, LifeNext, CleanupInit, CleanupNext, PTL
  DEF ThreadExitSpec

=============================================================================
