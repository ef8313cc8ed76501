--------------------------- MODULE AbstractRegistry ---------------------------
(***************************************************************************)
(* What the frame registry promises: a set of modules, and questions that  *)
(* are answered with the FDE of the one registered module that has it.     *)
(***************************************************************************)
EXTENDS FdeSort

CONSTANTS Threads, Modules, Pcs

VARIABLES
  table,        \* the frame table of each module
  registered,   \* the modules whose tables are registered
  asking,       \* the program counters whose FDEs are asked for, 0 for none
  answered,     \* the threads whose question has been answered
  answer        \* the answer to each thread, until it returns

absVars == <<table, registered, asking, answered, answer>>

AbsInit ==
  /\ registered = {}
  /\ asking = [t \in Threads |-> 0]
  /\ answered = {}
  /\ answer = [t \in Threads |-> NoFde]

\* The FDEs that the tables of the modules in R have for pc.
Known(R, pc) ==
  {f \in UNION {{table[m][i] : i \in DOMAIN table[m]} : m \in {n \in R : ~Unhandled(table[n])}} :
     f.begin # 0 /\ Covers(f, pc)}

Register(m) == registered' = registered \cup {m} /\ UNCHANGED <<table, asking, answered, answer>>

Deregister(m) == registered' = registered \ {m} /\ UNCHANGED <<table, asking, answered, answer>>

Ask(t, pc) ==
  /\ asking[t] = 0
  /\ asking' = [asking EXCEPT ![t] = pc]
  /\ UNCHANGED <<table, registered, answered, answer>>

Answer(t) ==
  /\ asking[t] # 0 /\ t \notin answered
  /\ answered' = answered \cup {t}
  /\ \/ Known(registered, asking[t]) = {} /\ answer' = [answer EXCEPT ![t] = NoFde]
     \/ \E f \in Known(registered, asking[t]) : answer' = [answer EXCEPT ![t] = f]
  /\ UNCHANGED <<table, registered, asking>>

Return(t) ==
  /\ t \in answered
  /\ answered' = answered \ {t}
  /\ asking' = [asking EXCEPT ![t] = 0]
  /\ answer' = [answer EXCEPT ![t] = NoFde]
  /\ UNCHANGED <<table, registered>>

AbsNext ==
  \/ \E m \in Modules : Register(m) \/ Deregister(m)
  \/ \E t \in Threads : Answer(t) \/ Return(t) \/ \E pc \in Pcs : Ask(t, pc)

AbsSpec == AbsInit /\ [][AbsNext]_absVars

=============================================================================
