--------------------------- MODULE NosUsersProofs --------------------------
(***************************************************************************)
(* The user table of nos for any number of CPUs, addresses and nodes: no   *)
(* search and no removal meets a freed node, and the timer is gone when    *)
(* the module is.                                                          *)
(***************************************************************************)
EXTENDS NosUsers, TLAPS

Labels == {"idle", "find", "new", "add", "load", "store", "bug"}

TableTyped ==
    /\ mod \in {"off", "init", "up", "unregister", "timer", "free"}
    /\ first \in Nodes \cup {NULL}
    /\ next \in [Nodes -> Nodes \cup {NULL}]
    /\ live \subseteq Nodes
    /\ gcur \in Nodes \cup {NULL}
    /\ pc \in [Cpus -> Labels]
    /\ p \in [Cpus -> Nodes \cup {NULL}]
    /\ n \in [Cpus -> Nodes \cup {NULL}]

\* Hooks run only while the module is up or waits for them; what they hold
\* at which point, and what the removal holds.
PhaseInv ==
    /\ mod \notin {"up", "unregister"} => \A c \in Cpus : pc[c] = "idle"
    /\ \A c \in Cpus : /\ pc[c] \in {"idle", "find", "new"} => n[c] = NULL
                       /\ pc[c] \in {"add", "load", "store"} => n[c] # NULL
                       /\ pc[c] \notin {"find", "add"} => p[c] = NULL
    /\ gcur = IF mod = "free" THEN first ELSE NULL

\* The nodes C of this life of the module, which may have some that a race
\* of two hooks lost: closed under next, and next leads to a lower rank, so
\* the chain has no ring although nobody holds a lock.
Ranked(C, r) ==
    /\ first \in C \cup {NULL}
    /\ \A v \in C : next[v] # NULL => next[v] \in C /\ r[next[v]] < r[v]
    /\ \A c \in Cpus : {p[c], n[c]} \subseteq C \cup {NULL}

\* A node that is not linked yet belongs to one hook and nothing leads to it.
Private(C) ==
    \A c \in Cpus : n[c] # NULL =>
        /\ first # n[c]
        /\ \A v \in C : next[v] # n[c]
        /\ \A d \in Cpus \ {c} : n[d] # n[c]

TableInv ==
    /\ TableTyped
    /\ PhaseInv
    /\ \E C \in SUBSET live, r \in [Nodes -> Nat] : Ranked(C, r) /\ Private(C)

LEMMA InitTable == Init => TableInv
<1> SUFFICES ASSUME Init PROVE TableInv
  OBVIOUS
<1> USE DEF Init
<1>1. TableTyped /\ PhaseInv
  BY DEF TableTyped, PhaseInv, Labels
<1>2. Ranked({}, [v \in Nodes |-> 0]) /\ Private({})
  BY DEF Ranked, Private
<1>3. {} \in SUBSET live /\ [v \in Nodes |-> 0] \in [Nodes -> Nat]
  OBVIOUS
<1> QED
  BY <1>1, <1>2, <1>3 DEF TableInv

\* One step per action; each names the nodes and ranks of the next state.
LEMMA NextTable == TableInv /\ [Next]_vars => TableInv'
<1> SUFFICES ASSUME TableInv, [Next]_vars PROVE TableInv'
  OBVIOUS
<1> PICK C \in SUBSET live, r \in [Nodes -> Nat] : Ranked(C, r) /\ Private(C)
  BY DEF TableInv
<1> USE NullAssumption DEF Labels, Goto, Done, Stop, tvars
<1>a. TableTyped /\ PhaseInv /\ C \subseteq Nodes
  BY DEF TableInv, TableTyped
\* A step that keeps the table keeps its nodes and their ranks.
<1>b. ASSUME TableTyped', PhaseInv', Ranked(C, r)', Private(C)', live' = live
      PROVE  TableInv'
  BY <1>b DEF TableInv
<1>1. ASSUME NEW c \in Cpus, HookEnter(c) PROVE TableInv'
  <2> USE <1>a, <1>1 DEF HookEnter
  <2>1. TableTyped' BY DEF TableTyped
  <2>2. PhaseInv' BY DEF TableTyped, PhaseInv
  <2>3. Ranked(C, r)' BY DEF TableTyped, Ranked
  <2>4. Private(C)' BY DEF Private
  <2> QED BY <1>b, <2>1, <2>2, <2>3, <2>4
<1>2. ASSUME NEW c \in Cpus, user_hash_find(c) PROVE TableInv'
  <2> USE <1>a, <1>2 DEF user_hash_find
  <2>0. PICK x \in C \cup {NULL} : p' = [p EXCEPT ![c] = x]
    BY DEF TableTyped, Ranked
  <2>1. TableTyped'
    <3>1. p' \in [Cpus -> Nodes \cup {NULL}] BY <2>0 DEF TableTyped
    <3> QED BY <3>1 DEF TableTyped
  <2>2. PhaseInv'
    <3>1. \/ pc' = pc
          \/ /\ p' = [p EXCEPT ![c] = NULL]
             /\ \/ pc[c] = "find" /\ \E l \in {"idle", "new"} : pc' = [pc EXCEPT ![c] = l]
                \/ pc[c] = "add" /\ \E l \in {"bug", "load"} : pc' = [pc EXCEPT ![c] = l]
      OBVIOUS
    <3>2. pc[c] \in {"find", "add"} /\ UNCHANGED <<mod, first, gcur, n>>
      OBVIOUS
    <3> HIDE <1>2
    <3> QED BY <2>0, <3>1, <3>2 DEF TableTyped, PhaseInv
  <2>3. Ranked(C, r)' BY <2>0 DEF TableTyped, Ranked
  <2>4. Private(C)' BY DEF Private
  <2> QED BY <1>b, <2>1, <2>2, <2>3, <2>4
<1>3. ASSUME NEW c \in Cpus, NewUser(c) PROVE TableInv'
  <2> PICK u \in Nodes \ live :
          /\ live' = live \cup {u}
          /\ next' = [next EXCEPT ![u] = NULL]
          /\ n' = [n EXCEPT ![c] = u]
    BY <1>3 DEF NewUser
  <2> USE <1>a, <1>3 DEF NewUser
  <2>1. TableTyped' BY DEF TableTyped
  <2>2. PhaseInv' BY DEF TableTyped, PhaseInv
  <2>3. Ranked(C \cup {u}, r)' BY DEF TableTyped, Ranked
  <2>4. Private(C \cup {u})' BY DEF TableTyped, Ranked, Private
  <2> QED BY <2>1, <2>2, <2>3, <2>4 DEF TableInv
<1>4. ASSUME NEW c \in Cpus, NoMemory(c) PROVE TableInv'
  <2> USE <1>a, <1>4 DEF NoMemory
  <2>1. TableTyped' BY DEF TableTyped
  <2>2. PhaseInv' BY DEF TableTyped, PhaseInv
  <2>3. Ranked(C, r)' BY DEF Ranked
  <2>4. Private(C)' BY DEF Private
  <2> QED BY <1>b, <2>1, <2>2, <2>3, <2>4
\* The new node gets a rank above the old head: nothing leads to it yet.
<1>5. ASSUME NEW c \in Cpus, AddLoad(c) PROVE TableInv'
  <2> USE <1>a, <1>5 DEF AddLoad
  <2>0. n[c] \in C /\ n[c] \in Nodes BY DEF TableTyped, PhaseInv, Ranked
  <2> PICK top \in Nat : first # NULL => r[first] < top
    <3>1. CASE first = NULL BY <3>1
    <3>2. CASE first # NULL
      <4>1. r[first] \in Nat BY <3>2 DEF TableTyped
      <4>2. r[first] + 1 \in Nat /\ r[first] < r[first] + 1 BY <4>1
      <4> QED BY <4>2
    <3> QED BY <3>1, <3>2
  <2> PICK s \in [Nodes -> Nat] : s = [r EXCEPT ![n[c]] = top]
    OBVIOUS
  <2>1. TableTyped' BY <2>0 DEF TableTyped
  <2>2. PhaseInv' BY DEF TableTyped, PhaseInv
  <2>4. Ranked(C, s)'
    <3>1. first # n[c] /\ \A v \in C : next[v] # n[c] BY <2>0 DEF Private
    <3>2. ASSUME NEW v \in C, next'[v] # NULL
          PROVE  next'[v] \in C /\ s[next'[v]] < s[v]
      <4>1. CASE v = n[c] BY <2>0, <3>1, <3>2, <4>1 DEF TableTyped, Ranked
      <4>2. CASE v # n[c] BY <2>0, <3>1, <3>2, <4>2 DEF TableTyped, Ranked
      <4> QED BY <4>1, <4>2
    <3> QED BY <3>2 DEF Ranked
  <2>5. Private(C)'
    BY <2>0 DEF TableTyped, Private
  <2> QED BY <2>1, <2>2, <2>4, <2>5 DEF TableInv
<1>6. ASSUME NEW c \in Cpus, AddStore(c) PROVE TableInv'
  <2> USE <1>a, <1>6 DEF AddStore
  <2>1. TableTyped' BY DEF TableTyped
  <2>2. PhaseInv' BY DEF TableTyped, PhaseInv
  <2>3. Ranked(C, r)' BY DEF TableTyped, Ranked
  <2>4. Private(C)' BY DEF TableTyped, PhaseInv, Private
  <2> QED BY <1>b, <2>1, <2>2, <2>3, <2>4
<1>7. CASE nos_global_init
  <2> USE <1>a, <1>7 DEF nos_global_init
  <2>1. TableTyped' BY DEF TableTyped
  <2>2. PhaseInv' BY DEF TableTyped, PhaseInv
  <2>3. Ranked({}, r)' BY DEF PhaseInv, Ranked
  <2>4. Private({})' BY DEF PhaseInv, Private
  <2> QED BY <2>1, <2>2, <2>3, <2>4 DEF TableInv
<1>8. CASE Register \/ Unregister \/ Unregistered \/ TimerFires \/ nos_timer_func
  <2> USE <1>a, <1>8 DEF Register, Unregister, Unregistered, TimerFires, nos_timer_func
  <2>1. TableTyped' BY DEF TableTyped
  <2>2. PhaseInv' BY DEF TableTyped, PhaseInv
  <2>3. Ranked(C, r)' BY DEF Ranked
  <2>4. Private(C)' BY DEF Private
  <2> QED BY <1>b, <2>1, <2>2, <2>3, <2>4
<1>9. CASE nos_timer_cleanup
  <2> USE <1>a, <1>9 DEF nos_timer_cleanup
  <2>1. TableTyped' BY DEF TableTyped
  <2>2. PhaseInv' BY DEF TableTyped, PhaseInv
  <2>3. Ranked(C, r)' BY DEF Ranked
  <2>4. Private(C)' BY DEF Private
  <2> QED BY <1>b, <2>1, <2>2, <2>3, <2>4
\* Lost nodes may still lead to the freed one; those of lower rank do not.
<1>10. CASE user_hash_fini
  <2> USE <1>a, <1>10 DEF user_hash_fini
  <2>1. TableTyped' BY DEF TableTyped
  <2>2. PhaseInv' BY DEF TableTyped, PhaseInv
  <2>3. CASE gcur = NULL
    <3>1. Ranked(C, r)' BY <2>3 DEF Ranked
    <3>2. Private(C)' BY <2>3 DEF Private
    <3> QED BY <1>b, <2>1, <2>2, <2>3, <3>1, <3>2
  <2>4. CASE gcur # NULL
    <3> PICK D \in SUBSET C : D = {v \in C : r[v] < r[gcur]}
      OBVIOUS
    <3>1. gcur \in C /\ gcur \notin D BY <2>4 DEF PhaseInv, Ranked, TableTyped
    <3>2. D \in SUBSET live' BY <2>4, <3>1
    <3>3. Ranked(D, r)'
      <4>1. first' \in D \cup {NULL} BY <2>4, <3>1 DEF TableTyped, Ranked
      <4>2. ASSUME NEW v \in D, next'[v] # NULL
            PROVE  next'[v] \in D /\ r[next'[v]] < r[v]
        BY <2>4, <3>1, <4>2 DEF TableTyped, Ranked
      <4>3. \A c \in Cpus : p'[c] = NULL /\ n'[c] = NULL BY DEF PhaseInv
      <4> QED BY <4>1, <4>2, <4>3 DEF Ranked
    <3>4. Private(D)' BY DEF PhaseInv, Private
    <3> QED BY <2>1, <2>2, <3>2, <3>3, <3>4 DEF TableInv
  <2> QED BY <2>3, <2>4
<1>11. CASE UNCHANGED vars
  <2> USE <1>a, <1>11 DEF vars
  <2>1. TableTyped' BY DEF TableTyped
  <2>2. PhaseInv' BY DEF PhaseInv
  <2>3. Ranked(C, r)' BY DEF Ranked
  <2>4. Private(C)' BY DEF Private
  <2> QED BY <1>b, <2>1, <2>2, <2>3, <2>4
<1> QED
  BY <1>1, <1>2, <1>3, <1>4, <1>5, <1>6, <1>7, <1>8, <1>9, <1>10, <1>11
  DEF Next, Hook, Timer, Module, Unloading

\* A search that starts in a closed set of nodes stays in it.
LEMMA ChainInClosed ==
    ASSUME NEW S \in SUBSET Nodes, Closed(S), NEW u \in S \cup {NULL}
    PROVE  ChainFrom(u) \subseteq S
  BY DEF ChainFrom

\* On any number of CPUs, without a lock, every search of the user table and
\* its removal at unload meet only nodes that have not been freed.
THEOREM NosNoUseAfterFree == Spec => []NoUseAfterFree
<1>1. TableInv => NoUseAfterFree
  <2> SUFFICES ASSUME TableInv PROVE NoUseAfterFree
    OBVIOUS
  <2> PICK C \in SUBSET live, r \in [Nodes -> Nat] : Ranked(C, r) /\ Private(C)
    BY DEF TableInv
  <2>1. C \in SUBSET Nodes /\ Closed(C)
    BY DEF TableInv, TableTyped, Ranked, Closed
  <2>2. first \in C \cup {NULL} /\ gcur \in C \cup {NULL}
    BY DEF TableInv, PhaseInv, Ranked
  <2>3. ASSUME NEW c \in Cpus
        PROVE  ChainFrom(p[c]) \subseteq live /\ {n[c]} \ {NULL} \subseteq live
    <3>1. p[c] \in C \cup {NULL} /\ n[c] \in C \cup {NULL}
      BY DEF Ranked
    <3> QED
      BY <2>1, <3>1, ChainInClosed
  <2> QED
    BY <2>1, <2>2, <2>3, ChainInClosed DEF NoUseAfterFree
<1>2. TableInv /\ [Next]_vars => TableInv'
  BY NextTable
<1> QED
  BY InitTable, <1>1, <1>2, PTL DEF Spec

\* The timer of nos, which starts itself again, is neither pending nor
\* running when the module's memory goes.
THEOREM NosTimerGone == Spec => []TimerGone
<1>1. Init => TimerGone
  BY DEF Init, TimerGone
<1>2. TimerGone /\ [Next]_vars => TimerGone'
  BY DEF TimerGone, Next, Hook, HookEnter, user_hash_find, NewUser, NoMemory, AddLoad,
         AddStore, Timer, TimerFires, nos_timer_func, Module, nos_global_init,
         Register, Unregister, Unloading, Unregistered, nos_timer_cleanup,
         user_hash_fini, vars
<1> QED
  BY <1>1, <1>2, PTL DEF Spec
=============================================================================
