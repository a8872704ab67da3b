---------------------------- MODULE NmsgProofs -----------------------------
(***************************************************************************)
(* The message queue of NmsgQueue.tla for any finite set of CPUs, any      *)
(* limit and any ring: the backlog is bounded, no wake-up is lost, every   *)
(* node is accounted for and the ring is used as MessageFifo allows; and   *)
(* on a single CPU only messages are published.                            *)
(***************************************************************************)
EXTENDS NmsgQueue, FiniteSetTheorems, SequenceTheorems, TLAPS

\* The CPUs that passed the count check and have not linked a node yet.
Passed == {c \in Cpus : epc[c] \in {"alloc", "link"}}

\* Strengthening of BacklogBounded: each CPU past the check is entitled to
\* one more node.
BacklogInv ==
    /\ list \in Seq(Nodes)
    /\ epc \in [Cpus -> {"idle", "check", "alloc", "link", "copy", "raise"}]
    /\ enode \in [Cpus -> Nodes \cup {None}]
    /\ \A c \in Cpus : epc[c] = "link" => enode[c] \in Nodes
    /\ wpc \in {"idle", "test", "lock", "fill", "free"}
    /\ WorkerLocked => list # <<>>
    /\ count = Len(list)
    /\ count + Cardinality(Passed) <= MaxCount + Cardinality(Cpus)

LEMMA CpusFinite ==
    /\ Cardinality(Cpus) \in Nat
    /\ \A S \in SUBSET Cpus : /\ IsFiniteSet(S)
                              /\ Cardinality(S) \in Nat
                              /\ Cardinality(S) <= Cardinality(Cpus)
  BY CpusAssumption, FS_CardinalityType, FS_Subset

LEMMA InitBacklog == Init => BacklogInv
<1> SUFFICES ASSUME Init PROVE BacklogInv
  OBVIOUS
<1>1. Passed = {}
  BY DEF Init, Passed
<1>2. Cardinality(Passed) = 0
  BY <1>1, FS_EmptySet
<1> QED
  BY <1>2, CpusFinite, MaxCountAssumption
  DEF Init, BacklogInv, WorkerLocked

\* Every step of an enqueuer, of the worker and of ntrackd keeps the bound.
LEMMA NextBacklog == BacklogInv /\ [Next]_vars => BacklogInv'
<1> SUFFICES ASSUME BacklogInv, [Next]_vars PROVE BacklogInv'
  OBVIOUS
<1> USE DEF BacklogInv, WorkerLocked
<1>0. /\ Passed \in SUBSET Cpus
      /\ Cardinality(Passed) \in Nat
      /\ Cardinality(Cpus) \in Nat
      /\ IsFiniteSet(Passed)
      /\ MaxCount \in Nat
      /\ count \in Nat
  BY CpusFinite, MaxCountAssumption DEF Passed
<1>1. ASSUME NEW c \in Cpus, NEW m \in Messages \cup {TooBig},
             EnqueueCall(c, m)
      PROVE  BacklogInv'
  <2>1. Passed' = Passed
    BY <1>1 DEF EnqueueCall, Goto, Passed
  <2> QED
    BY <1>1, <2>1 DEF EnqueueCall, Goto, wvars
<1>2. ASSUME NEW c \in Cpus, EnqueueCheck(c) PROVE BacklogInv'
  <2>1. CASE count > MaxCount \/ emsg[c] = TooBig
    <3>1. Passed' = Passed
      BY <1>2, <2>1 DEF EnqueueCheck, Goto, Passed
    <3> QED
      BY <1>2, <2>1, <3>1 DEF EnqueueCheck, Goto, wvars
  <2>2. CASE ~(count > MaxCount \/ emsg[c] = TooBig)
    <3>1. Passed' \in SUBSET Cpus
      BY DEF Passed
    <3>2. Cardinality(Passed') \in Nat /\ Cardinality(Passed') <= Cardinality(Cpus)
      BY <3>1, CpusFinite
    <3>3. count' + Cardinality(Passed') <= MaxCount + Cardinality(Cpus)
      BY <1>0, <1>2, <2>2, <3>2 DEF EnqueueCheck
    <3> QED
      BY <1>2, <2>2, <3>3 DEF EnqueueCheck, Goto, wvars
  <2> QED
    BY <2>1, <2>2
<1>3. ASSUME NEW c \in Cpus, EnqueueAlloc(c) PROVE BacklogInv'
  <2>1. Passed' = Passed
    BY <1>3 DEF EnqueueAlloc, Goto, Passed
  <2> QED
    BY <1>3, <2>1 DEF EnqueueAlloc, Goto, wvars
<1>4. ASSUME NEW c \in Cpus, EnqueueNoMemory(c) PROVE BacklogInv'
  <2>1. Passed' = Passed \ {c} /\ c \in Passed
    BY <1>4 DEF EnqueueNoMemory, Goto, Passed
  <2>2. Cardinality(Passed') = Cardinality(Passed) - 1
    BY <1>0, <2>1, FS_RemoveElement
  <2> QED
    BY <1>0, <1>4, <2>2 DEF EnqueueNoMemory, Goto, wvars
<1>5. ASSUME NEW c \in Cpus, EnqueueLink(c) PROVE BacklogInv'
  <2>1. Passed' = Passed \ {c} /\ c \in Passed
    BY <1>5 DEF EnqueueLink, Goto, Passed
  <2>2. Cardinality(Passed') = Cardinality(Passed) - 1
    BY <1>0, <2>1, FS_RemoveElement
  <2>3. list' \in Seq(Nodes) /\ Len(list') = Len(list) + 1
    BY <1>5 DEF EnqueueLink
  <2> QED
    BY <1>0, <1>5, <2>2, <2>3 DEF EnqueueLink, LockFree, Goto, wvars
<1>6. ASSUME NEW c \in Cpus, EnqueueCopy(c) PROVE BacklogInv'
  <2>1. Passed' = Passed
    BY <1>6 DEF EnqueueCopy, Goto, Passed
  <2> QED
    BY <1>6, <2>1 DEF EnqueueCopy, Goto, wvars
<1>7. ASSUME NEW c \in Cpus, EnqueueRaise(c) PROVE BacklogInv'
  <2>1. Passed' = Passed
    BY <1>7 DEF EnqueueRaise, Goto, Passed
  <2> QED
    BY <1>7, <2>1 DEF EnqueueRaise, Goto, wvars
<1>8. CASE WorkStart \/ WorkTest \/ WorkTake \/ WorkFill
  <2>1. Passed' = Passed
    BY <1>8 DEF WorkStart, WorkTest, WorkTake, WorkFill, evars, Passed
  <2> QED
    BY <1>8, <2>1 DEF WorkStart, WorkTest, WorkTake, WorkFill, evars
<1>9. CASE WorkFree
  <2>1. Passed' = Passed
    BY <1>9 DEF WorkFree, evars, Passed
  <2>2. list' \in Seq(Nodes) /\ Len(list') = Len(list) - 1
    BY <1>9 DEF WorkFree
  <2> QED
    BY <1>0, <1>9, <2>1, <2>2 DEF WorkFree, evars
<1>10. CASE Daemon \/ UNCHANGED vars
  <2>1. Passed' = Passed
    BY <1>10 DEF Daemon, vars, evars, Passed
  <2> QED
    BY <1>10, <2>1 DEF Daemon, vars, evars, wvars
<1> QED
  BY <1>1, <1>2, <1>3, <1>4, <1>5, <1>6, <1>7, <1>8, <1>9, <1>10
  DEF Next, Enqueue, Worker

\* The backlog exceeds NCAP_MAX_COUNT by at most one node per CPU, and count
\* is the length of the list.
THEOREM NmsgBacklogBounded == Spec => []BacklogBounded
<1>1. BacklogInv => BacklogBounded
  <2> SUFFICES ASSUME BacklogInv PROVE BacklogBounded
    OBVIOUS
  <2>1. Passed \in SUBSET Cpus
    BY DEF Passed
  <2> QED
    BY <2>1, CpusFinite, MaxCountAssumption DEF BacklogInv, BacklogBounded
<1> QED
  BY InitBacklog, NextBacklog, <1>1, PTL DEF Spec

\* No wake-up is lost: whatever the interleaving of hooks and worker, nodes
\* in the list always have a worker run ahead of them.
THEOREM NmsgNoLostWakeup == Spec => []NoLostWakeup
<1>1. Init => NoLostWakeup
  BY DEF Init, NoLostWakeup
<1>2. BacklogInv /\ NoLostWakeup /\ [Next]_vars => NoLostWakeup'
  <2> SUFFICES ASSUME BacklogInv, NoLostWakeup, [Next]_vars
               PROVE  NoLostWakeup'
    OBVIOUS
  <2> USE DEF NoLostWakeup, BacklogInv
  <2>1. ASSUME NEW c \in Cpus, NEW m \in Messages \cup {TooBig},
               EnqueueCall(c, m)
        PROVE  NoLostWakeup'
    BY <2>1 DEF EnqueueCall, Goto, wvars
  <2>2. ASSUME NEW c \in Cpus,
               EnqueueCheck(c) \/ EnqueueAlloc(c) \/ EnqueueNoMemory(c)
        PROVE  NoLostWakeup'
    BY <2>2 DEF EnqueueCheck, EnqueueAlloc, EnqueueNoMemory, Goto, wvars
  <2>3. ASSUME NEW c \in Cpus,
               EnqueueLink(c) \/ EnqueueCopy(c) \/ EnqueueRaise(c)
        PROVE  NoLostWakeup'
    BY <2>3 DEF EnqueueLink, EnqueueCopy, EnqueueRaise, Goto, wvars
  <2>4. CASE WorkStart \/ WorkTake \/ WorkFill \/ WorkFree
    BY <2>4 DEF WorkStart, WorkTake, WorkFill, WorkFree, evars
  <2>5. CASE WorkTest
    BY <2>5 DEF WorkTest, evars
  <2>6. CASE Daemon \/ UNCHANGED vars
    BY <2>6 DEF Daemon, vars, evars, wvars
  <2> QED
    BY <2>1, <2>2, <2>3, <2>4, <2>5, <2>6 DEF Next, Enqueue, Worker
<1> QED
  BY InitBacklog, NextBacklog, <1>1, <1>2, PTL DEF Spec

(***************************************************************************)
(* One CPU: a softirq runs to its end before the worker goes on.           *)
(***************************************************************************)

\* Contents of the node at place i, unless it is the one being filled.
Filled(i) == \/ content[list[i]] \in Messages
             \/ epc[Home] = "copy" /\ list[i] = enode[Home]

\* The listed nodes are live and distinct, so that neither kmalloc nor a
\* fill touches the contents of another one.
ListInv ==
    /\ list \in Seq(Nodes)
    /\ \A i \in 1 .. Len(list) : list[i] \in live
    /\ \A i, j \in 1 .. Len(list) : list[i] = list[j] => i = j
    /\ live \subseteq Nodes
    /\ content \in [Nodes -> Messages \cup {Garbage}]

SoftirqInv ==
    /\ epc \in [Cpus -> {"idle", "check", "alloc", "link", "copy", "raise"}]
    /\ enode \in [Cpus -> Nodes \cup {None}]
    /\ emsg \in [Cpus -> Messages \cup {TooBig, None}]
    /\ epc[Home] = "check" => emsg[Home] \in Messages \cup {TooBig}
    /\ epc[Home] \in {"alloc", "link", "copy"} => emsg[Home] \in Messages
    /\ epc[Home] = "link" => /\ enode[Home] \in live
                             /\ \A i \in 1 .. Len(list) : list[i] # enode[Home]
    /\ epc[Home] = "copy" => enode[Home] \in live

WorkerInv ==
    /\ wpc \in {"idle", "test", "lock", "fill", "free"}
    /\ WorkerLocked => /\ epc[Home] = "idle"
                       /\ list # <<>>
                       /\ wnode = list[1]

FilledInv ==
    /\ \A i \in 1 .. Len(list) : Filled(i)
    /\ ring \in Seq(Messages)
    /\ handling # None => ring # <<>>

OneCpuInv == ListInv /\ SoftirqInv /\ WorkerInv /\ FilledInv

\* A step on one CPU keeps the invariant.
LEMMA NextOneCpu ==
    ASSUME Cpus = {Home}
    PROVE  OneCpuInv /\ [Next]_vars => OneCpuInv'
<1> SUFFICES ASSUME OneCpuInv, [Next]_vars PROVE OneCpuInv'
  OBVIOUS
<1> USE NamesAssumption DEF OneCpuInv, WorkerLocked
<1>1. ASSUME NEW m \in Messages \cup {TooBig}, EnqueueCall(Home, m)
      PROVE  OneCpuInv'
  BY <1>1 DEF EnqueueCall, Goto, wvars, rvars, ListInv, SoftirqInv,
              WorkerInv, FilledInv, Filled
<1>2. CASE EnqueueCheck(Home) \/ EnqueueNoMemory(Home) \/ EnqueueRaise(Home)
  BY <1>2 DEF EnqueueCheck, EnqueueNoMemory, EnqueueRaise, Goto, wvars, rvars,
              ListInv, SoftirqInv, WorkerInv, FilledInv, Filled
<1>3. CASE EnqueueAlloc(Home)
  BY <1>3 DEF EnqueueAlloc, Goto, wvars, rvars, ListInv, SoftirqInv,
              WorkerInv, FilledInv, Filled
<1>4. CASE EnqueueLink(Home)
  <2>1. /\ list' \in Seq(Nodes)
        /\ Len(list) \in Nat
        /\ Len(list') = Len(list) + 1
        /\ list'[1] = enode[Home]
        /\ \A i \in 2 .. Len(list') : i - 1 \in 1 .. Len(list) /\ list'[i] = list[i - 1]
    <3> DEFINE x == enode[Home]
    <3>1. x \in Nodes /\ list \in Seq(Nodes) /\ list' = <<x>> \o list
      BY <1>4 DEF EnqueueLink, ListInv, SoftirqInv
    <3> HIDE DEF x
    <3>2. <<x>> \in Seq(Nodes) /\ Len(<<x>>) = 1 /\ <<x>>[1] = x
      BY <3>1
    <3>3. /\ list' \in Seq(Nodes)
          /\ Len(list) \in Nat
          /\ Len(list') = Len(list) + 1
          /\ \A i \in 1 .. Len(list) + 1 :
                list'[i] = IF i <= 1 THEN <<x>>[i] ELSE list[i - 1]
      BY <3>1, <3>2, ConcatProperties, LenProperties
    <3> QED
      BY <3>2, <3>3 DEF x
  <2>2. /\ live' = live /\ content' = content /\ enode' = enode
        /\ epc' = [epc EXCEPT ![Home] = "copy"]
        /\ emsg' = emsg /\ wpc' = wpc /\ wnode' = wnode
        /\ ring' = ring /\ handling' = handling
    BY <1>4 DEF EnqueueLink, Goto, wvars, rvars
  <2>3. \A i \in 1 .. Len(list') : i = 1 \/ i \in 2 .. Len(list')
    BY <2>1 DEF ListInv
  <2>4. ListInv'
    <3>1. enode[Home] \in live /\ \A i \in 1 .. Len(list) : list[i] # enode[Home]
      BY <1>4 DEF EnqueueLink, SoftirqInv
    <3>2. \A i \in 1 .. Len(list') : list'[i] \in live'
      BY <2>1, <2>2, <2>3, <3>1 DEF ListInv
    <3>3. ASSUME NEW i \in 1 .. Len(list'), NEW j \in 1 .. Len(list'),
                 list'[i] = list'[j]
          PROVE  i = j
      <4>1. CASE i = 1 \/ j = 1
        BY <2>1, <2>3, <3>1, <3>3, <4>1
      <4>2. CASE i # 1 /\ j # 1
        <5>1. /\ i - 1 \in 1 .. Len(list)
              /\ j - 1 \in 1 .. Len(list)
              /\ list[i - 1] = list[j - 1]
          BY <2>1, <2>3, <3>3, <4>2
        <5>2. i - 1 = j - 1
          BY <5>1 DEF ListInv
        <5> QED
          BY <2>1, <5>2
      <4> QED
        BY <4>1, <4>2
    <3> QED
      BY <2>1, <2>2, <3>2, <3>3 DEF ListInv
  <2>5. SoftirqInv' /\ WorkerInv'
    BY <1>4, <2>1, <2>2 DEF EnqueueLink, LockFree, SoftirqInv, WorkerInv
  <2>6. FilledInv'
    <3>1. \A i \in 1 .. Len(list) : content[list[i]] \in Messages
      BY <1>4 DEF EnqueueLink, FilledInv, Filled
    <3>2. epc'[Home] = "copy"
      BY <2>2 DEF SoftirqInv
    <3> QED
      BY <2>1, <2>2, <2>3, <3>1, <3>2 DEF FilledInv, Filled
  <2> QED
    BY <2>4, <2>5, <2>6
<1>5. CASE EnqueueCopy(Home)
  BY <1>5 DEF EnqueueCopy, Goto, wvars, rvars, ListInv, SoftirqInv,
              WorkerInv, FilledInv, Filled
<1>6. CASE WorkStart \/ WorkTest
  BY <1>6 DEF WorkStart, WorkTest, evars, rvars, ListInv, SoftirqInv,
              WorkerInv, FilledInv, Filled
<1>7. CASE WorkTake
  <2>1. list # <<>> => Head(list) = list[1]
    BY DEF ListInv
  <2> QED
    BY <1>7, <2>1 DEF WorkTake, WorkerRuns, evars, rvars, ListInv, SoftirqInv,
                      WorkerInv, FilledInv, Filled
<1>8. CASE WorkFill
  <2>1. content[wnode] \in Messages
    BY <1>8 DEF WorkFill, ListInv, WorkerInv, FilledInv, Filled
  <2>2. ring' \in Seq(Messages) /\ (handling # None => ring' # <<>>)
    BY <1>8, <2>1 DEF WorkFill, FilledInv
  <2> QED
    BY <1>8, <2>2 DEF WorkFill, evars, ListInv, SoftirqInv, WorkerInv,
                      FilledInv, Filled
<1>9. CASE WorkFree
  <2>1. /\ list' \in Seq(Nodes)
        /\ Len(list') = Len(list) - 1
        /\ \A i \in 1 .. Len(list') : i + 1 \in 1 .. Len(list) /\ list'[i] = list[i + 1]
    BY <1>9 DEF WorkFree, ListInv, WorkerInv
  <2>2. ListInv'
    BY <1>9, <2>1 DEF WorkFree, ListInv, WorkerInv
  <2>3. SoftirqInv' /\ WorkerInv' /\ FilledInv'
    BY <1>9, <2>1 DEF WorkFree, WorkerInv, SoftirqInv, FilledInv, Filled,
                      evars, rvars
  <2> QED
    BY <2>2, <2>3
<1>10. CASE Daemon
  <2>1. ring' \in Seq(Messages) /\ (handling' # None => ring' # <<>>)
    BY <1>10 DEF Daemon, Ring!Handle, Ring!Finish, Ring!Abandon, FilledInv
  <2> QED
    BY <1>10, <2>1 DEF Daemon, evars, wvars, ListInv, SoftirqInv, WorkerInv,
                       FilledInv, Filled
<1>11. CASE UNCHANGED vars
  BY <1>11 DEF vars, evars, wvars, rvars, ListInv, SoftirqInv, WorkerInv,
               FilledInv, Filled
<1> QED
  BY <1>1, <1>2, <1>3, <1>4, <1>5, <1>6, <1>7, <1>8, <1>9, <1>10, <1>11
  DEF Next, Enqueue, Worker

\* On one CPU only messages are published, whatever the ring and the limit:
\* there filling the node after the unlock does no harm.
THEOREM NmsgOneCpu ==
    ASSUME Cpus = {Home}
    PROVE  Spec => []OnlyMessagesPublished
<1>1. Init => OneCpuInv
  BY DEF Init, Ring!Init, OneCpuInv, ListInv, SoftirqInv, WorkerInv, FilledInv,
         Filled, WorkerLocked
<1>2. OneCpuInv /\ [Next]_vars => OneCpuInv'
  BY NextOneCpu
<1>3. OneCpuInv => OnlyMessagesPublished
  BY DEF OneCpuInv, FilledInv, OnlyMessagesPublished
<1> QED
  BY <1>1, <1>2, <1>3, PTL DEF Spec

(***************************************************************************)
(* Memory, on any number of CPUs.                                          *)
(***************************************************************************)

\* What list_add does to the list ...
LEMMA ListAdd ==
    ASSUME NEW S, NEW s \in Seq(S), NEW x \in S
    PROVE  /\ <<x>> \o s \in Seq(S)
           /\ Len(<<x>> \o s) = Len(s) + 1
           /\ (<<x>> \o s)[1] = x
           /\ \A i \in 1 .. Len(s) : (<<x>> \o s)[i + 1] = s[i]
           /\ \A i \in 2 .. Len(s) + 1 : /\ i - 1 \in 1 .. Len(s)
                                        /\ (<<x>> \o s)[i] = s[i - 1]
<1>1. PICK t \in Seq(S) : t = <<x>> /\ Len(t) = 1 /\ t[1] = x
  <2>1. <<x>> \in Seq(S) /\ Len(<<x>>) = 1 /\ <<x>>[1] = x
    OBVIOUS
  <2> QED
    BY <2>1
<1>2. /\ t \o s \in Seq(S)
      /\ Len(t \o s) = 1 + Len(s)
      /\ \A i \in 1 .. 1 + Len(s) : (t \o s)[i] = IF i <= 1 THEN t[i] ELSE s[i - 1]
  BY <1>1, ConcatProperties
<1>3. Len(s) \in Nat
  BY LenProperties
<1>4. /\ (t \o s)[1] = x
      /\ \A i \in 1 .. Len(s) : (t \o s)[i + 1] = s[i]
      /\ \A i \in 2 .. Len(s) + 1 : i - 1 \in 1 .. Len(s) /\ (t \o s)[i] = s[i - 1]
  BY <1>1, <1>2, <1>3
<1> QED
  BY <1>1, <1>2, <1>3, <1>4

\* ... and list_del of the first entry.
LEMMA ListDelFirst ==
    ASSUME NEW S, NEW s \in Seq(S), s # <<>>
    PROVE  /\ Tail(s) \in Seq(S)
           /\ Len(s) \in Nat \ {0}
           /\ Len(Tail(s)) = Len(s) - 1
           /\ \A i \in 1 .. Len(Tail(s)) : /\ i + 1 \in 1 .. Len(s)
                                          /\ Tail(s)[i] = s[i + 1]
           /\ \A i \in 2 .. Len(s) : /\ i - 1 \in 1 .. Len(Tail(s))
                                    /\ Tail(s)[i - 1] = s[i]
  OBVIOUS

\* What an enqueuer holds: past the check a message, and a node of its own
\* from kmalloc to list_add.
EnqueuerInv ==
    \A c \in Cpus :
        /\ epc[c] = "check" => emsg[c] \in Messages \cup {TooBig}
        /\ epc[c] \in {"alloc", "link", "copy"} => emsg[c] \in Messages
        /\ epc[c] \in {"link", "copy"} => enode[c] \in Nodes
        /\ epc[c] = "link" => /\ enode[c] \in live
                              /\ \A i \in 1 .. Len(list) : list[i] # enode[c]
                              /\ \A d \in Cpus \ {c} : epc[d] = "link" => enode[d] # enode[c]

\* What the worker holds under the lock, and ntrackd while it handles.
TakerInv ==
    /\ WorkerLocked => list # <<>> /\ wnode = list[1]
    /\ handling # None => ring # <<>>

AccountInv == TypeOK /\ NodesAccounted /\ EnqueuerInv /\ TakerInv

LEMMA InitAccount == Init => AccountInv
  BY NamesAssumption DEF Init, Ring!Init, AccountInv, TypeOK, NodesAccounted,
     EnqueuerInv, TakerInv, WorkerLocked

LEMMA NextAccount == AccountInv /\ [Next]_vars => AccountInv'
<1> SUFFICES ASSUME AccountInv, [Next]_vars PROVE AccountInv'
  OBVIOUS
<1> USE NamesAssumption DEF AccountInv, WorkerLocked, Goto, evars, wvars, rvars
<1>0. Len(list) \in Nat
  BY LenProperties DEF TypeOK
<1>1. ASSUME NEW c \in Cpus, NEW m \in Messages \cup {TooBig}, EnqueueCall(c, m)
      PROVE  AccountInv'
  <2> USE <1>1 DEF EnqueueCall
  <2>1. TypeOK' BY DEF TypeOK
  <2>2. NodesAccounted' BY DEF TypeOK, NodesAccounted
  <2>3. EnqueuerInv' BY DEF TypeOK, EnqueuerInv
  <2>4. TakerInv' BY DEF TakerInv
  <2> QED BY <2>1, <2>2, <2>3, <2>4
<1>2. ASSUME NEW c \in Cpus, EnqueueCheck(c) \/ EnqueueNoMemory(c) \/ EnqueueRaise(c)
      PROVE  AccountInv'
  <2> USE <1>2 DEF EnqueueCheck, EnqueueNoMemory, EnqueueRaise
  <2>1. TypeOK' BY DEF TypeOK
  <2>2. NodesAccounted'
    <3>1. list' = list /\ live' = live OBVIOUS
    <3>2. ASSUME NEW d \in Cpus, epc[d] = "link"
          PROVE  epc'[d] = "link" /\ enode'[d] = enode[d]
      <4>1. d # c BY <3>2
      <4> QED BY <3>2, <4>1 DEF TypeOK
    <3> QED
      BY <3>1, <3>2 DEF NodesAccounted
  <2>3. EnqueuerInv' BY DEF TypeOK, EnqueuerInv
  <2>4. TakerInv' BY DEF TakerInv
  <2> QED BY <2>1, <2>2, <2>3, <2>4
<1>3. ASSUME NEW c \in Cpus, EnqueueAlloc(c) PROVE AccountInv'
  <2> USE <1>3 DEF EnqueueAlloc
  <2>1. TypeOK' BY DEF TypeOK
  <2>2. NodesAccounted' BY DEF TypeOK, NodesAccounted
  <2>3. EnqueuerInv' BY DEF TypeOK, NodesAccounted, EnqueuerInv
  <2>4. TakerInv' BY DEF TakerInv
  <2> QED BY <2>1, <2>2, <2>3, <2>4
<1>4. ASSUME NEW c \in Cpus, EnqueueLink(c) PROVE AccountInv'
  <2> USE <1>4 DEF EnqueueLink, LockFree
  <2>0. /\ enode[c] \in live /\ enode[c] \in Nodes
        /\ \A i \in 1 .. Len(list) : list[i] # enode[c]
    BY DEF EnqueuerInv
  <2>a. /\ list' \in Seq(Nodes)
        /\ Len(list') = Len(list) + 1
        /\ list'[1] = enode[c]
        /\ \A i \in 1 .. Len(list) : list'[i + 1] = list[i]
        /\ \A i \in 2 .. Len(list) + 1 : i - 1 \in 1 .. Len(list) /\ list'[i] = list[i - 1]
    BY <2>0, ListAdd DEF TypeOK
  <2>b. \A i \in 1 .. Len(list') : i = 1 \/ i \in 2 .. Len(list) + 1
    BY <1>0, <2>a
  <2>1. TypeOK' BY <2>a DEF TypeOK
  <2>2. NodesAccounted'
    <3>1. ASSUME NEW i \in 1 .. Len(list'), NEW j \in 1 .. Len(list'),
                 list'[i] = list'[j]
          PROVE  i = j
      <4>1. CASE i = 1 \/ j = 1
        <5>1. \A l \in 2 .. Len(list) + 1 : list'[l] # enode[c]
          BY <2>0, <2>a
        <5> HIDE <1>4
        <5> QED BY <2>a, <2>b, <3>1, <4>1, <5>1
      <4>2. CASE i # 1 /\ j # 1
        <5>1. /\ i - 1 \in 1 .. Len(list) /\ j - 1 \in 1 .. Len(list)
              /\ list[i - 1] = list[j - 1]
          BY <2>a, <2>b, <3>1, <4>2
        <5>2. i - 1 = j - 1
          BY <5>1 DEF NodesAccounted
        <5> QED
          BY <1>0, <2>a, <5>2
      <4> QED
        BY <4>1, <4>2
    <3>2. \A i \in 1 .. Len(list') : list'[i] \in live'
      BY <2>0, <2>a, <2>b DEF NodesAccounted
    <3>3. ASSUME NEW x \in live'
          PROVE  \/ \E i \in 1 .. Len(list') : list'[i] = x
                 \/ \E d \in Cpus : epc'[d] = "link" /\ enode'[d] = x
      <4>1. CASE x = enode[c]
        <5>1. 1 \in 1 .. Len(list') BY <1>0, <2>a
        <5> QED BY <2>a, <4>1, <5>1
      <4>2. ASSUME NEW i \in 1 .. Len(list), list[i] = x
            PROVE  \E j \in 1 .. Len(list') : list'[j] = x
        <5>1. i + 1 \in 1 .. Len(list') BY <1>0, <2>a
        <5> QED BY <2>a, <4>2, <5>1
      <4>3. ASSUME NEW d \in Cpus, epc[d] = "link", enode[d] = x, x # enode[c]
            PROVE  epc'[d] = "link" /\ enode'[d] = x
        BY <4>3 DEF TypeOK
      <4> QED
        BY <4>1, <4>2, <4>3 DEF NodesAccounted
    <3> QED
      BY <3>1, <3>2, <3>3 DEF NodesAccounted
  <2>3. EnqueuerInv'
    BY <2>0, <2>a, <2>b DEF TypeOK, EnqueuerInv
  <2>4. TakerInv' BY DEF TakerInv
  <2> QED BY <2>1, <2>2, <2>3, <2>4
<1>5. ASSUME NEW c \in Cpus, EnqueueCopy(c) PROVE AccountInv'
  <2> USE <1>5 DEF EnqueueCopy
  <2>1. TypeOK' BY DEF TypeOK, EnqueuerInv
  <2>2. NodesAccounted' BY DEF TypeOK, NodesAccounted
  <2>3. EnqueuerInv' BY DEF TypeOK, EnqueuerInv
  <2>4. TakerInv' BY DEF TakerInv
  <2> QED BY <2>1, <2>2, <2>3, <2>4
<1>6. CASE WorkStart \/ WorkTest \/ WorkTake
  <2> USE <1>6 DEF WorkStart, WorkTest, WorkTake
  <2>0. list # <<>> => Head(list) = list[1] /\ Head(list) \in Nodes
    BY DEF TypeOK
  <2>1. TypeOK' BY <2>0 DEF TypeOK
  <2>2. NodesAccounted' BY DEF NodesAccounted
  <2>3. EnqueuerInv' BY DEF EnqueuerInv
  <2>4. TakerInv' BY <2>0 DEF TakerInv
  <2> QED BY <2>1, <2>2, <2>3, <2>4
<1>7. CASE WorkFill
  <2> USE <1>7 DEF WorkFill
  <2>0. wnode \in Nodes /\ content[wnode] \in Messages \cup {Garbage}
    <3>1. wnode = list[1] /\ 1 \in 1 .. Len(list)
      BY <1>0, EmptySeq DEF TakerInv, TypeOK
    <3> QED BY <3>1, ElementOfSeq DEF TypeOK
  <2>a. ring' \in Seq(Messages \cup {Garbage}) /\ (ring # <<>> => ring' # <<>>)
    <3>1. ring' = ring \/ ring' = Append(ring, content[wnode])
      OBVIOUS
    <3>2. ring \in Seq(Messages \cup {Garbage})
      BY DEF TypeOK
    <3> HIDE <1>7 DEF AccountInv
    <3>3. /\ Append(ring, content[wnode]) \in Seq(Messages \cup {Garbage})
          /\ Append(ring, content[wnode]) # <<>>
      BY <2>0, <3>2, AppendProperties
    <3> QED BY <3>1, <3>2, <3>3
  <2>1. TypeOK' BY <2>a DEF TypeOK
  <2>2. NodesAccounted' BY DEF NodesAccounted
  <2>3. EnqueuerInv' BY DEF EnqueuerInv
  <2>4. TakerInv' BY <2>a DEF TakerInv
  <2> QED BY <2>1, <2>2, <2>3, <2>4
<1>8. CASE WorkFree
  <2> USE <1>8 DEF WorkFree
  <2>0. list # <<>> /\ wnode = list[1]
    BY DEF TakerInv
  <2>a. /\ list' \in Seq(Nodes)
        /\ Len(list) \in Nat \ {0}
        /\ Len(list') = Len(list) - 1
        /\ \A i \in 1 .. Len(list') : i + 1 \in 1 .. Len(list) /\ list'[i] = list[i + 1]
        /\ \A i \in 2 .. Len(list) : i - 1 \in 1 .. Len(list') /\ list'[i - 1] = list[i]
    BY <2>0, ListDelFirst DEF TypeOK
  <2>1. TypeOK' BY <2>a DEF TypeOK
  <2>2. NodesAccounted'
    <3>1. ASSUME NEW i \in 1 .. Len(list'), NEW j \in 1 .. Len(list'),
                 list'[i] = list'[j]
          PROVE  i = j
      <4>1. /\ i + 1 \in 1 .. Len(list) /\ j + 1 \in 1 .. Len(list)
            /\ list[i + 1] = list[j + 1]
        BY <2>a, <3>1
      <4>2. i + 1 = j + 1
        BY <4>1 DEF NodesAccounted
      <4> QED
        BY <2>a, <4>2
    <3>2. \A i \in 1 .. Len(list') : list'[i] \in live'
      <4>1. \A i \in 1 .. Len(list') : i + 1 # 1 /\ 1 \in 1 .. Len(list)
        BY <2>a
      <4> QED
        BY <2>0, <2>a, <4>1 DEF NodesAccounted
    <3>3. ASSUME NEW x \in live'
          PROVE  \/ \E i \in 1 .. Len(list') : list'[i] = x
                 \/ \E d \in Cpus : epc'[d] = "link" /\ enode'[d] = x
      <4>1. x \in live /\ x # list[1] BY <2>0
      <4>2. ASSUME NEW i \in 1 .. Len(list), list[i] = x
            PROVE  \E j \in 1 .. Len(list') : list'[j] = x
        <5>1. i \in 2 .. Len(list) BY <2>a, <4>1, <4>2
        <5> QED BY <2>a, <4>2, <5>1
      <4> QED
        BY <4>1, <4>2 DEF NodesAccounted
    <3> QED
      BY <3>1, <3>2, <3>3 DEF NodesAccounted
  <2>3. EnqueuerInv'
    <3>1. 1 \in 1 .. Len(list) BY <2>a
    <3> QED BY <2>0, <2>a, <3>1 DEF EnqueuerInv
  <2>4. TakerInv' BY DEF TakerInv
  <2> QED BY <2>1, <2>2, <2>3, <2>4
<1>9. CASE Daemon
  <2> USE <1>9 DEF Daemon, Ring!Handle, Ring!Finish, Ring!Abandon
  <2>0. /\ ring' \in Seq(Messages \cup {Garbage})
        /\ handling' \in Messages \cup {Garbage, None}
        /\ handling' # None => ring' # <<>>
    <3>1. ring # <<>> => /\ Head(ring) \in Messages \cup {Garbage}
                         /\ Tail(ring) \in Seq(Messages \cup {Garbage})
      BY HeadTailProperties DEF TypeOK
    <3>2. CASE Ring!Handle
      BY <3>1, <3>2 DEF TypeOK
    <3>3. CASE Ring!Finish
      BY <3>1, <3>3 DEF TypeOK, TakerInv
    <3>4. CASE Ring!Abandon
      BY <3>4 DEF TypeOK
    <3> QED
      BY <3>2, <3>3, <3>4
  <2>1. TypeOK' BY <2>0 DEF TypeOK
  <2>2. NodesAccounted' BY DEF NodesAccounted
  <2>3. EnqueuerInv' BY DEF EnqueuerInv
  <2>4. TakerInv' BY <2>0 DEF TakerInv
  <2> QED BY <2>1, <2>2, <2>3, <2>4
<1>10. CASE UNCHANGED vars
  <2> USE <1>10 DEF vars
  <2>1. TypeOK' BY DEF TypeOK
  <2>2. NodesAccounted' BY DEF NodesAccounted
  <2>3. EnqueuerInv' /\ TakerInv' BY DEF EnqueuerInv, TakerInv
  <2> QED BY <2>1, <2>2, <2>3
<1> QED
  BY <1>1, <1>2, <1>3, <1>4, <1>5, <1>6, <1>7, <1>8, <1>9, <1>10
  DEF Next, Enqueue, Worker

LEMMA AccountAlways == Spec => []AccountInv
<1>1. AccountInv /\ [Next]_vars => AccountInv'
  BY NextAccount
<1> QED
  BY InitAccount, <1>1, PTL DEF Spec

\* The variables keep their types on any number of CPUs: in particular only
\* messages, or a node that was not filled yet, reach the ring.
THEOREM NmsgTypeOK == Spec => []TypeOK
<1>1. AccountInv => TypeOK
  BY DEF AccountInv
<1> QED
  BY <1>1, AccountAlways, PTL

\* No node leaks, is freed twice, or is listed twice, on any number of CPUs.
THEOREM NmsgNodesAccounted == Spec => []NodesAccounted
<1>1. AccountInv => NodesAccounted
  BY DEF AccountInv
<1> QED
  BY <1>1, AccountAlways, PTL

\* The queue's worker and ntrackd use the ring only as MessageFifo allows,
\* which Rbf.tla is shown to implement (RbfImplementsFifo): the worker
\* publishes, ntrackd handles and takes off, everything else leaves it alone.
THEOREM NmsgUsesFifo == Spec => Ring!Spec
<1>1. Init => Ring!Init
  BY DEF Init
<1>2. AccountInv /\ [Next]_vars => [Ring!Next]_<<ring, handling>>
  <2> SUFFICES ASSUME AccountInv, [Next]_vars
               PROVE  [Ring!Next]_<<ring, handling>>
    OBVIOUS
  <2>1. CASE WorkFill
    <3>1. content[wnode] \in Messages \cup {Garbage}
      <4>1. Len(list) \in Nat /\ list # <<>> /\ wnode = list[1]
        BY <2>1, LenProperties DEF WorkFill, WorkerLocked, AccountInv, TakerInv, TypeOK
      <4>2. 1 \in 1 .. Len(list)
        BY <4>1, EmptySeq DEF AccountInv, TypeOK
      <4>3. wnode \in Nodes
        BY <4>1, <4>2, ElementOfSeq DEF AccountInv, TypeOK
      <4> QED
        BY <4>3 DEF AccountInv, TypeOK
    <3> QED
      BY <2>1, <3>1 DEF WorkFill, Ring!Next, Ring!Publish
  <2>2. CASE Daemon
    BY <2>2 DEF Daemon, Ring!Next
  <2>3. ASSUME ~WorkFill, ~Daemon PROVE UNCHANGED <<ring, handling>>
    BY <2>3 DEF Next, EnqueueCall, Enqueue, EnqueueCheck, EnqueueAlloc, EnqueueNoMemory,
       EnqueueLink, EnqueueCopy, EnqueueRaise, Worker, WorkStart, WorkTest, WorkTake,
       WorkFree, vars, rvars
  <2> QED
    BY <2>1, <2>2, <2>3
<1> QED
  BY <1>1, <1>2, AccountAlways, PTL DEF Spec, Ring!Spec
=============================================================================
