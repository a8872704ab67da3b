----------------------------- MODULE NmsgQueue -----------------------------
(***************************************************************************)
(* The kernel side of the message path, drivers/nos_track/src/ntrack_msg.c *)
(* for one target queue: the forward hooks of all CPUs enqueue into it     *)
(* (every hook passes key 0, so into the queue of CPU 0), and the          *)
(* workqueue function on the queue's CPU moves nodes to the shared ring.   *)
(*                                                                         *)
(* The ring is the queue of MessageFifo, which Rbf.tla is shown to         *)
(* implement; ntrackd's side of it is the environment here.                *)
(*                                                                         *)
(* What the code reads without the lock is a step of its own: the count    *)
(* check of nmsg_enqueue, the list_empty of nmsg_dequeue and the two       *)
(* memcpy into the node, which come after the node has been linked and the *)
(* lock dropped.  An enqueuer's critical section is one step; the worker's *)
(* is several, because it copies the node while it holds the lock.         *)
(*                                                                         *)
(* Enqueuers run in softirq.  On the queue's own CPU a softirq runs to its *)
(* end before the worker goes on, and spin_lock_bh keeps softirqs out      *)
(* while the worker has the lock.  Softirqs on other CPUs interleave with  *)
(* the worker at every step.                                               *)
(***************************************************************************)
EXTENDS Integers, Sequences, FiniteSets

CONSTANTS Cpus,      \* the CPUs whose hooks enqueue
          Home,      \* the CPU of the queue, where its worker runs
          MaxCount,  \* NCAP_MAX_COUNT
          Messages,  \* messages that fit a ring slot
          TooBig,    \* a message longer than RBF_NODE_SIZE
          Nodes,     \* the memory kmalloc hands nodes out of
          Garbage,   \* contents of a node between kmalloc and the memcpys
          Capacity,  \* what the ring holds, count - 1
          None

ASSUME CpusAssumption == IsFiniteSet(Cpus)
ASSUME MaxCountAssumption == MaxCount \in Nat
ASSUME NamesAssumption == /\ Garbage \notin Messages
                          /\ None \notin Nodes

VARIABLES list,      \* nmsg->list, first entry first
          count,     \* nmsg->count
          live,      \* nodes that are kmalloced and not kfreed
          content,   \* node->buff_size and node->buff
          epc,       \* where each CPU is in nmsg_enqueue
          enode,     \* its local node
          emsg,      \* its arguments hdr and buf_in
          pending,   \* the PENDING bit of nmsg->wq_msg
          wpc,       \* where the worker is in nmsg_wq_dequeue_func
          wnode,     \* its local node
          ring,      \* messages published to ntrackd, oldest first
          handling   \* the message ntrackd is handling

evars == <<epc, enode, emsg>>
wvars == <<wpc, wnode>>
rvars == <<ring, handling>>
vars == <<list, count, live, content, evars, pending, wvars, rvars>>

\* ntrackd's end of the ring.
Ring == INSTANCE MessageFifo
        WITH Messages <- Messages \cup {Garbage}, queue <- ring

\* The worker is between spin_lock_bh and spin_unlock_bh.
WorkerLocked == wpc \in {"fill", "free"}

\* nmsg->lock is free, as far as an enqueuer is concerned.
LockFree == ~WorkerLocked

\* A softirq on Home suspends the worker.
WorkerRuns == Home \in Cpus => epc[Home] = "idle"

(***************************************************************************)
(* nmsg_enqueue                                                            *)
(***************************************************************************)

Goto(c, pc) == epc' = [epc EXCEPT ![c] = pc]

EnqueueCall(c, m) ==
    /\ epc[c] = "idle"
    /\ c = Home => ~WorkerLocked
    /\ emsg' = [emsg EXCEPT ![c] = m]
    /\ Goto(c, "check")
    /\ UNCHANGED <<list, count, live, content, enode, pending, wvars, rvars>>

\* Mutant: the queue is never found full.
EnqueueCheck_NoLimit(c) ==
    /\ epc[c] = "check"
    /\ Goto(c, IF emsg[c] = TooBig THEN "idle" ELSE "alloc")
    /\ UNCHANGED <<list, count, live, content, enode, emsg, pending, wvars, rvars>>

\* Mutant: a message of any size is accepted.
EnqueueCheck_NoSize(c) ==
    /\ epc[c] = "check"
    /\ Goto(c, IF count > MaxCount THEN "idle" ELSE "alloc")
    /\ UNCHANGED <<list, count, live, content, enode, emsg, pending, wvars, rvars>>

\* "queue list full" is -ENOMEM, "too big message frame" -EINVAL.
EnqueueCheck(c) ==
    /\ epc[c] = "check"
    /\ Goto(c, IF count > MaxCount \/ emsg[c] = TooBig THEN "idle" ELSE "alloc")
    /\ UNCHANGED <<list, count, live, content, enode, emsg, pending, wvars, rvars>>

EnqueueAlloc(c) ==
    /\ epc[c] = "alloc"
    /\ \E n \in Nodes \ live :
          /\ live' = live \cup {n}
          /\ content' = [content EXCEPT ![n] = Garbage]
          /\ enode' = [enode EXCEPT ![c] = n]
    /\ Goto(c, "link")
    /\ UNCHANGED <<list, count, emsg, pending, wvars, rvars>>

\* kmalloc(GFP_ATOMIC) may fail at any time.
EnqueueNoMemory(c) ==
    /\ epc[c] = "alloc"
    /\ Goto(c, "idle")
    /\ UNCHANGED <<list, count, live, content, enode, emsg, pending, wvars, rvars>>

\* The critical section: count ++ and list_add, which puts the node first.
EnqueueLink(c) ==
    /\ epc[c] = "link"
    /\ LockFree
    /\ count' = count + 1
    /\ list' = <<enode[c]>> \o list
    /\ Goto(c, "copy")
    /\ UNCHANGED <<live, content, enode, emsg, pending, wvars, rvars>>

\* buff_size and the two memcpy, after the unlock.
EnqueueCopy(c) ==
    /\ epc[c] = "copy"
    /\ content' = [content EXCEPT ![enode[c]] = emsg[c]]
    /\ Goto(c, "raise")
    /\ UNCHANGED <<list, count, live, enode, emsg, pending, wvars, rvars>>

\* Mutant: the work is raised only by the enqueuer that finds the list to
\* hold its own node alone.
EnqueueRaise_OnlyFirst(c) ==
    /\ epc[c] = "raise"
    /\ pending' = (pending \/ Len(list) = 1)
    /\ Goto(c, "idle")
    /\ enode' = [enode EXCEPT ![c] = None]
    /\ UNCHANGED <<list, count, live, content, emsg, wvars, rvars>>

\* queue_work_on: no effect when the work is pending already.
EnqueueRaise(c) ==
    /\ epc[c] = "raise"
    /\ pending' = TRUE
    /\ Goto(c, "idle")
    /\ enode' = [enode EXCEPT ![c] = None]
    /\ UNCHANGED <<list, count, live, content, emsg, wvars, rvars>>

(***************************************************************************)
(* nmsg_wq_dequeue_func and nmsg_dequeue                                   *)
(***************************************************************************)

\* The workqueue clears PENDING before it calls the function, so that a
\* raise during the call runs it again.
WorkStart ==
    /\ WorkerRuns
    /\ wpc = "idle"
    /\ pending
    /\ pending' = FALSE
    /\ wpc' = "test"
    /\ UNCHANGED <<list, count, live, content, evars, wnode, rvars>>

\* list_empty, without the lock: -1 ends the loop.
WorkTest ==
    /\ WorkerRuns
    /\ wpc = "test"
    /\ wpc' = IF list = <<>> THEN "idle" ELSE "lock"
    /\ UNCHANGED <<list, count, live, content, evars, pending, wnode, rvars>>

\* spin_lock_bh and list_first_entry_or_null.
WorkTake ==
    /\ WorkerRuns
    /\ wpc = "lock"
    /\ wnode' = IF list = <<>> THEN None ELSE Head(list)
    /\ wpc' = IF list = <<>> THEN "test" ELSE "fill"
    /\ UNCHANGED <<list, count, live, content, evars, pending, rvars>>

\* nmsg_fill_buffer: a full ring loses the message, the result is ignored.
WorkFill ==
    /\ WorkerRuns
    /\ wpc = "fill"
    /\ ring' = IF Len(ring) < Capacity THEN Append(ring, content[wnode]) ELSE ring
    /\ wpc' = "free"
    /\ UNCHANGED <<list, count, live, content, evars, pending, wnode, handling>>

\* Mutant: the work function takes one node per call, not all of them.
WorkFree_One ==
    /\ WorkerRuns
    /\ wpc = "free"
    /\ count' = count - 1
    /\ list' = Tail(list)
    /\ live' = live \ {wnode}
    /\ wnode' = None
    /\ wpc' = "idle"
    /\ UNCHANGED <<content, evars, pending, rvars>>

\* Mutant: the node is unlinked and not freed.
WorkFree_Leak ==
    /\ WorkerRuns
    /\ wpc = "free"
    /\ count' = count - 1
    /\ list' = Tail(list)
    /\ wnode' = None
    /\ wpc' = "test"
    /\ UNCHANGED <<live, content, evars, pending, rvars>>

\* count --, list_del, kfree and spin_unlock_bh.
WorkFree ==
    /\ WorkerRuns
    /\ wpc = "free"
    /\ count' = count - 1
    /\ list' = Tail(list)
    /\ live' = live \ {wnode}
    /\ wnode' = None
    /\ wpc' = "test"
    /\ UNCHANGED <<content, evars, pending, rvars>>

(***************************************************************************)
(* nmsg_init: everything empty, and one "test call" of the work.           *)
(***************************************************************************)
Init ==
    /\ list = <<>>
    /\ count = 0
    /\ live = {}
    /\ content = [n \in Nodes |-> Garbage]
    /\ epc = [c \in Cpus |-> "idle"]
    /\ enode = [c \in Cpus |-> None]
    /\ emsg = [c \in Cpus |-> None]
    /\ pending = TRUE
    /\ wpc = "idle"
    /\ wnode = None
    /\ Ring!Init

Enqueue(c) == \/ EnqueueCheck(c)
              \/ EnqueueAlloc(c)
              \/ EnqueueNoMemory(c)
              \/ EnqueueLink(c)
              \/ EnqueueCopy(c)
              \/ EnqueueRaise(c)

Worker == WorkStart \/ WorkTest \/ WorkTake \/ WorkFill \/ WorkFree

Daemon == /\ Ring!Handle \/ Ring!Finish \/ Ring!Abandon
          /\ UNCHANGED <<list, count, live, content, evars, pending, wvars>>

Next == \/ \E c \in Cpus, m \in Messages \cup {TooBig} : EnqueueCall(c, m)
        \/ \E c \in Cpus : Enqueue(c)
        \/ Worker
        \/ Daemon

Spec == Init /\ [][Next]_vars

(***************************************************************************)
(* A softirq that has started runs to its end, and the workqueue's thread  *)
(* is scheduled when no softirq holds its CPU.  Nothing obliges a hook to  *)
(* enqueue.                                                                *)
(***************************************************************************)
FairSpec == /\ Spec
            /\ \A c \in Cpus : WF_vars(Enqueue(c))
            /\ WF_vars(Worker)

(***************************************************************************)
(* Properties.                                                             *)
(***************************************************************************)

TypeOK ==
    /\ list \in Seq(Nodes)
    /\ count \in Int
    /\ live \subseteq Nodes
    /\ content \in [Nodes -> Messages \cup {Garbage}]
    /\ epc \in [Cpus -> {"idle", "check", "alloc", "link", "copy", "raise"}]
    /\ enode \in [Cpus -> Nodes \cup {None}]
    /\ emsg \in [Cpus -> Messages \cup {TooBig, None}]
    /\ pending \in BOOLEAN
    /\ wpc \in {"idle", "test", "lock", "fill", "free"}
    /\ wnode \in Nodes \cup {None}
    /\ ring \in Seq(Messages \cup {Garbage})
    /\ handling \in Messages \cup {Garbage, None}

\* The backlog is bounded although the count check of nmsg_enqueue is made
\* without the lock: every CPU may have passed it before the others linked
\* their nodes, so the limit of NCAP_MAX_COUNT is exceeded by at most one
\* node per CPU, and count is the length of the list throughout.
BacklogBounded == count = Len(list) /\ count <= MaxCount + Cardinality(Cpus)

\* No lost wake-up: while nodes wait in the list, the worker is running, or
\* its work is pending, or an enqueuer that linked a node has yet to raise
\* it.  The worker's last list_empty is made without the lock.
NoLostWakeup ==
    list # <<>> => \/ wpc # "idle"
                   \/ pending
                   \/ \E c \in Cpus : epc[c] \in {"copy", "raise"}

\* Memory: the list holds each live node at most once, and a node that is
\* allocated and not listed belongs to one enqueuer that is about to link it.
\* nmsg_dequeue never frees a node twice and no failure path leaks one.
NodesAccounted ==
    /\ \A i, j \in 1 .. Len(list) : list[i] = list[j] => i = j
    /\ \A i \in 1 .. Len(list) : list[i] \in live
    /\ \A n \in live :
          \/ \E i \in 1 .. Len(list) : list[i] = n
          \/ \E c \in Cpus : epc[c] = "link" /\ enode[c] = n

\* ntrackd only ever finds messages in the ring that a hook passed to
\* nmsg_enqueue, never the contents of a node that has not been filled.  This
\* is so on one CPU (NmsgProofs.tla) and not on two, because the node is
\* filled after it was linked.
OnlyMessagesPublished == \A i \in 1 .. Len(ring) : ring[i] \in Messages

\* When the hooks stop enqueuing, the list is emptied.
Drains ==
    (<>[](\A c \in Cpus : epc[c] = "idle")) => <>[](list = <<>> /\ live = {})
=============================================================================
